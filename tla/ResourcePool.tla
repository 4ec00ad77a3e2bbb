---------------------------- MODULE ResourcePool -----------------------------
(***************************************************************************)
(* What a counting semaphore promises the processes that use it as the     *)
(* menus of code_l7 do: each pool has so many resources, each is free,     *)
(* held by one process, or lost with the process that held it when it      *)
(* ended.  SemaPosix and SemaSysv implement this.                          *)
(***************************************************************************)
EXTENDS Naturals, FiniteSets

CONSTANTS
  Users,      \* who may hold a resource
  Pools,      \* the semaphores
  Resources   \* the resources of each

VARIABLES
  free,   \* how many resources of each pool are free
  held,   \* who holds one
  lost    \* who ended with one

pool == <<free, held, lost>>

Init ==
  /\ free = [o \in Pools |-> Resources]
  /\ held = [o \in Pools |-> {}] /\ lost = [o \in Pools |-> {}]

Take(u, o) ==
  /\ free[o] > 0 /\ \A q \in Pools : u \notin held[q] \cup lost[q]
  /\ free' = [free EXCEPT ![o] = @ - 1]
  /\ held' = [held EXCEPT ![o] = @ \cup {u}] /\ lost' = lost

Give(u, o) ==
  /\ u \in held[o]
  /\ free' = [free EXCEPT ![o] = @ + 1]
  /\ held' = [held EXCEPT ![o] = @ \ {u}] /\ lost' = lost

Lose(u, o) ==
  /\ u \in held[o]
  /\ held' = [held EXCEPT ![o] = @ \ {u}]
  /\ lost' = [lost EXCEPT ![o] = @ \cup {u}] /\ free' = free

Next == \E u \in Users, o \in Pools : Take(u, o) \/ Give(u, o) \/ Lose(u, o)

Spec == Init /\ [][Next]_pool

----------------------------------------------------------------------------
(* Property                                                                *)

\* No resource is made or doubled: the free, the held and the lost are all there are,
\* and nobody has two.
Conserved ==
  /\ \A o \in Pools : free[o] + Cardinality(held[o]) + Cardinality(lost[o]) = Resources
  /\ \A o, q \in Pools :
       /\ held[o] \cap lost[q] = {}
       /\ o # q => held[o] \cap held[q] = {}
=============================================================================
