------------------------------ MODULE SemaMenu -------------------------------
(***************************************************************************)
(* What sema_posix.c and sema_sysv.c of lecture_examples/code_l7/code_l7   *)
(* have in common: processes whose users ask for a resource, give it back  *)
(* or leave.  A semaphore is known by the server that created it.          *)
(*                                                                         *)
(* A choice the code answers with a message only, and getvalue, change     *)
(* nothing and are no steps.                                               *)
(***************************************************************************)
EXTENDS Naturals, FiniteSets

CONSTANTS
  Servers,   \* processes started without an argument, each once
  Clients,   \* processes started with one, each once
  None       \* no semaphore

\* What the constants are taken to be.
MenuConstants == Servers \cap Clients = {} /\ None \notin Servers

Procs == Servers \cup Clients

VARIABLES
  found,     \* the semaphores the kernel can still find: by the name, or by their id
  sem,       \* their values
  id,        \* the semaphore of each process
  semheld,   \* the resources it counts as held
  pc,        \* "off", "set" (of a server, before SETVAL), "menu", "wait" (in the semaphore
             \* operation of request), "took", "posted" (after an operation, before semheld)
  end        \* "none" yet; or "exited", "removed", "aborted", "killed", where pc says

menu == <<found, sem, id, semheld, pc, end>>

Init ==
  /\ found = {} /\ sem = [o \in Servers |-> 0] /\ id = [p \in Procs |-> None]
  /\ semheld = [p \in Procs |-> 0]
  /\ pc = [p \in Procs |-> "off"] /\ end = [p \in Procs |-> "none"]

At(p, place) == end[p] = "none" /\ pc[p] = place

From(p, at, to) == At(p, at) /\ pc' = [pc EXCEPT ![p] = to] /\ UNCHANGED end

End(p, how) == end' = [end EXCEPT ![p] = how] /\ UNCHANGED <<sem, id, semheld, pc>>

Post(p) ==
  /\ semheld[p] >= 1 /\ From(p, "menu", "posted")
  /\ sem' = [sem EXCEPT ![id[p]] = @ + 1] /\ UNCHANGED <<found, id, semheld>>

Posted(p) ==
  /\ From(p, "posted", "menu") /\ semheld' = [semheld EXCEPT ![p] = @ - 1]
  /\ UNCHANGED <<found, sem, id>>

Ask(p) == semheld[p] = 0 /\ From(p, "menu", "wait") /\ UNCHANGED <<found, sem, id, semheld>>

Wait(p, at) ==
  /\ From(p, at, "took")
  /\ sem[id[p]] > 0 /\ sem' = [sem EXCEPT ![id[p]] = @ - 1] /\ UNCHANGED <<found, id, semheld>>

Took(p) ==
  /\ From(p, "took", "menu") /\ semheld' = [semheld EXCEPT ![p] = @ + 1]
  /\ UNCHANGED <<found, sem, id>>

\* A signal: the semaphore is not given back.
Kill(p) == pc[p] # "off" /\ end[p] = "none" /\ End(p, "killed") /\ UNCHANGED found

----------------------------------------------------------------------------
(* Who has a resource, whatever its process counts                         *)

Has(p) == pc[p] = "took" \/ (semheld[p] > 0 /\ pc[p] # "posted")

Holders == [o \in Servers |-> {p \in Procs : id[p] = o /\ Has(p) /\ end[p] = "none"}]

Losers == [o \in Servers |-> {p \in Procs : id[p] = o /\ Has(p) /\ end[p] # "none"}]
=============================================================================
