------------------------------ MODULE SemaSysv -------------------------------
(***************************************************************************)
(* lecture_examples/code_l7/code_l7/sema_sysv.c: one resource behind a     *)
(* private System V semaphore without SEM_UNDO.  Its server prints the id, *)
(* and removes the semaphore when it leaves by its menu.                   *)
(***************************************************************************)
EXTENDS SemaMenu

Resources == 1

\* semget, then SETVAL.
server(s) ==
  \/ /\ From(s, "off", "set") /\ id' = [id EXCEPT ![s] = s] /\ found' = found \cup {s}
     /\ UNCHANGED <<sem, semheld>>
  \/ /\ From(s, "set", "menu") /\ sem' = [sem EXCEPT ![s] = Resources]
     /\ UNCHANGED <<found, id, semheld>>

\* Any id a server has printed, removed or not.
client(c) ==
  /\ From(c, "off", "menu")
  /\ \E s \in Servers : pc[s] \notin {"off", "set"} /\ id' = [id EXCEPT ![c] = s]
  /\ UNCHANGED <<found, sem, semheld>>

\* The operation fails, and with it the assertion: the semaphore has been removed.
semopFails(p) == id[p] \notin found /\ End(p, "aborted") /\ UNCHANGED found

release(p) ==
  \/ id[p] \in found /\ Post(p)
  \/ semheld[p] >= 1 /\ At(p, "menu") /\ semopFails(p)
  \/ Posted(p)

request(p) ==
  \/ Ask(p)
  \/ id[p] \in found /\ Wait(p, "wait")
  \/ At(p, "wait") /\ semopFails(p)
  \/ Took(p)

\* Mutant: whoever leaves removes the semaphore.
exitRemoves(p) ==
  /\ At(p, "menu")
  /\ IF id[p] \in found THEN End(p, "removed") /\ found' = found \ {id[p]} ELSE semopFails(p)

\* A server removes its semaphore, and asserts that it was there.
exit(p) ==
  /\ At(p, "menu")
  /\ IF p \in Clients THEN End(p, "exited") /\ UNCHANGED found
     ELSE IF p \in found THEN End(p, "removed") /\ found' = found \ {p} ELSE semopFails(p)

main(p) ==
  \/ p \in Servers /\ server(p)
  \/ p \in Clients /\ client(p)
  \/ release(p) \/ request(p) \/ exit(p)

Next == \E p \in Procs : main(p) \/ Kill(p)

Spec == Init /\ [][Next]_menu

----------------------------------------------------------------------------
(* Properties                                                              *)

\* Before SETVAL, a semaphore counts as full: nobody has its id.
Pool == INSTANCE ResourcePool WITH
  Users <- Procs, Pools <- Servers,
  free <- [o \in Servers |-> IF pc[o] \in {"off", "set"} THEN Resources ELSE sem[o]],
  held <- Holders, lost <- Losers

\* Each semaphore is a lock: request and release, the removal and the ends of processes
\* never let two in, and without SEM_UNDO who ends with it takes it along.
SysvPool == Pool!Spec

\* No assertion fails but of a client whose server has left by its menu.
AbortsAfterRemoval ==
  \A p \in Procs : end[p] = "aborted" => p \in Clients /\ end[id[p]] = "removed"
=============================================================================
