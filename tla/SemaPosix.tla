------------------------------ MODULE SemaPosix ------------------------------
(***************************************************************************)
(* lecture_examples/code_l7/code_l7/sema_posix.c: two resources behind a   *)
(* named POSIX semaphore, which any process may unlink.                    *)
(***************************************************************************)
EXTENDS SemaMenu

Resources == 2

\* Mutant: the server makes a semaphore of its own, as with O_EXCL and a retry.
serverExclusive(s) ==
  /\ From(s, "off", "menu") /\ id' = [id EXCEPT ![s] = s]
  /\ sem' = [sem EXCEPT ![s] = Resources] /\ found' = {s} /\ UNCHANGED semheld

\* O_CREAT: the semaphore the name leads to, or a new one.
server(s) ==
  /\ From(s, "off", "menu")
  /\ IF found # {}
     THEN \E o \in found : id' = [id EXCEPT ![s] = o] /\ UNCHANGED <<found, sem>>
     ELSE /\ id' = [id EXCEPT ![s] = s] /\ found' = {s}
          /\ sem' = [sem EXCEPT ![s] = Resources]
  /\ UNCHANGED semheld

\* A client asserts that the semaphore is there.
client(c) ==
  \/ \E o \in found :
       From(c, "off", "menu") /\ id' = [id EXCEPT ![c] = o] /\ UNCHANGED <<found, sem, semheld>>
  \/ At(c, "off") /\ found = {} /\ End(c, "aborted") /\ UNCHANGED found

release(p) == Post(p) \/ Posted(p)

\* semheld++ comes when sem_wait has returned.
request(p) == Ask(p) \/ Wait(p, "wait") \/ Took(p)

\* Mutant: the answer of sem_trywait is not looked at.
tryUnchecked(p) == semheld[p] = 0 /\ From(p, "menu", "took") /\ UNCHANGED <<found, sem, id, semheld>>

\* EAGAIN, and the menu again, when the value is zero.
try(p) == semheld[p] = 0 /\ Wait(p, "menu")

\* sem_close.
exit(p) == At(p, "menu") /\ End(p, "exited") /\ UNCHANGED found

\* sem_unlink, whose answer is ignored, of whatever the name leads to by then.
remove(p) == At(p, "menu") /\ End(p, "removed") /\ found' = {}

main(p) ==
  \/ p \in Servers /\ server(p)
  \/ p \in Clients /\ client(p)
  \/ release(p) \/ request(p) \/ try(p) \/ exit(p) \/ remove(p)

Next == \E p \in Procs : main(p) \/ Kill(p)

Spec == Init /\ [][Next]_menu

----------------------------------------------------------------------------
(* Properties                                                              *)

\* Before its creation, a semaphore counts as full.
Pool == INSTANCE ResourcePool WITH
  Users <- Procs, Pools <- Servers,
  free <- [o \in Servers |-> IF id[o] = o THEN sem[o] ELSE Resources],
  held <- Holders, lost <- Losers

\* Each semaphore of the name is a pool of two resources, through all interleavings of
\* request, try and release, and lost ones are those of processes that ended with one.
PosixPool == Pool!Spec

\* There are never more semaphores than one, and one for each removal: servers that
\* start at once share one, and a removal, even by a process whose own semaphore has
\* lost the name before, separates those before it from those after it.
SemaphoresCounted ==
  Cardinality({s \in Servers : id[s] = s}) <= 1 + Cardinality({p \in Procs : end[p] = "removed"})
=============================================================================
