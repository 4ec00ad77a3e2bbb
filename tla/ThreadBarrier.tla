---------------------------- MODULE ThreadBarrier ----------------------------
(***************************************************************************)
(* lecture_examples/code_l9/code_l9/thread_barrier.c: every thread runs a, *)
(* waits at a barrier for all MAXTHREADS of them, and runs b.  The barrier *)
(* is the library's: what it does is taken from its interface.             *)
(***************************************************************************)
EXTENDS ThreadMain, FiniteSets

SERIAL == -1     \* PTHREAD_BARRIER_SERIAL_THREAD

Init ==
  /\ Created
  /\ mem = <<>>                      \* nothing is shared but the barrier
  /\ local = [t \in Threads |-> 0]   \* res

AtBarrier == {t \in Threads : pc[t] = "barrier"}

Wait(t) ==
  /\ Cardinality(AtBarrier) + 1 < MAXTHREADS /\ From(t, "start", "barrier")
  /\ UNCHANGED <<mama, mem, local>>

\* The last to arrive lets all of them through; one, any one, is told so.
Open(t) ==
  LET group == AtBarrier \cup {t}
  IN  /\ pc[t] = "start" /\ Cardinality(group) = MAXTHREADS
      /\ pc' = [u \in Threads |-> IF u \in group THEN "through" ELSE pc[u]]
      /\ \E one \in group : local' = [local EXCEPT ![one] = SERIAL]
      /\ UNCHANGED <<mama, mem>>

\* The two results the library gives let the thread go on; another one would end the
\* program.  b ends the thread.
b(t) == local[t] \in {0, SERIAL} /\ From(t, "through", "ended") /\ UNCHANGED <<mama, mem, local>>

a(t) == Wait(t) \/ Open(t) \/ b(t)

main == MamaCreate \/ MamaJoin

Next == main \/ \E t \in Threads : a(t)
=============================================================================
