----------------------------- MODULE ThreadSeed -----------------------------
(***************************************************************************)
(* lecture_examples/code_l9/code_l9/thread_array_nomutex.c: every thread   *)
(* reads global_seed, gives up the processor, and writes one more.  The    *)
(* program's argument says whether it does so under a mutex.               *)
(***************************************************************************)
EXTENDS ThreadMain

Init ==
  /\ Created
  \* locking: whether atoi(argv[1]) > 0
  /\ \E locking \in BOOLEAN : mem = [locking |-> locking, mutex |-> Free, global_seed |-> 0]
  /\ local = [t \in Threads |-> 0]   \* id

Lock(t) ==
  /\ From(t, "start", "read") /\ (mem.locking => mem.mutex = Free)
  /\ mem' = [mem EXCEPT !.mutex = IF mem.locking THEN t ELSE @] /\ UNCHANGED <<mama, local>>

\* Mutant: the mutex is given back before the write.
ReadAndUnlock(t) ==
  /\ From(t, "read", "write") /\ local' = [local EXCEPT ![t] = mem.global_seed]
  /\ mem' = [mem EXCEPT !.mutex = Free] /\ UNCHANGED mama

Read(t) ==
  /\ From(t, "read", "write") /\ local' = [local EXCEPT ![t] = mem.global_seed]
  /\ UNCHANGED <<mama, mem>>

Write(t) ==
  /\ From(t, "write", "unlock") /\ local' = [local EXCEPT ![t] = @ + 1]
  /\ mem' = [mem EXCEPT !.global_seed = local[t] + 1] /\ UNCHANGED mama

Unlock(t) ==
  /\ From(t, "unlock", "ended") /\ mem' = [mem EXCEPT !.mutex = Free] /\ UNCHANGED <<mama, local>>

thread_routine(t) == Lock(t) \/ Read(t) \/ Write(t) \/ Unlock(t)

main == MamaCreate \/ MamaJoin

Next == main \/ \E t \in Threads : thread_routine(t)

----------------------------------------------------------------------------
(* Properties                                                              *)

\* What main prints: every thread is counted under the mutex; without it some may
\* overwrite others, but the count stays between one and all.
ThreadsCounted ==
  mama.at = "over" =>
    mem.global_seed \in IF mem.locking THEN {MAXTHREADS} ELSE 1 .. MAXTHREADS
=============================================================================
