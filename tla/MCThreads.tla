------------------------------ MODULE MCThreads ------------------------------
(* The programs of code_l9, of which one is chosen to run. *)
EXTENDS ThreadMain

CONSTANTS MaxSpurious, Rounds

ASSUME MCThreadsAssumption == MaxSpurious \in Nat /\ Rounds \in Nat

VARIABLE program   \* which one

\* thread_cond_array.c, thread_array.c, thread_array_nomutex.c,
\* thread_rwlock_array.c, thread_barrier.c
Turns == INSTANCE ThreadTurns
Fill == INSTANCE ThreadArray
Seed == INSTANCE ThreadSeed
Rw == INSTANCE ThreadRwlock
Barrier == INSTANCE ThreadBarrier

Running(p) == program = p /\ UNCHANGED program

Init ==
  \/ program = "turns" /\ Turns!Init
  \/ program = "array" /\ Fill!Init
  \/ program = "seed" /\ Seed!Init
  \/ program = "rwlock" /\ Rw!Init
  \/ program = "barrier" /\ Barrier!Init

Next ==
  \/ Running("turns") /\ Turns!Next
  \/ Running("array") /\ Fill!Next
  \/ Running("seed") /\ Seed!Next
  \/ Running("rwlock") /\ Rw!Next
  \/ Running("barrier") /\ Barrier!Next

\* Main, as far as it depends on itself.
MamaNext ==
  \/ Running("turns") /\ Turns!main
  \/ Running("array") /\ Fill!main
  \/ Running("seed") /\ Seed!main
  \/ Running("rwlock") /\ Rw!main
  \/ Running("barrier") /\ Barrier!main

\* Thread t, without the wake-ups nobody asked for.
ThreadNext(t) ==
  \/ Running("turns") /\ Turns!thread_routine(t)
  \/ Running("array") /\ Fill!thread_routine(t)
  \/ Running("seed") /\ Seed!thread_routine(t)
  \/ Running("rwlock") /\ Rw!thread_routine(t)
  \/ Running("barrier") /\ Barrier!a(t)

\* The scheduler runs every thread that can run.  Weak fairness is enough for the
\* locks: each thread takes its lock a bounded number of times.
Spec ==
  /\ Init /\ [][Next]_<<program, vars>>
  /\ WF_<<program, vars>>(MamaNext)
  /\ \A t \in Threads : WF_<<program, vars>>(ThreadNext(t))

\* Without fairness, the one program.
RwlockSpec == program = "rwlock" /\ Rw!Init /\ [][Running("rwlock") /\ Rw!Next]_<<program, vars>>

----------------------------------------------------------------------------
(* Properties of the programs, each stated in its program's module         *)

\* thread_cond_array.c fills its array from the end, one turn after the other.
TurnsKept == program = "turns" => Turns!TurnsKept

\* thread_array.c fills its array from the start, in the order of the numbers drawn.
AllStored == program = "array" => Fill!AllStored

\* thread_array_nomutex.c counts all threads under its mutex, and at least one without.
ThreadsCounted == program = "seed" => Seed!ThreadsCounted

\* thread_rwlock_array.c never shows a reader an unfinished write.
SnapshotWhole == program = "rwlock" => Rw!SnapshotWhole

\* thread_rwlock_array.c fails no assertion but the one on readers.
WritersCounted == program = "rwlock" => Rw!WritersCounted

\* thread_rwlock_array.c:70, assert(thread_array->readers == 0).
ReadersCounted == program = "rwlock" => Rw!ReadersCounted

\* Every program ends: no wake-up is lost, nobody keeps a lock or waits at a barrier
\* for somebody who does not come (main of the five programs, and their routines).
ProgramsEnd == <>Ended
=============================================================================
