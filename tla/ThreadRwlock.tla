---------------------------- MODULE ThreadRwlock ----------------------------
(***************************************************************************)
(* lecture_examples/code_l9/code_l9/thread_rwlock_array.c: threads read    *)
(* and write an array under a read-write lock, and count themselves in     *)
(* readers and writers.  readers is changed under the read lock, by        *)
(* several threads at once: its load and its store are two steps.  A       *)
(* failed assertion ends the program.                                      *)
(*                                                                         *)
(* An element is how often it has been incremented since arr_fill, so that *)
(* sum counts what the increments added to it.                             *)
(***************************************************************************)
EXTENDS ThreadMain

CONSTANT Rounds   \* how often a thread reads or writes: 1000

Elements == Threads
Unseen == -1
Nothing == [array |-> [e \in Elements |-> Unseen], sum |-> Unseen]

Init ==
  /\ Created
  /\ mem = [rdlock |-> {}, wrlock |-> {},   \* the threads that hold rwlock
            readers |-> 0, writers |-> 0, array |-> [e \in Elements |-> 0], sum |-> 0]
  \* round: i of thread_routine; i: of arr_read and arr_write; loaded: a register;
  \* seen: what arr_read prints
  /\ local = [t \in Threads |-> [round |-> 0, i |-> 0, loaded |-> 0, seen |-> Nothing]]

Choose(t) ==
  /\ IF local[t].round < Rounds
     THEN From(t, "start", "rdlock") \/ From(t, "start", "wrlock")
     ELSE From(t, "start", "ended")
  /\ UNCHANGED <<mama, mem, local>>

Assert(condition) == mama' = IF condition THEN mama ELSE [mama EXCEPT !.at = "aborted"]

----------------------------------------------------------------------------
(* arr_read                                                                *)

\* Mutant: the read lock does not wait for a writer.
RdLockAlways(t) ==
  /\ From(t, "rdlock", "join")
  /\ mem' = [mem EXCEPT !.rdlock = @ \cup {t}]
  /\ local' = [local EXCEPT ![t].seen = Nothing, ![t].i = 0] /\ UNCHANGED mama

RdLock(t) ==
  /\ From(t, "rdlock", "join") /\ mem.wrlock = {}
  /\ mem' = [mem EXCEPT !.rdlock = @ \cup {t}]
  /\ local' = [local EXCEPT ![t].seen = Nothing, ![t].i = 0] /\ UNCHANGED mama

\* readers++ and readers-- load ...
Load(t) ==
  /\ From(t, "join", "joining") \/ From(t, "leave", "leaving")
  /\ local' = [local EXCEPT ![t].loaded = mem.readers] /\ UNCHANGED <<mama, mem>>

\* ... and store.
Joined(t) ==
  /\ From(t, "joining", "check")
  /\ mem' = [mem EXCEPT !.readers = local[t].loaded + 1] /\ UNCHANGED <<mama, local>>

Left(t) ==
  /\ From(t, "leaving", "rdunlock")
  /\ mem' = [mem EXCEPT !.readers = local[t].loaded - 1] /\ UNCHANGED <<mama, local>>

Check(t) ==
  /\ From(t, "check", "print") /\ Assert(mem.writers = 0) /\ UNCHANGED <<mem, local>>

PrintElement(t) ==
  /\ From(t, "print", "print") /\ local[t].i \in Elements
  /\ local' = [local EXCEPT ![t].seen.array[local[t].i] = mem.array[local[t].i], ![t].i = @ + 1]
  /\ UNCHANGED <<mama, mem>>

PrintSum(t) ==
  /\ From(t, "print", "leave") /\ local[t].i = MAXTHREADS
  /\ local' = [local EXCEPT ![t].seen.sum = mem.sum] /\ UNCHANGED <<mama, mem>>

RdUnlock(t) ==
  /\ From(t, "rdunlock", "start")
  /\ mem' = [mem EXCEPT !.rdlock = @ \ {t}]
  /\ local' = [local EXCEPT ![t].round = @ + 1, ![t].loaded = 0] /\ UNCHANGED mama

----------------------------------------------------------------------------
(* arr_write                                                               *)

WrLock(t) ==
  /\ From(t, "wrlock", "enter") /\ mem.rdlock = {} /\ mem.wrlock = {}
  /\ mem' = [mem EXCEPT !.wrlock = {t}]
  /\ local' = [local EXCEPT ![t].i = 0] /\ UNCHANGED mama

\* Mutant: a writer does not take itself off the count.
ExitUncounted(t) ==
  /\ From(t, "write", "wrunlock") /\ local[t].i = MAXTHREADS /\ UNCHANGED <<mama, mem, local>>

Enter(t) ==
  /\ From(t, "enter", "write")
  /\ mem' = [mem EXCEPT !.writers = @ + 1]
  /\ Assert(mem.writers + 1 = 1 /\ mem.readers = 0) /\ UNCHANGED local

WriteElement(t) ==
  /\ From(t, "write", "write") /\ local[t].i \in Elements
  /\ mem' = [mem EXCEPT !.array[local[t].i] = @ + 1, !.sum = @ + mem.array[local[t].i] + 1]
  /\ local' = [local EXCEPT ![t].i = @ + 1] /\ UNCHANGED mama

Exit(t) ==
  /\ From(t, "write", "wrunlock") /\ local[t].i = MAXTHREADS
  /\ mem' = [mem EXCEPT !.writers = @ - 1] /\ UNCHANGED <<mama, local>>

WrUnlock(t) ==
  /\ From(t, "wrunlock", "start")
  /\ mem' = [mem EXCEPT !.wrlock = @ \ {t}]
  /\ local' = [local EXCEPT ![t].round = @ + 1] /\ UNCHANGED mama

----------------------------------------------------------------------------
arr_read(t) ==
  RdLock(t) \/ Load(t) \/ Joined(t) \/ Left(t) \/ Check(t) \/ PrintElement(t) \/ PrintSum(t) \/ RdUnlock(t)
arr_write(t) == WrLock(t) \/ Enter(t) \/ WriteElement(t) \/ Exit(t) \/ WrUnlock(t)
thread_routine(t) == Choose(t) \/ arr_read(t) \/ arr_write(t)

main == MamaCreate \/ MamaJoin

Next == main \/ \E t \in Threads : thread_routine(t)

----------------------------------------------------------------------------
(* Properties                                                              *)

\* What arr_read prints is one state of the array, between two whole passes of
\* arr_write: all elements have been incremented equally often, n times, and the sum is
\* what that many passes make it, 1 + ... + n for each element.
SnapshotWhole ==
  \A t \in Threads :
    LET print == local[t].seen
        n == print.array[0]
    IN  print.sum # Unseen =>
          print.array = [e \in Elements |-> n] /\ 2 * print.sum = MAXTHREADS * (n * (n + 1))

\* The only assertion that can fail is the one on readers, as a writer comes in: the
\* lock keeps the count of writers right and hides it from readers.
WritersCounted == mama.at = "aborted" => mem.writers = 1 /\ mem.readers # 0 /\ mem.rdlock = {}

\* thread_rwlock_array.c:70 asserts that no reader is counted when a writer is in.
ReadersCounted == \A t \in Threads : pc[t] = "enter" => mem.readers = 0
=============================================================================
