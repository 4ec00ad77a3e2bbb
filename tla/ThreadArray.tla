----------------------------- MODULE ThreadArray -----------------------------
(***************************************************************************)
(* lecture_examples/code_l9/code_l9/thread_array.c: every thread stores a  *)
(* random number at the next free position, all under one mutex.  Each     *)
(* access to memory that another thread may also make is a step of its     *)
(* own.  A random number is its place in the generator's sequence.         *)
(***************************************************************************)
EXTENDS ThreadMain

Init ==
  /\ Created
  /\ mem = [mutex |-> Free, global_seed |-> 0, id |-> 0, array |-> [t \in Threads |-> 0], sum |-> 0]
  /\ local = [t \in Threads |-> 0]   \* tmp_seed, then id

\* Mutant: the mutex is not taken.
LockNothing(t) == From(t, "start", "draw") /\ UNCHANGED <<mama, mem, local>>

Lock(t) ==
  /\ From(t, "start", "draw") /\ mem.mutex = Free
  /\ mem' = [mem EXCEPT !.mutex = t] /\ UNCHANGED <<mama, local>>

\* tmp_seed is computed from global_seed ...
Draw(t) ==
  /\ From(t, "draw", "keep")
  /\ local' = [local EXCEPT ![t] = mem.global_seed + 1] /\ UNCHANGED <<mama, mem>>

\* ... and becomes the next global_seed; id is read.
Keep(t) ==
  /\ From(t, "keep", "store")
  /\ mem' = [mem EXCEPT !.global_seed = local[t]]
  /\ local' = [local EXCEPT ![t] = mem.id] /\ UNCHANGED mama

Store(t) ==
  /\ From(t, "store", "add")
  /\ mem' = [mem EXCEPT !.array[local[t]] = mem.global_seed] /\ UNCHANGED <<mama, local>>

Add(t) ==
  /\ From(t, "add", "next")
  /\ mem' = [mem EXCEPT !.sum = @ + mem.global_seed] /\ UNCHANGED <<mama, local>>

NextId(t) ==
  /\ From(t, "next", "unlock") /\ mem' = [mem EXCEPT !.id = @ + 1] /\ UNCHANGED <<mama, local>>

Unlock(t) ==
  /\ From(t, "unlock", "ended") /\ mem' = [mem EXCEPT !.mutex = Free] /\ UNCHANGED <<mama, local>>

thread_routine(t) ==
  Lock(t) \/ Draw(t) \/ Keep(t) \/ Store(t) \/ Add(t) \/ NextId(t) \/ Unlock(t)

main == MamaCreate \/ MamaJoin

Next == main \/ \E t \in Threads : thread_routine(t)

----------------------------------------------------------------------------
(* Properties                                                              *)

\* When main prints the sum, the positions hold the numbers in the order they were
\* drawn, none is left out or written twice, and the sum is theirs, 1 + ... + MAXTHREADS.
AllStored ==
  mama.at = "over" =>
    /\ mem.array = [t \in Threads |-> t + 1]
    /\ 2 * mem.sum = MAXTHREADS * (MAXTHREADS + 1)
=============================================================================
