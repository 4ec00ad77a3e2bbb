----------------------------- MODULE ThreadMain -----------------------------
(***************************************************************************)
(* What the programs of lecture_examples/code_l9/code_l9 share: a main     *)
(* ("mama") that creates MAXTHREADS threads with one start routine and     *)
(* waits for them, and their memory.                                       *)
(***************************************************************************)
EXTENDS Integers

CONSTANT MAXTHREADS   \* the threads are 0 .. MAXTHREADS - 1

ASSUME ThreadMainAssumption == MAXTHREADS \in Nat \ {0}

Threads == 0 .. MAXTHREADS - 1
Free == -1            \* the owner of a mutex nobody has

VARIABLES
  pc,      \* where each thread is: "none" before it is created, then "start", ... "ended"
  mama,    \* [at, i] of main: at is "create", "join", "over", or "aborted" when an
           \* assertion has failed in any thread
  mem,     \* the globals and the struct they point to, with its locks
  local    \* the locals of each thread

vars == <<pc, mama, mem, local>>

Created == pc = [t \in Threads |-> "none"] /\ mama = [at |-> "create", i |-> 0]

\* A step of thread t within its routine.
From(t, at, to) == mama.at # "aborted" /\ pc[t] = at /\ pc' = [pc EXCEPT ![t] = to]

MamaCreate ==
  /\ mama.at = "create" /\ From(mama.i, "none", "start")
  /\ mama' = IF mama.i = MAXTHREADS - 1 THEN [at |-> "join", i |-> 0] ELSE [mama EXCEPT !.i = @ + 1]
  /\ UNCHANGED <<mem, local>>

MamaJoin ==
  /\ mama.at = "join" /\ pc[mama.i] = "ended"
  /\ mama' = IF mama.i = MAXTHREADS - 1 THEN [mama EXCEPT !.at = "over"] ELSE [mama EXCEPT !.i = @ + 1]
  /\ UNCHANGED <<pc, mem, local>>

\* The program has ended, or one of its assertions has ended it.
Ended == mama.at \in {"over", "aborted"}
=============================================================================
