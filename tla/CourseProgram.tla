---------------------------- MODULE CourseProgram ----------------------------
(***************************************************************************)
(* What the models of the lecture programs that wait for input have in     *)
(* common: processes, each at a place in its code, the kernel's objects    *)
(* they share, their locals, and a history of what was sent to them and of *)
(* what they have made of it, by channel (a pipe, a signal, a queue).      *)
(***************************************************************************)
EXTENDS Integers, Sequences

VARIABLES
  program,   \* the program that runs, chosen at the start
  at,        \* where each of its processes is
  os,        \* the kernel's objects
  local,     \* the locals of the processes
  sent,      \* history: what was sent on each channel
  got        \* history: what the program has printed of it

vars == <<program, at, os, local, sent, got>>

\* Process p goes on.
Go(p, from, to) == at[p] = from /\ at' = [at EXCEPT ![p] = to]

\* The least of two numbers.
Least(m, n) == IF m < n THEN m ELSE n
=============================================================================
