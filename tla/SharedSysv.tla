----------------------------- MODULE SharedSysv -----------------------------
(***************************************************************************)
(* lecture_examples/code_l7/code_l7/shared_sysv.c: the one-slot mailbox    *)
(* over a System V semaphore set, every operation of which carries         *)
(* SEM_UNDO.                                                               *)
(*                                                                         *)
(* The kernel keeps, for each process and semaphore, the sum of what the   *)
(* process's operations took, and adds it back when the process ends: not  *)
(* below zero, nor above the largest value.  An operation fails when it    *)
(* would take that sum or the value out of its range, or the set has been  *)
(* removed; locksem and unlocksem assert that it does not fail, and an     *)
(* assertion that fails ends the process.                                  *)
(***************************************************************************)
EXTENDS Integers, Sequences, FiniteSetsExt

CONSTANTS
  Clients,    \* client processes
  Server,     \* the server process
  Messages,   \* the lines a user may type
  NoLine,     \* the buffer before the first line
  SEMAEM,     \* the range of the sum kept for a process, and the largest value of a
              \* semaphore (SEMVMX): both 32767
  MaxPosts    \* bound on the messages posted

ASSUME SharedSysvAssumption ==
  /\ IsFiniteSet(Clients) /\ Server \notin Clients /\ NoLine \notin Messages
  /\ SEMAEM \in Nat \ {0} /\ MaxPosts \in Nat

Procs == Clients \cup {Server}
Sems == {"EMPTY", "FULL"}

\* The values SETVAL gives the two semaphores.
Initially == [EMPTY |-> 1, FULL |-> 0]

VARIABLES
  semval,            \* the values of the set
  semadj,            \* what each process's end would add to them
  removed,           \* whether IPC_RMID has removed the set
  buffer,            \* the shared buffer
  pc,                \* "wait", "print", "post" of the server, "menu", "wait", "enter",
                     \* "post" of a client; "exited", "killed", "aborted"
  posted, printed,   \* history: the messages announced by FULL, those printed
  undone,            \* history: the end of a process has changed a semaphore
  clamped            \* history: it would have made one negative

vars == <<semval, semadj, removed, buffer, pc, posted, printed, undone, clamped>>

Init ==
  /\ semval = Initially /\ semadj = [p \in Procs |-> [s \in Sems |-> 0]]
  /\ removed = FALSE /\ buffer = NoLine
  /\ pc = [p \in Procs |-> IF p = Server THEN "wait" ELSE "menu"]
  /\ posted = <<>> /\ printed = <<>> /\ undone = FALSE /\ clamped = FALSE

Over(p) == pc[p] \in {"exited", "killed", "aborted"}

----------------------------------------------------------------------------
(* Semaphore operations, with the kernel's part                            *)

\* Mutant: locksem without SEM_UNDO.
locksemNoUndo(p, s) ==
  /\ ~removed /\ semval[s] > 0 /\ semadj[p][s] < SEMAEM
  /\ semval' = [semval EXCEPT ![s] = @ - 1] /\ semadj' = semadj

\* Mutant: locksem with IPC_NOWAIT's answer ignored.
locksemNoWait(p, s) ==
  /\ ~removed /\ semadj[p][s] < SEMAEM
  /\ semval' = [semval EXCEPT ![s] = IF @ > 0 THEN @ - 1 ELSE 0]
  /\ semadj' = [semadj EXCEPT ![p][s] = @ + 1]

locksem(p, s) ==
  /\ ~removed /\ semval[s] > 0 /\ semadj[p][s] < SEMAEM
  /\ semval' = [semval EXCEPT ![s] = @ - 1]
  /\ semadj' = [semadj EXCEPT ![p][s] = @ + 1]

\* Mutant: the answer of IPC_NOWAIT is taken for an error.
locksemFailsWhenTaken(p, s) == removed \/ semval[s] = 0 \/ semadj[p][s] = SEMAEM

\* Mutant: IPC_RMID does not wake those who wait.
locksemFailsLate(p, s) == semval[s] > 0 /\ (removed \/ semadj[p][s] = SEMAEM)

locksemFails(p, s) == removed \/ (semval[s] > 0 /\ semadj[p][s] = SEMAEM)

unlocksem(p, s) ==
  /\ ~removed /\ semval[s] < SEMAEM /\ semadj[p][s] >= -SEMAEM
  /\ semval' = [semval EXCEPT ![s] = @ + 1]
  /\ semadj' = [semadj EXCEPT ![p][s] = @ - 1]

unlocksemFails(p, s) == removed \/ semval[s] >= SEMAEM \/ semadj[p][s] < -SEMAEM

\* The value of a semaphore after an undo.
Capped(n) == IF n < 0 THEN 0 ELSE IF n > SEMAEM THEN SEMAEM ELSE n

\* What the end of p does to the set.
Undo(p) ==
  /\ semval' = [s \in Sems |-> IF removed THEN semval[s] ELSE Capped(semval[s] + semadj[p][s])]
  /\ semadj' = [semadj EXCEPT ![p] = [s \in Sems |-> 0]]
  /\ undone' = (undone \/ (~removed /\ \E s \in Sems : semadj[p][s] # 0))
  /\ clamped' = (clamped \/ (~removed /\ \E s \in Sems : semval[s] + semadj[p][s] < 0))

End(p, how) ==
  /\ Undo(p) /\ pc' = [pc EXCEPT ![p] = how]
  /\ UNCHANGED <<removed, buffer, posted, printed>>

Goto(p, to) == pc' = [pc EXCEPT ![p] = to]

----------------------------------------------------------------------------
(* The server                                                              *)

ServerWait ==
  /\ pc[Server] = "wait" /\ locksem(Server, "FULL") /\ Goto(Server, "print")
  /\ UNCHANGED <<removed, buffer, posted, printed, undone, clamped>>

ServerPrint ==
  /\ pc[Server] = "print" /\ Goto(Server, "post")
  /\ printed' = Append(printed, buffer)
  /\ UNCHANGED <<semval, semadj, removed, buffer, posted, undone, clamped>>

ServerPost ==
  /\ pc[Server] = "post" /\ unlocksem(Server, "EMPTY") /\ Goto(Server, "wait")
  /\ UNCHANGED <<removed, buffer, posted, printed, undone, clamped>>

\* SIGINT: sigdelete calls exit, and delete removes the set.
ServerInterrupted ==
  /\ ~Over(Server) /\ Goto(Server, "exited")
  /\ removed' = TRUE
  /\ UNCHANGED <<semval, semadj, buffer, posted, printed, undone, clamped>>

----------------------------------------------------------------------------
(* A client                                                                *)

Choose(c) ==
  /\ pc[c] = "menu" /\ Len(posted) < MaxPosts /\ Goto(c, "wait")
  /\ UNCHANGED <<semval, semadj, removed, buffer, posted, printed, undone, clamped>>

Leave(c) == pc[c] = "menu" /\ End(c, "exited")

ClientWait(c) ==
  /\ pc[c] = "wait" /\ locksem(c, "EMPTY") /\ Goto(c, "enter")
  /\ UNCHANGED <<removed, buffer, posted, printed, undone, clamped>>

Enter(c) ==
  /\ pc[c] = "enter" /\ Goto(c, "post")
  /\ buffer' \in Messages \cup {buffer}
  /\ UNCHANGED <<semval, semadj, removed, posted, printed, undone, clamped>>

ClientPost(c) ==
  /\ pc[c] = "post" /\ unlocksem(c, "FULL") /\ Goto(c, "menu")
  /\ posted' = Append(posted, buffer)
  /\ UNCHANGED <<removed, buffer, printed, undone, clamped>>

\* A failed assertion of locksem or unlocksem.
Abort(p) ==
  /\ \/ pc[p] = "wait" /\ locksemFails(p, IF p = Server THEN "FULL" ELSE "EMPTY")
     \/ pc[p] = "post" /\ unlocksemFails(p, IF p = Server THEN "EMPTY" ELSE "FULL")
  /\ End(p, "aborted")

Kill(p) == ~Over(p) /\ End(p, "killed")

Client(c) == Choose(c) \/ Leave(c) \/ ClientWait(c) \/ Enter(c) \/ ClientPost(c)

Next ==
  \/ ServerWait \/ ServerPrint \/ ServerPost \/ ServerInterrupted
  \/ \E c \in Clients : Client(c)
  \/ \E p \in Procs : Abort(p) \/ Kill(p)

Spec == Init /\ [][Next]_vars

\* Every process that can run without its user does.
FairSpec ==
  Spec /\ WF_vars(ServerWait \/ ServerPrint \/ ServerPost)
       /\ \A p \in Procs : WF_vars(Abort(p))

----------------------------------------------------------------------------
(* Properties                                                              *)

Holds(p) == pc[p] \in {"enter", "print", "post"}

\* Until a process that used the semaphores ends, the buffer has one owner at a time
\* and holds the one message not printed (locksem and unlocksem of both loops).
MailboxUntilUndo ==
  ~undone /\ ~removed =>
    /\ \A p, q \in Procs : Holds(p) /\ Holds(q) => p = q
    /\ posted \in {printed, Append(printed, buffer)}

\* What the ends of all processes would add.
Adjustments(s) == MapThenSumSet(LAMBDA p : semadj[p][s], Procs)

\* What SEM_UNDO is for: the values and the sums of the living always add up to the
\* first values, so that they come back when everybody has left; only an undo that
\* the kernel cut off at zero breaks this, and none is cut off at the other end before.
UndoRestores ==
  ~clamped /\ ~removed =>
    \A s \in Sems : semval[s] + Adjustments(s) = Initially[s]

\* locksem and unlocksem fail only because the server removed the set, or at the end
\* of the range of a semaphore or of a process's sum.
AbortsExplained ==
  [][\A p \in Procs : pc'[p] = "aborted" /\ pc[p] # "aborted" =>
       \/ pc[Server] = "exited"
       \/ \E s \in Sems : semval[s] = SEMAEM \/ semadj[p][s] \in {SEMAEM, -SEMAEM - 1}]_vars

\* No client outlives the set for long in a wait: it is let through or aborts, once
\* the server has removed the set.
NobodyWaitsForRemoved ==
  \A c \in Clients : removed /\ pc[c] = "wait" ~> pc[c] # "wait"

\* shared_sysv.c:185-188, "Waiting until empty..." " done.": a client that was let
\* through finds no message in the buffer that is still to be printed.
EmptyMeansEmpty ==
  [][\A c \in Clients : ClientWait(c) => posted = printed]_vars
=============================================================================
