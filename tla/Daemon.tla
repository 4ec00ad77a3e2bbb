------------------------------- MODULE Daemon --------------------------------
(***************************************************************************)
(* lecture_examples/L4/daemon.c: a program that forks twice, to be nobody's *)
(* child and in a session of its own, and then logs what comes in on a     *)
(* FIFO (0), which it makes, or finds.                                     *)
(***************************************************************************)
EXTENDS Fifos

Programs == {"daemon"}
Actors == {"parent", "child", "daemon"}

Init ==
  /\ program \in Programs /\ at = [parent |-> "fork", child |-> "none", daemon |-> "none"]
  /\ \E file \in {"none", "fifo", "other"} : os = [Empty EXCEPT !.file = file]   \* /tmp/daemon_fifo
  /\ local = [errno |-> "none", fd |-> "none",
              full |-> FALSE]   \* history: a read has filled str
  /\ sent = [k \in Pipes |-> <<>>] /\ got = [k \in Pipes |-> <<>>]

\* Strangers: writers, and one who removes the file.
Writer ==
  \/ WriterOpens(0) /\ os.file = "fifo" /\ at.daemon \in {"opening", "read"}
  \/ WriterWrites(0)
  \/ WriterCloses(0)

FifoRemoved ==
  /\ os.file # "none" /\ os' = [os EXCEPT !.file = "none"]
  /\ UNCHANGED <<program, at, local, sent, got>>

Steps == UNCHANGED <<program, os, local, sent, got>>

----------------------------------------------------------------------------
\* fork, in turn_into_daemon: the parent exits, whatever becomes of the child; where the
\* fork fails, main does.
Fork(p, child, first) ==
  /\ at[p] = "fork" /\ Steps
  /\ \/ at' = [at EXCEPT ![p] = "ended", ![child] = first]
     \/ at' = [at EXCEPT ![p] = "failed"]

setsid == Go("child", "setsid", "fork") /\ Steps

\* closeall closes what was never open, too; then /dev/null is 0, 1 and 2.
closeall ==
  /\ Go("daemon", "closeall", "mkfifo") /\ local' = [local EXCEPT !.errno = "EBADF"]
  /\ UNCHANGED <<program, os, sent, got>>

\* errno tells whether there was a file; mkfifo leaves it alone where there was none.
mkfifo ==
  /\ at.daemon = "mkfifo"
  /\ IF os.file = "none"
     THEN os' = [os EXCEPT !.file = "fifo"] /\ UNCHANGED local
     ELSE local' = [local EXCEPT !.errno = "EEXIST"] /\ UNCHANGED os
  /\ at' = [at EXCEPT !.daemon = IF local'.errno = "EEXIST" THEN "stat" ELSE "open"]
  /\ UNCHANGED <<program, sent, got>>

stat == Go("daemon", "stat", IF os.file = "fifo" THEN "open" ELSE "failed") /\ Steps

\* open finds the file, and waits for a writer.
open ==
  \/ Go("daemon", "open", IF os.file = "none" THEN "failed" ELSE "opening") /\ Steps
  \/ /\ Go("daemon", "opening", "read") /\ os.openings[0] > 0
     /\ local' = [local EXCEPT !.fd = "fifo"] /\ UNCHANGED <<program, os, sent, got>>

\* The loop.  At the end of the FIFO read returns 0, again and again.  str[len] = 0 is
\* behind str when read has filled it, where it may fall on fd.
process ==
  /\ Go("daemon", "read", "read") /\ local.fd = "fifo" /\ ReadAndPrint(0)
  /\ IF Len(Chunk(0)) = Block
     THEN \E fd \in {"fifo", "/dev/null"} : local' = [local EXCEPT !.full = TRUE, !.fd = fd]
     ELSE UNCHANGED local

Step(p) ==
  \/ p = "parent" /\ Fork("parent", "child", "setsid")
  \/ p = "child" /\ (setsid \/ Fork("child", "daemon", "closeall"))
  \/ p = "daemon" /\ (closeall \/ mkfifo \/ stat \/ open \/ process)

Next == Writer \/ FifoRemoved \/ \E p \in Actors : Step(p)

----------------------------------------------------------------------------
(* Properties                                                              *)

\* What is logged is what was written, in order and with no gap.
InOrder == IsPrefix(got[0], sent[0])

\* All that the first writer has written is logged, unless a read has filled str.
Settled == local.full \/ Len(got[0]) >= os.due[0]

\* The daemon gives up only where its FIFO is not there.
FailsOnlyWithoutFifo == at.daemon = "failed" => os.file # "fifo"
=============================================================================
