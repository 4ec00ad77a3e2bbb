-------------------------- MODULE MultiplexedInput ---------------------------
(***************************************************************************)
(* lecture_examples/L5/mpx-*.c: seven programs that print what comes in on *)
(* two FIFOs, p1 and p2 (here 0 and 1), and differ in how they wait for    *)
(* it.  Each print goes with the read before it, except in the two         *)
(* programs on asynchronous I/O, where a buffer is filled, terminated and  *)
(* printed in three steps.                                                 *)
(***************************************************************************)
EXTENDS Fifos

Programs == {"mpx-blocks", "mpx-nonblock", "mpx-fork", "mpx-select", "mpx-poll", "mpx-aio", "mpx-aiosig"}
NonBlocking == {"mpx-nonblock", "mpx-select", "mpx-poll"}
Asynchronous == {"mpx-aio", "mpx-aiosig"}

\* "main" of each program; the child of mpx-fork; the threads of the C library that do
\* the asynchronous reads; the kernel's delivery of signals.
Actors == {"main", "child", "aio 0", "aio 1", "signal"}

Init ==
  /\ program \in Programs /\ at = [main |-> "open", child |-> "none"] /\ os = Empty
  /\ local = [i |-> 0,           \* i or fd of main
              watch |-> Pipes,   \* watchset, or the events of fds
              ready |-> {},      \* inset, or the revents of fds
              aio |-> [k \in Pipes |-> "none"],    \* cbs: "none", "reading", "astray", "done"
              buf |-> [k \in Pipes |-> <<>>],      \* what such a read has put into buf
              full |-> FALSE,    \* history: a read has filled buf[0]
              wiped |-> FALSE,   \* buf[1][0] is the zero that ends buf[0]
              astray |-> FALSE,  \* history: a read of p1 has gone astray
              sigio |-> FALSE, quit |-> FALSE,
              late |-> FALSE]    \* history: sig_int has last run where no scan follows it
  /\ sent = [k \in Pipes |-> <<>>] /\ got = [k \in Pipes |-> <<>>]

\* Whether main has FIFO k open, or waits in its open.
Reading(k) ==
  IF at.main = "open" THEN k < local.i \/ (k = local.i /\ program \notin NonBlocking)
  ELSE /\ program = "mpx-select" => k \in local.watch
       /\ \E p \in {"main", "child"} : at[p] \notin {"none", "ended", "failed"}

Writer ==
  \E k \in Pipes : (WriterOpens(k) /\ Reading(k)) \/ (WriterWrites(k) /\ Reading(k)) \/ WriterCloses(k)

OpenPipe(first) ==
  /\ Go("main", "open", IF local.i = 0 THEN "open" ELSE first)
  /\ program \in NonBlocking \/ os.openings[local.i] > 0
  /\ local' = [local EXCEPT !.i = 1 - @] /\ UNCHANGED <<program, os, sent, got>>

Other == local' = [local EXCEPT !.i = 1 - @]

----------------------------------------------------------------------------
(* mpx-blocks.c, mpx-nonblock.c, mpx-fork.c                                 *)

mpx_blocks ==
  \/ OpenPipe("read")
  \/ Go("main", "read", "read") /\ ReadAndPrint(local.i) /\ Other
  \/ Go("main", "read", "ended") /\ AtEnd(local.i) /\ UNCHANGED <<program, os, local, sent, got>>

mpx_nonblock ==
  \/ OpenPipe("read")
  \/ /\ Go("main", "read", "read") /\ Other
     /\ ReadAndPrint(local.i) \/ (~More(local.i) /\ UNCHANGED <<program, os, sent, got>>)

Fork ==
  /\ at.main = "fork" /\ at' = [main |-> "read", child |-> "read"]
  /\ UNCHANGED <<program, os, local, sent, got>>

myfd(p) == IF p = "child" THEN 0 ELSE 1

mpx_fork(p) ==
  \/ p = "main" /\ (OpenPipe("fork") \/ Fork)
  \/ Go(p, "read", "read") /\ ReadAndPrint(myfd(p)) /\ UNCHANGED local
  \/ Go(p, "read", "ended") /\ AtEnd(myfd(p)) /\ UNCHANGED <<program, os, local, sent, got>>

----------------------------------------------------------------------------
(* mpx-select.c, mpx-poll.c                                                 *)

\* Linux reports the end of a FIFO opened without a writer only after one has come.
HungUp(k) == ~os.writer[k] /\ os.openings[k] > 0

SelectReports == {k \in local.watch : More(k) \/ HungUp(k)}

\* POLLHUP is reported though events is 0.
PollReports == {k \in Pipes : (k \in local.watch /\ More(k)) \/ HungUp(k)}

WaitFor(reports) ==
  /\ \/ local.watch = {} /\ Go("main", "wait", "ended") /\ UNCHANGED local
     \/ /\ local.watch # {} /\ reports # {} /\ Go("main", "wait", "scan")
        /\ local' = [local EXCEPT !.ready = reports, !.i = 0]
  /\ UNCHANGED <<program, os, sent, got>>

\* Mutant: it looks at what was asked for.
AskedFor(i) == i \in local.watch

\* Whether select or poll has reported FIFO i.
Reported(i) == i \in local.ready

\* The loop over i, with one read of a FIFO that was reported; EAGAIN is an error.
Scan ==
  \/ /\ local.i = 2 /\ Go("main", "scan", "wait")
     /\ local' = [local EXCEPT !.ready = {}, !.i = 0] /\ UNCHANGED <<program, os, sent, got>>
  \/ /\ local.i < 2 /\ ~Reported(local.i) /\ Go("main", "scan", "scan")
     /\ local' = [local EXCEPT !.i = @ + 1] /\ UNCHANGED <<program, os, sent, got>>
  \/ /\ Reported(local.i) /\ Go("main", "scan", "scan")
     /\ ReadAndPrint(local.i) /\ local' = [local EXCEPT !.i = @ + 1]
  \/ /\ Reported(local.i) /\ AtEnd(local.i) /\ Go("main", "scan", "scan")
     /\ local' = [local EXCEPT !.watch = @ \ {local.i}, !.i = @ + 1]
     /\ UNCHANGED <<program, os, sent, got>>
  \/ /\ Reported(local.i) /\ WouldBlock(local.i) /\ Go("main", "scan", "failed")
     /\ UNCHANGED <<program, os, local, sent, got>>

mpx_select == OpenPipe("wait") \/ WaitFor(SelectReports) \/ Scan
mpx_poll == OpenPipe("wait") \/ WaitFor(PollReports) \/ Scan

----------------------------------------------------------------------------
(* mpx-aio.c, mpx-aiosig.c                                                  *)

InitReads(next) ==
  /\ Go("main", "start", next) /\ local' = [local EXCEPT !.aio = [k \in Pipes |-> "reading"]]
  /\ UNCHANGED <<program, os, sent, got>>

\* The read that init_read has started: data, or the end, in which case buf keeps nothing.
AioRead(k) ==
  /\ local.aio[k] = "reading" /\ ~WouldBlock(k)
  /\ LET after == IF More(k) THEN Take(k) ELSE os
     IN  os' = IF program = "mpx-aiosig" THEN [after EXCEPT !.pending = @ \cup {"SIGIO"}] ELSE after
  /\ local' = [local EXCEPT !.aio[k] = "done", !.buf[k] = Chunk(k),
                            !.wiped = IF k = 1 /\ More(k) THEN FALSE ELSE @]
  /\ UNCHANGED <<program, at, sent, got>>

\* What buf[i][ret] = 0 leaves of cbs where i is 1 and ret 4096, behind the whole array:
\* all of it, where padding follows (as when built by the Makefile), or a descriptor of 0 for
\* cbs[0], where cbs follows, which sends a read of p1 that has not begun to standard input.
Spoilt(cbs) ==
  {cbs} \cup (IF local.i = 1 /\ Len(local.buf[1]) = Block /\ cbs[0] = "reading"
              THEN {[cbs EXCEPT ![0] = "astray"]} ELSE {})

\* Such a read ends with standard input, or with text of it (0, which nobody sends).
AstrayRead ==
  /\ local.aio[0] = "astray"
  /\ \E text \in {<<>>, <<0>>} : local' = [local EXCEPT !.aio[0] = "done", !.buf[0] = text]
  /\ os' = IF program = "mpx-aiosig" THEN [os EXCEPT !.pending = @ \cup {"SIGIO"}] ELSE os
  /\ UNCHANGED <<program, at, sent, got>>

\* aio_error and aio_return; a read that has ended with no data ends the program.
\* buf[i][ret] = 0 writes behind buf[0] when ret is 4096, which is where buf[1] starts.
Check(end) ==
  \/ /\ local.i = 2 /\ Go("main", "scan", end)
     /\ local' = [local EXCEPT !.i = 0] /\ UNCHANGED <<program, os, sent, got>>
  \/ /\ local.i < 2 /\ local.aio[local.i] \in {"reading", "astray"} /\ Go("main", "scan", "scan")
     /\ local' = [local EXCEPT !.i = @ + 1] /\ UNCHANGED <<program, os, sent, got>>
  \/ /\ local.i < 2 /\ local.aio[local.i] = "done"
     /\ IF local.buf[local.i] = <<>>
        THEN Go("main", "scan", "failed") /\ UNCHANGED local
        ELSE /\ Go("main", "scan", "print")
             /\ LET fills == local.i = 0 /\ Len(local.buf[0]) = Block
                IN  \E cbs \in Spoilt(local.aio) :
                      local' = [local EXCEPT !.full = @ \/ fills, !.wiped = @ \/ fills,
                                             !.aio = cbs, !.astray = @ \/ cbs # local.aio]
     /\ UNCHANGED <<program, os, sent, got>>

\* printf and init_read.  It prints up to the first zero: nothing, where buf[1] was
\* wiped after it was filled; on into buf[1], where that was filled over the zero.
ShowBuffer ==
  /\ Go("main", "print", "scan")
  /\ LET i == local.i
         text == IF i = 1 /\ local.wiped THEN <<>>
                 ELSE IF i = 0 /\ Len(local.buf[0]) = Block /\ ~local.wiped
                 THEN local.buf[0] \o local.buf[1]
                 ELSE local.buf[i]
     IN  /\ got' = [got EXCEPT ![i] = @ \o text]
         /\ local' = [local EXCEPT !.aio[i] = "reading", !.i = @ + 1]
  /\ UNCHANGED <<program, os, sent>>

mpx_aio == OpenPipe("start") \/ InitReads("scan") \/ Check("scan") \/ ShowBuffer

\* pause has returned, as a handler has.
Woken ==
  /\ Go("main", "woken", IF local.quit THEN "ended" ELSE IF local.sigio THEN "scan" ELSE "loop")
  /\ UNCHANGED <<program, os, local, sent, got>>

\* A signal that comes before pause is called does not wake it.
Pause == Go("main", "loop", "pause") /\ UNCHANGED <<program, os, local, sent, got>>

mpx_aiosig == OpenPipe("start") \/ InitReads("loop") \/ Check("loop") \/ ShowBuffer \/ Pause \/ Woken

\* The user's interrupt.  Before main has installed its handler, it kills.
Interrupt ==
  /\ program = "mpx-aiosig" /\ ~local.quit /\ at.main \notin {"ended", "failed"}
  /\ \/ \E early \in {"open", "start"} : Go("main", early, "ended") /\ UNCHANGED os
     \/ at.main # "open" /\ os' = [os EXCEPT !.pending = @ \cup {"SIGINT"}] /\ UNCHANGED at
  /\ UNCHANGED <<program, local, sent, got>>

\* sig_int, run wherever main is; only in pause does it wake it.
sig_int ==
  /\ at.main \notin {"ended", "failed"}
  /\ \E s \in os.pending :
       /\ os' = [os EXCEPT !.pending = @ \ {s}]
       /\ local' = [local EXCEPT !.quit = @ \/ s = "SIGINT", !.sigio = @ \/ s = "SIGIO",
                                 !.late = at.main \notin {"pause", "woken"}]
  /\ at' = IF at.main = "pause" THEN [at EXCEPT !.main = "woken"] ELSE at
  /\ UNCHANGED <<program, sent, got>>

----------------------------------------------------------------------------
Main ==
  \/ program = "mpx-blocks" /\ mpx_blocks
  \/ program = "mpx-nonblock" /\ mpx_nonblock
  \/ program = "mpx-fork" /\ mpx_fork("main")
  \/ program = "mpx-select" /\ mpx_select
  \/ program = "mpx-poll" /\ mpx_poll
  \/ program = "mpx-aio" /\ mpx_aio
  \/ program = "mpx-aiosig" /\ mpx_aiosig

Step(p) ==
  \/ p = "main" /\ Main
  \/ p = "child" /\ program = "mpx-fork" /\ mpx_fork("child")
  \/ p \in {"aio 0", "aio 1"} /\ AioRead(IF p = "aio 0" THEN 0 ELSE 1)
  \/ p = "signal" /\ program = "mpx-aiosig" /\ sig_int

Next == Writer \/ Interrupt \/ AstrayRead \/ \E p \in Actors : Step(p)

----------------------------------------------------------------------------
(* Properties                                                              *)

\* What is printed of a FIFO is what was written, in order and with no gap, up to where
\* the program is; only the zero written behind a full buffer of the asynchronous programs
\* can spoil it: behind buf[0], or behind buf[1] where it sends a read astray.
InOrder == local.full \/ local.astray \/ \A k \in Pipes : IsPrefix(got[k], sent[k])

\* Whether main has given up: on an error, on the first FIFO to end where it treats that
\* as the end of both, or on an interrupt.
GaveUp == at.main = "failed" \/ (at.main = "ended" /\ program \in {"mpx-blocks", "mpx-aiosig"})

\* Whether FIFO k waits for something else: for a writer of p2, where open waits for one;
\* in mpx-blocks.c for data on the other; in mpx-aiosig.c for a signal, where the last one
\* came when main was not in pause.
Stranded(k) ==
  \/ program \notin NonBlocking /\ at.main = "open" /\ k # local.i
  \/ program = "mpx-blocks" /\ at.main = "read" /\ k # local.i
  \/ program = "mpx-aiosig" /\ at.main = "pause" /\ local.late

\* What the first writer of each FIFO has written has been printed; in mpx-nonblock.c,
\* what any writer has.
Settled ==
  \/ GaveUp \/ local.full \/ local.astray
  \/ \A k \in Pipes :
       \/ Stranded(k)
       \/ Len(got[k]) >= (IF program = "mpx-nonblock" THEN Len(sent[k]) ELSE os.due[k])

\* mpx-select.c and mpx-poll.c fail only where a second writer has come to a FIFO after
\* its end was reported; the asynchronous programs where a FIFO ends or a read went astray.
FailsOnlyAtEnd ==
  at.main = "failed" => \/ os.openings[local.i] > 1
                        \/ program \in Asynchronous /\ (local.astray \/ ~More(local.i))
=============================================================================
