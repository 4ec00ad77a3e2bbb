----------------------------- MODULE SignalLoops -----------------------------
(***************************************************************************)
(* Six programs whose main loop reports signals: lecture_examples/L4/      *)
(* signal.c (the handler prints), signal-good.c (it sets a variable),      *)
(* signal-better.c and code_l10's service.c (it writes into a pipe), the   *)
(* signal half of code_l11/signalfd.c (no handler, a descriptor), and      *)
(* signal-block.c, with its copy signal2.c (SIGQUIT is held off for a      *)
(* while).                                                                 *)
(*                                                                         *)
(* A signal is sent on the one channel when it is pending; for programs    *)
(* whose handler only notes it, when the handler runs, which is the order  *)
(* they can keep; for signal-block.c, when it is held off.  The kernel     *)
(* merges it with an earlier one of its kind that is still pending.        *)
(***************************************************************************)
EXTENDS CourseProgram, SequencesExt

CONSTANTS
  Kills,      \* so many signals come
  PipeSize    \* so many bytes go into a pipe: 65536

Programs == {"signal", "signal-good", "signal-better", "service", "signalfd", "signal-block"}
Buffered == {"signal-better", "service"}
Actors == {"main", "signal"}
Over == {"ended", "killed", "stuck"}

\* The signals a program knows, in the order of its sigaction calls.
Known ==
  CASE program = "signal" -> <<"USR1", "USR2", "INT">>
    [] program = "signalfd" -> <<"INT", "TERM">>
    [] program = "signal-block" -> <<"QUIT">>
    [] OTHER -> <<"USR1", "USR2">>

Init ==
  /\ program \in Programs /\ at = [main |-> "start"]
  /\ os = [pending |-> {}, blocked |-> {}, pipe |-> <<>>, kills |-> 0]
  /\ local = [mysignal |-> "none",   \* mysignal of the loops
              handlers |-> 0,        \* its handler is installed for so many of Known
              late |-> FALSE]        \* history: signal-good.c's has last run too late
  /\ sent = [signals |-> <<>>] /\ got = [signals |-> <<>>]

Sent(s) == sent' = [sent EXCEPT !.signals = Append(@, s)]
Report(s) == got' = [got EXCEPT !.signals = Append(@, s)]

\* Whether a signal s that comes now is sent as soon as it is pending.
SentAtOnce(s) ==
  /\ s \notin os.pending
  /\ program \in {"signal", "signalfd"} \/ (program = "signal-block" /\ s \in os.blocked)

Kill(s) ==
  /\ os.kills < Kills /\ at.main \notin Over
  /\ os' = [os EXCEPT !.kills = @ + 1, !.pending = @ \cup {s}]
  /\ IF SentAtOnce(s) THEN Sent(s) ELSE UNCHANGED sent
  /\ UNCHANGED <<program, at, local, got>>

Delivered(s) == [os EXCEPT !.pending = @ \ {s}]

Handles(s) == \E j \in 1 .. local.handlers : Known[j] = s

\* What the kernel does with a signal before there is a handler, or without one.
DefaultAction(s) ==
  /\ ~Handles(s) /\ Go("main", at.main, "killed")
  /\ os' = Delivered(s) /\ UNCHANGED <<program, local, sent, got>>

\* The next sigaction call, or the sigprocmask of signalfd.c.
Install(next) ==
  /\ \/ /\ program = "signalfd" /\ Go("main", "start", next)
        /\ os' = [os EXCEPT !.blocked = {"INT", "TERM"}] /\ UNCHANGED local
     \/ /\ program # "signalfd"
        /\ Go("main", "start", IF local.handlers + 1 = Len(Known) THEN next ELSE "start")
        /\ local' = [local EXCEPT !.handlers = @ + 1] /\ UNCHANGED os
  /\ UNCHANGED <<program, sent, got>>

Steps == UNCHANGED <<program, os, local, sent, got>>

----------------------------------------------------------------------------
(* signal.c                                                                *)

\* Its handler names SIGUSR1 and SIGUSR2; the else branch, of which line 10 says that it is
\* never reached, is for SIGINT.
SignalHandler(s) ==
  /\ Handles(s) /\ os' = Delivered(s)
  /\ Report(IF s \in {"USR1", "USR2"} THEN s ELSE "received signal")
  /\ at' = [main |-> CASE at.main = "sleep" -> "woken" [] at.main = "pause" -> "loop" [] OTHER -> at.main]
  /\ UNCHANGED <<program, local, sent>>

signal ==
  \/ Install("loop")
  \/ Go("main", "loop", "sleep") /\ Steps
  \/ Go("main", "sleep", "woken") /\ Steps
  \/ Go("main", "woken", "pause") /\ Steps

----------------------------------------------------------------------------
(* signal-good.c                                                           *)

\* It is too late for the comparisons, or too early for pause, at any other place.
InTime == at.main \in {"pause", "first"}

GoodHandler(s) ==
  /\ Handles(s) /\ os' = Delivered(s) /\ Sent(s)
  /\ local' = [local EXCEPT !.mysignal = s, !.late = ~InTime]
  /\ at' = IF at.main = "pause" THEN [main |-> "first"] ELSE at
  /\ UNCHANGED <<program, got>>

\* mysignal is read for each comparison.
signal_good ==
  \/ Install("loop")
  \/ Go("main", "loop", "pause") /\ Steps
  \/ /\ at.main = "first" /\ UNCHANGED <<program, os, local, sent>>
     /\ IF local.mysignal = "USR1"
        THEN Go("main", "first", "loop") /\ Report("USR1")
        ELSE Go("main", "first", "second") /\ UNCHANGED got
  \/ /\ Go("main", "second", "loop") /\ UNCHANGED <<program, os, local, sent>>
     /\ IF local.mysignal = "USR2" THEN Report("USR2") ELSE UNCHANGED got

----------------------------------------------------------------------------
(* signal-better.c, service.c                                              *)

\* The write of a handler waits while the pipe is full; the reader is the main program
\* it has interrupted.
PipeHandler(s) ==
  /\ Handles(s) /\ Sent(s) /\ UNCHANGED <<program, local, got>>
  /\ IF Len(os.pipe) < PipeSize
     THEN os' = [Delivered(s) EXCEPT !.pipe = Append(@, s)] /\ UNCHANGED at
     ELSE os' = Delivered(s) /\ at' = [main |-> "stuck"]

\* read returns one byte; interrupted, it is called again.
ReadSignal ==
  /\ Go("main", "read", "report") /\ os.pipe # <<>>
  /\ os' = [os EXCEPT !.pipe = Tail(@)] /\ local' = [local EXCEPT !.mysignal = Head(os.pipe)]
  /\ UNCHANGED <<program, sent, got>>

signal_better ==
  \/ Install("read") \/ ReadSignal
  \/ Go("main", "report", "read") /\ Report(local.mysignal) /\ UNCHANGED <<program, os, local, sent>>

\* fprintf only fills the buffer of the log file, which fflush writes.
service ==
  \/ Install("read") \/ ReadSignal
  \/ Go("main", "report", "flush") /\ Steps
  \/ Go("main", "flush", "read") /\ Report(local.mysignal) /\ UNCHANGED <<program, os, local, sent>>

----------------------------------------------------------------------------
(* signalfd.c                                                              *)

\* read gives the first of the pending signals; SIGINT ends the loop.
signalfd ==
  \/ Install("read")
  \/ \E s \in os.pending :
       /\ s = "INT" \/ "INT" \notin os.pending
       /\ Go("main", "read", IF s = "INT" THEN "ended" ELSE "read")
       /\ os' = Delivered(s) /\ Report(s) /\ UNCHANGED <<program, local, sent>>

----------------------------------------------------------------------------
(* signal-block.c, signal2.c                                               *)

\* It prints, and sets the default action.
sig_quit(s) ==
  /\ Handles(s) /\ os' = Delivered(s) /\ Report(s)
  /\ local' = [local EXCEPT !.handlers = 0]
  /\ at' = IF at.main = "sleep again" THEN [main |-> "over"] ELSE at   \* sleep returns
  /\ UNCHANGED <<program, sent>>

signal_block ==
  \/ Install("block")
  \/ Go("main", "block", "sleep") /\ os' = [os EXCEPT !.blocked = {"QUIT"}] /\ UNCHANGED <<program, local, sent, got>>
  \/ Go("main", "sleep", "unblock") /\ Steps
  \/ Go("main", "unblock", "unblocking") /\ os' = [os EXCEPT !.blocked = {}] /\ UNCHANGED <<program, local, sent, got>>
  \/ os.pending = {} /\ Go("main", "unblocking", "sleep again") /\ Steps   \* sigprocmask lets a handler run first
  \/ Go("main", "sleep again", "over") /\ Steps
  \/ Go("main", "over", "ended") /\ Steps

----------------------------------------------------------------------------
Main ==
  /\ at.main \notin Over
  /\ \/ program = "signal" /\ signal
     \/ program = "signal-good" /\ signal_good
     \/ program = "signal-better" /\ signal_better
     \/ program = "service" /\ service
     \/ program = "signalfd" /\ signalfd
     \/ program = "signal-block" /\ signal_block

\* A pending signal that is not blocked reaches the program, between any two steps.
Deliver ==
  /\ at.main \notin Over
  /\ \E s \in os.pending \ os.blocked :
       \/ DefaultAction(s)
       \/ program = "signal" /\ SignalHandler(s)
       \/ program = "signal-good" /\ GoodHandler(s)
       \/ program \in Buffered /\ PipeHandler(s)
       \/ program = "signal-block" /\ sig_quit(s)

Step(p) == (p = "main" /\ Main) \/ (p = "signal" /\ Deliver)

Next == (\E j \in DOMAIN Known : Kill(Known[j])) \/ \E p \in Actors : Step(p)

----------------------------------------------------------------------------
(* Properties                                                              *)

IsSubsequence(s, t) ==
  \E f \in [DOMAIN s -> DOMAIN t] :
    /\ \A j \in DOMAIN s : s[j] = t[f[j]]
    /\ \A i, j \in DOMAIN s : i < j => f[i] < f[j]

\* The reports are the signals, in their order: all of them where a pipe keeps them; with
\* signal-good.c's variable some are lost, but none is invented or reported twice.
InOrder ==
  /\ program \in Buffered => IsPrefix(got.signals, sent.signals)
  /\ program = "signal-good" => IsSubsequence(got.signals, sent.signals)

\* What signal-good.c may leave when it is back in pause: it has reported the last signal,
\* whatever it has lost before, unless that one came too late or too early for it.
LastReported ==
  sent.signals # <<>> /\ ~local.late => got.signals # <<>> /\ Last(got.signals) = Last(sent.signals)

\* Every signal has been reported.  A program with a handler or signalfd may be over before,
\* or wait in a handler for itself to read from the pipe; signal-good.c is back in pause;
\* signal-block.c has come to its end, having caught the SIGQUIT it held off, or was killed.
Settled ==
  CASE program = "signal-block" ->
         at.main = "killed" \/ (at.main = "ended" /\ Len(got.signals) >= Len(sent.signals))
    [] program = "signal-good" -> at.main = "killed" \/ (at.main = "pause" /\ LastReported)
    [] OTHER -> at.main \in Over \/ Len(got.signals) = Len(sent.signals)
=============================================================================
