----------------------------- MODULE MorseLink ------------------------------
(***************************************************************************)
(* Assignment1/as1_mockup.c after its fork: the child turns its input into *)
(* Morse symbols and sends each as a signal to the parent; the parent's    *)
(* signal handler leaves a number in the global flag, and its main loop    *)
(* polls flag, stores the symbol and gives up after ten silent seconds.    *)
(*                                                                         *)
(* Between the two is the kernel, modelled as Linux does it: a standard    *)
(* signal that is already pending is not queued again; pending signals are *)
(* taken in ascending number when the process is about to run user code,   *)
(* each as a handler frame pushed on the stack; a handler blocks its own   *)
(* signal until it returns; a signal without a handler kills the process.  *)
(* A handler's one assignment and its return are one step.                 *)
(***************************************************************************)
EXTENDS MorseCode

CONSTANTS
  Texts,          \* the inputs
  BlockSize,      \* BLOCKSIZE, the characters of the one read
  ShortReads,     \* TRUE: read may return less than it could, as from a pipe
  SilenceLimit,   \* seconds without a symbol before the parent stops: 10
  SleepTime,      \* seconds the child sleeps before it sends: 2
  MaxTime         \* bound: the clock stops here

ASSUME LinkAssumption ==
  /\ BlockSize \in Nat \ {0} /\ ShortReads \in BOOLEAN
  /\ SilenceLimit \in Nat /\ SleepTime \in Nat /\ MaxTime \in Nat

\* The inputs are text: past a NUL the child would send whatever buf holds.
ASSUME TextAssumption == \A t \in Texts : \A n \in 1..Len(t) : t[n] # NUL

\* stringToMorse returns a Morse string whatever part of a text is read.
ASSUME EncodingAssumption ==
  \A t \in Texts : \A n \in 1..Len(t) : stringToMorse(SubSeq(t, 1, n)) \in Seq(Symbols)

Signals == {"HUP", "USR1", "USR2", "ALRM"}

SignalNumber == [HUP |-> 1, USR1 |-> 10, USR2 |-> 12, ALRM |-> 14]

\* The signal sendMorseAsSignals has for each symbol.
SignalOf == [x \in Symbols |-> CASE x = dit -> "USR1" [] x = dah -> "USR2"
                                 [] x = slash -> "ALRM" [] x = gap -> "HUP"]

\* Mutant: the last branch of handle_signal leaves a value main does not know.
FlagOfUnknown == [USR1 |-> 1, USR2 |-> 2, ALRM |-> 3, HUP |-> 5]

\* Mutant: two branches of handle_signal are swapped.
FlagOfSwapped == [USR1 |-> 1, USR2 |-> 2, ALRM |-> 4, HUP |-> 3]

\* The value handle_signal gives flag.
FlagOf == [USR1 |-> 1, USR2 |-> 2, ALRM |-> 3, HUP |-> 4]

\* The symbol main stores for each value of flag.
SymbolOf == <<dit, dah, slash, gap>>

\* Mutant: SIGHUP is forgotten.
InstallOrderNoHup == <<"USR1", "USR2", "ALRM">>

\* The order in which main calls sigaction.
InstallOrder == <<"USR1", "USR2", "ALRM", "HUP">>

VARIABLES
  \* the child
  text,        \* its whole input
  cpc,         \* "read", "sleep", "send", "done", "failed", "crashed"
  buf,         \* what its one read returned
  morse,       \* its morseBuf
  i,           \* symbols of morse sent so far
  childAt,     \* when it began to sleep, then when it last woke or sent
  \* the kernel's part of the parent
  pending,     \* for each signal, the number of the symbol that made it pending, or 0
  mode,        \* "kernel" between an entry and the return to user code
  frames,      \* handler frames, the running one first: signal and symbol number
  installed,   \* how many of InstallOrder have a handler
  now,         \* time(), in seconds
  \* the parent
  ppc,         \* "install", "start", "clock", "probe", "clear", "append", "decode",
               \* "write", "exited", "failed", "killed"
  k,           \* the value of flag that main's if-else chain is comparing or storing
  flag, start_time,
  morseBuf,    \* its own morseBuf
  buf2,        \* the decoded text
  output,      \* what it has written to ofd
  \* history, read by no action's guard: which sent symbol each thing came from
  flagAt,      \* the symbol whose handler set flag last, 0 when main cleared it
  readAt,      \* the symbol in flag when main last found it set
  got          \* the symbols in morseBuf

childVars  == <<text, cpc, buf, morse, i, childAt>>
kernelVars == <<pending, mode, frames, installed>>
loopVars   == <<k, flag, flagAt, start_time, morseBuf, readAt, got>>
vars == <<childVars, kernelVars, loopVars, now, ppc, buf2, output>>

Init ==
  /\ text \in Texts /\ cpc = "read" /\ buf = <<>> /\ morse = <<>> /\ i = 0 /\ childAt = 0
  /\ pending = [s \in Signals |-> 0] /\ mode = "user" /\ frames = <<>> /\ installed = 0
  /\ now = 0 /\ ppc = "install" /\ k = 1 /\ flag = 0 /\ start_time = 0
  /\ morseBuf = <<>> /\ buf2 = <<>> /\ output = <<>>
  /\ flagAt = 0 /\ readAt = 0 /\ got = <<>>

ParentAlive == ppc \notin {"exited", "failed", "killed"}

----------------------------------------------------------------------------
(* The child                                                               *)

\* How many characters read may return.
ReadSizes == {n \in 1..Len(text) : n <= BlockSize /\ (ShortReads \/ n \in {BlockSize, Len(text)})}

Read ==
  /\ cpc = "read"
  /\ \E n \in ReadSizes : buf' = SubSeq(text, 1, n)
  /\ cpc' = "sleep" /\ childAt' = now
  /\ UNCHANGED <<text, morse, i, kernelVars, loopVars, now, ppc, buf2, output>>

\* read returns 0 on an empty input, or fails: the child returns -1 from main.
ReadNothing ==
  /\ cpc = "read" /\ cpc' = "failed"
  /\ UNCHANGED <<text, buf, morse, i, childAt, kernelVars, loopVars, now, ppc, buf2, output>>

Wake ==
  /\ cpc = "sleep" /\ now >= childAt + SleepTime
  /\ morse' = stringToMorse(buf)
  /\ cpc' = "send" /\ childAt' = now
  /\ UNCHANGED <<text, buf, i, kernelVars, loopVars, now, ppc, buf2, output>>

\* Mutant: the child may send a symbol once more.
SendRepeats ==
  /\ cpc = "send" /\ i < Len(morse) - 1
  /\ i' \in {i, i + 1} /\ childAt' = now
  /\ LET sig == SignalOf[morse[i + 1]]
     IN  pending' = IF ParentAlive /\ pending[sig] = 0
                    THEN [pending EXCEPT ![sig] = i + 1] ELSE pending
  /\ UNCHANGED <<text, cpc, buf, morse, mode, frames, installed, loopVars, now, ppc, buf2, output>>

\* kill(getppid(), sig): once the parent is gone getppid() names init, which the
\* signal never reaches; a signal already pending is not queued a second time.
Send ==
  /\ cpc = "send" /\ i < Len(morse) - 1
  /\ i' = i + 1 /\ childAt' = now
  /\ LET sig == SignalOf[morse[i + 1]]
     IN  pending' = IF ParentAlive /\ pending[sig] = 0
                    THEN [pending EXCEPT ![sig] = i + 1] ELSE pending
  /\ UNCHANGED <<text, cpc, buf, morse, mode, frames, installed, loopVars, now, ppc, buf2, output>>

Finish ==
  /\ cpc = "send" /\ morse # <<>> /\ i >= Len(morse) - 1
  /\ cpc' = "done"
  /\ UNCHANGED <<text, buf, morse, i, childAt, kernelVars, loopVars, now, ppc, buf2, output>>

\* No character of buf has a code: strlen(morseBuf)-1 wraps to the largest size_t,
\* and the loop walks zero bytes until it leaves the heap.
Overrun ==
  /\ cpc = "send" /\ morse = <<>>
  /\ cpc' = "crashed"
  /\ UNCHANGED <<text, buf, morse, i, childAt, kernelVars, loopVars, now, ppc, buf2, output>>

Child == Read \/ ReadNothing \/ Wake \/ Send \/ Finish \/ Overrun

----------------------------------------------------------------------------
(* The kernel, on behalf of the parent                                     *)

Blocked == {frames[n].sig : n \in DOMAIN frames}

Deliverable == {s \in Signals : pending[s] # 0 /\ s \notin Blocked}

KernelEntry ==
  /\ ParentAlive /\ mode = "user" /\ Deliverable # {}
  /\ mode' = "kernel"
  /\ UNCHANGED <<childVars, pending, frames, installed, loopVars, now, ppc, buf2, output>>

\* The deliverable signal with the lowest number goes on top of the stack, or
\* kills the parent if main has not yet installed its handler.
DeliverSignal ==
  /\ ParentAlive /\ mode = "kernel"
  /\ \E s \in Deliverable :
       /\ \A r \in Deliverable : SignalNumber[s] <= SignalNumber[r]
       /\ pending' = [pending EXCEPT ![s] = 0]
       /\ IF \E n \in 1..installed : InstallOrder[n] = s
          THEN /\ frames' = <<[sig |-> s, at |-> pending[s]]>> \o frames
               /\ ppc' = ppc
          ELSE /\ frames' = frames
               /\ ppc' = "killed"
  /\ UNCHANGED <<childVars, mode, installed, loopVars, now, buf2, output>>

ReturnToUser ==
  /\ ParentAlive /\ mode = "kernel" /\ Deliverable = {}
  /\ mode' = "user"
  /\ UNCHANGED <<childVars, pending, frames, installed, loopVars, now, ppc, buf2, output>>

Tick ==
  /\ now < MaxTime /\ (ParentAlive \/ cpc = "sleep")
  /\ now' = now + 1
  /\ UNCHANGED <<childVars, kernelVars, loopVars, ppc, buf2, output>>

----------------------------------------------------------------------------
(* The parent: the handler that runs first, and main when none runs        *)

\* handle_signal, and the sigreturn that pops its frame.
handle_signal ==
  /\ ParentAlive /\ mode = "user" /\ frames # <<>>
  /\ flag' = FlagOf[Head(frames).sig] /\ flagAt' = Head(frames).at
  /\ frames' = Tail(frames) /\ mode' = "kernel"
  /\ UNCHANGED <<childVars, pending, installed, k, start_time, morseBuf, readAt, got,
                 now, ppc, buf2, output>>

MainRuns == mode = "user" /\ frames = <<>>

Install ==
  /\ MainRuns /\ ppc = "install"
  /\ installed' = installed + 1
  /\ ppc' = IF installed' = Len(InstallOrder) THEN "start" ELSE "install"
  /\ UNCHANGED <<childVars, pending, mode, frames, loopVars, now, buf2, output>>

Start ==
  /\ MainRuns /\ ppc = "start" /\ ppc' = "clock"
  /\ start_time' = now
  /\ UNCHANGED <<childVars, kernelVars, k, flag, flagAt, morseBuf, readAt, got, now, buf2, output>>

\* Mutant: time(&start_time) stands inside the loop.
CheckClockResets ==
  /\ MainRuns /\ ppc = "clock"
  /\ ppc' = IF now - start_time >= SilenceLimit THEN "decode" ELSE "probe"
  /\ k' = 1 /\ start_time' = now
  /\ UNCHANGED <<childVars, kernelVars, flag, flagAt, morseBuf, readAt, got, now, buf2, output>>

\* The head of the loop: time(&current_time) and the comparison with start_time.
CheckClock ==
  /\ MainRuns /\ ppc = "clock"
  /\ ppc' = IF now - start_time >= SilenceLimit THEN "decode" ELSE "probe"
  /\ k' = 1
  /\ UNCHANGED <<childVars, kernelVars, flag, flagAt, start_time, morseBuf, readAt, got,
                 now, buf2, output>>

\* if (flag == k): the first branch clears flag and then stores, the others store
\* and then clear it.
Probe ==
  /\ MainRuns /\ ppc = "probe"
  /\ \/ /\ flag = k
        /\ readAt' = flagAt
        /\ ppc' = IF k = 1 THEN "clear" ELSE "append"
        /\ k' = k
     \/ /\ flag # k
        /\ readAt' = readAt
        /\ ppc' = IF k = 4 THEN "clock" ELSE "probe"
        /\ k' = IF k = 4 THEN 4 ELSE k + 1
  /\ UNCHANGED <<childVars, kernelVars, flag, flagAt, start_time, morseBuf, got, now, buf2, output>>

\* Mutant: only the first branch clears flag.
ClearFirstOnly ==
  /\ MainRuns /\ ppc = "clear"
  /\ flag' = (IF k = 1 THEN 0 ELSE flag) /\ flagAt' = (IF k = 1 THEN 0 ELSE flagAt)
  /\ ppc' = IF k = 1 THEN "append" ELSE "clock"
  /\ UNCHANGED <<childVars, kernelVars, k, start_time, morseBuf, readAt, got, now, buf2, output>>

Clear ==
  /\ MainRuns /\ ppc = "clear"
  /\ flag' = 0 /\ flagAt' = 0
  /\ ppc' = IF k = 1 THEN "append" ELSE "clock"
  /\ UNCHANGED <<childVars, kernelVars, k, start_time, morseBuf, readAt, got, now, buf2, output>>

\* Mutant: start_time is not set again.
setStringNoReset ==
  /\ MainRuns /\ ppc = "append"
  /\ morseBuf' = Append(morseBuf, SymbolOf[k]) /\ got' = Append(got, readAt)
  /\ ppc' = IF k = 1 THEN "clock" ELSE "clear"
  /\ UNCHANGED <<childVars, kernelVars, k, flag, flagAt, start_time, readAt, now, buf2, output>>

setString ==
  /\ MainRuns /\ ppc = "append"
  /\ start_time' = now
  /\ morseBuf' = Append(morseBuf, SymbolOf[k]) /\ got' = Append(got, readAt)
  /\ ppc' = IF k = 1 THEN "clock" ELSE "clear"
  /\ UNCHANGED <<childVars, kernelVars, k, flag, flagAt, readAt, now, buf2, output>>

Decode ==
  /\ MainRuns /\ ppc = "decode" /\ ppc' = "write"
  /\ buf2' = morseToString(morseBuf)
  /\ UNCHANGED <<childVars, kernelVars, loopVars, now, output>>

\* One write, of any part of what is left; the loop ends when nothing is.
Write ==
  /\ MainRuns /\ ppc = "write" /\ Len(output) < Len(buf2)
  /\ \E n \in Len(output) + 1 .. Len(buf2) : output' = SubSeq(buf2, 1, n)
  /\ UNCHANGED <<childVars, kernelVars, loopVars, now, buf2, ppc>>

\* write returns -1: an error of the file, or EINTR, as the handlers are installed
\* without SA_RESTART.
WriteFails ==
  /\ MainRuns /\ ppc = "write" /\ Len(output) < Len(buf2)
  /\ ppc' = "failed"
  /\ UNCHANGED <<childVars, kernelVars, loopVars, now, buf2, output>>

Exit ==
  /\ MainRuns /\ ppc = "write" /\ Len(output) >= Len(buf2)
  /\ ppc' = "exited"
  /\ UNCHANGED <<childVars, kernelVars, loopVars, now, buf2, output>>

Kernel == KernelEntry \/ DeliverSignal \/ ReturnToUser

Parent == \/ handle_signal \/ Install \/ Start \/ CheckClock \/ Probe \/ Clear
          \/ setString \/ Decode \/ Write \/ WriteFails \/ Exit

Next == Child \/ Kernel \/ Parent \/ Tick

Spec == Init /\ [][Next]_vars

----------------------------------------------------------------------------
(* The timing main relies on, in three assumptions                         *)

\* Nothing sent is still on its way to morseBuf.
Idle ==
  /\ \A s \in Signals : pending[s] = 0
  /\ MainRuns /\ flag = 0 /\ ppc \in {"clock", "probe"}

\* usleep(1000) before a signal leaves the parent the time to store the one before.
SignalsSpaced == i' # i => Idle \/ ~ParentAlive

\* The parent installs its handlers within a second, and stores a symbol within
\* the second it was sent in.
ParentPrompt ==
  now' # now =>
    /\ ppc \in {"install", "start"} => now = 0
    /\ ppc \notin {"install", "start", "decode", "write"} /\ ParentAlive => Idle

\* The input is there within a second, and the child is never held up for longer
\* than that, neither after its sleep nor between two signals.
ChildOnTime ==
  now' # now =>
    /\ cpc \in {"read", "send"} => now = childAt
    /\ cpc = "sleep" => now < childAt + SleepTime

Pacing == SignalsSpaced /\ ParentPrompt /\ ChildOnTime

\* Both processes are scheduled, the kernel returns, and time passes.
Fairness ==
  /\ WF_vars(Parent) /\ WF_vars(Kernel)
  /\ WF_vars(Child /\ Pacing) /\ WF_vars(Tick /\ Pacing)

\* All three assumptions; all but the first.
PacedSpec    == Init /\ [][Next /\ Pacing]_vars /\ Fairness
UnspacedSpec == Init /\ [][Next /\ ParentPrompt /\ ChildOnTime]_vars

----------------------------------------------------------------------------
(* Properties                                                              *)

\* A handler frame, with the number of the symbol it was pushed for.
Frame == [sig : Signals, at : Nat]

\* The types of the variables; the history variables name symbols already sent.
TypeOK ==
  /\ text \in Texts /\ cpc \in {"read", "sleep", "send", "done", "failed", "crashed"}
  /\ morse \in Seq(Symbols) /\ i \in Nat /\ childAt \in Nat
  /\ pending \in [Signals -> Nat] /\ mode \in {"user", "kernel"}
  /\ frames \in Seq(Frame) /\ installed \in 0..4
  /\ now \in Nat /\ start_time \in Nat
  /\ ppc \in {"install", "start", "clock", "probe", "clear", "append", "decode",
              "write", "exited", "failed", "killed"}
  /\ k \in 1..4 /\ flag \in 0..4 /\ flagAt \in Nat /\ readAt \in Nat
  /\ morseBuf \in Seq(Symbols) /\ got \in Seq(Nat)

\* Whatever the timing, the parent's morseBuf is a subsequence of what the child
\* sent: no symbol is invented, stored twice, changed or stored out of order,
\* although handlers nest and flag is written by them and cleared by main.
SubsequenceOfSent ==
  /\ Len(got) = Len(morseBuf)
  /\ \A n \in DOMAIN got : got[n] \in 1..i /\ morseBuf[n] = morse[got[n]]
  /\ \A m, n \in DOMAIN got : m < n => got[m] < got[n]

\* A symbol still on its way (pending, or in a frame) was sent after every symbol
\* main has already taken from flag: a late delivery cannot overtake.
NoOvertaking ==
  /\ \A s \in Signals : pending[s] # 0 => pending[s] > readAt
  /\ \A n \in DOMAIN frames : frames[n].at > readAt

\* With the timing main relies on, the handlers are there before the first signal.
NeverKilled == ppc # "killed"

\* With that timing, the parent writes exactly the normalised text it was given
\* (the whole of main, from read to write).
OutputIsInput ==
  ppc = "exited" /\ cpc # "failed" => cpc # "send" /\ output = Normalised(buf)

\* With that timing, the signals are the reliable channel the program takes them for.
Channel == INSTANCE MorseChannel WITH sent <- SubSeq(morse, 1, i), delivered <- morseBuf
ReliableChannel == Channel!Spec

\* With that timing, the parent's silence limit always ends the run.
ParentFinishes == <>(ppc \in {"exited", "failed"})

\* as1_testbench.c:106: the output is the input, for inputs in its charset.
TransmittedIdentical == ppc = "exited" /\ cpc = "done" => output = text
=============================================================================
