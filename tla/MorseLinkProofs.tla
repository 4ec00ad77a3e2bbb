-------------------------- MODULE MorseLinkProofs ---------------------------
(***************************************************************************)
(* For every set of texts.  Whatever the timing: the types of MorseLink,   *)
(* and that the parent's morseBuf is a subsequence of the symbols sent.    *)
(* With the timing of PacedSpec, for a child that sleeps two seconds and a *)
(* parent more patient than that: the handlers are there in time, the      *)
(* signals are a channel that loses nothing, and the output is the input.  *)
(***************************************************************************)
EXTENDS MorseLink, TLAPS

\* The part of the text that was read is one EncodingAssumption speaks of.
ReadPart == cpc = "sleep" => \E n \in 1..Len(text) : buf = SubSeq(text, 1, n)

\* Nothing is sent before morseBuf is filled, and nothing past its end.
SentPart == /\ cpc \in {"read", "sleep"} => i = 0
            /\ i <= Len(morse)

\* main is still installing handlers only while one is missing.
InstallPart == ppc = "install" => installed < 4

\* A pending symbol was sent after all main has read, and as that signal.
PendingLater ==
  \A s \in Signals : pending[s] # 0 =>
    /\ readAt < pending[s] /\ pending[s] <= i
    /\ SignalOf[morse[pending[s]]] = s

\* So was the symbol of every handler frame.
FramesLater ==
  \A n \in DOMAIN frames :
    /\ readAt < frames[n].at /\ frames[n].at <= i
    /\ SignalOf[morse[frames[n].at]] = frames[n].sig

\* flag holds the symbol of the handler that ran last, which main has not read
\* before unless it is about to clear it.
FlagFresh ==
  flag # 0 =>
    /\ flagAt \in 1..i
    /\ FlagOf[SignalOf[morse[flagAt]]] = flag
    /\ \/ readAt < flagAt
       \/ readAt = flagAt /\ (ppc \in {"clear", "killed"} \/ (ppc = "append" /\ k # 1))

\* While main runs, whatever is pending was sent after the symbol in flag: every
\* return to main went through a kernel that had delivered all there was.
PendingAfterFlag ==
  MainRuns /\ flag # 0 => \A s \in Signals : pending[s] # 0 => flagAt < pending[s]

\* The symbol main is storing is the one it read, and later than those stored.
Storing == ppc = "append" \/ (ppc = "clear" /\ k = 1)
ReadValue ==
  /\ readAt <= i
  /\ \A n \in DOMAIN got : got[n] <= readAt
  /\ Storing => /\ readAt \in 1..i
                /\ morse[readAt] = SymbolOf[k]
                /\ \A n \in DOMAIN got : got[n] < readAt

Order == /\ PendingLater /\ FramesLater /\ FlagFresh /\ PendingAfterFlag
         /\ ReadValue /\ SubsequenceOfSent

\* The type invariant with the three facts its preservation needs.
Typed == TypeOK /\ ReadPart /\ SentPart /\ InstallPart

Inv == Typed /\ Order

\* The three tables, entry by entry.
LEMMA SignalTable ==
  /\ SignalOf[dit] = "USR1" /\ SignalOf[dah] = "USR2"
  /\ SignalOf[slash] = "ALRM" /\ SignalOf[gap] = "HUP"
  BY DEF SignalOf, Symbols, dit, dah, slash, gap

LEMMA FlagTable ==
  /\ FlagOf["USR1"] = 1 /\ FlagOf["USR2"] = 2
  /\ FlagOf["ALRM"] = 3 /\ FlagOf["HUP"] = 4
  BY DEF FlagOf

LEMMA SymbolTable ==
  SymbolOf[1] = dit /\ SymbolOf[2] = dah /\ SymbolOf[3] = slash /\ SymbolOf[4] = gap
  BY DEF SymbolOf, dit, dah, slash, gap

\* handle_signal and main's if-else chain undo sendMorseAsSignals' choice of signal.
LEMMA FlagNamesSymbol ==
  ASSUME NEW x \in Symbols
  PROVE  /\ SignalOf[x] \in Signals
         /\ FlagOf[SignalOf[x]] \in 1..4
         /\ SymbolOf[FlagOf[SignalOf[x]]] = x
  BY SignalTable, FlagTable, SymbolTable DEF Symbols, Signals

\* The flag values and symbols of the two tables.
LEMMA TableTypes ==
  /\ \A s \in Signals : FlagOf[s] \in 1..4
  /\ \A n \in 1..4 : SymbolOf[n] \in Symbols
  BY FlagTable, SymbolTable DEF Signals, Symbols

\* A pushed frame is the first of the stack, and the others keep their content.
LEMMA Push ==
  ASSUME NEW S, NEW q \in Seq(S), NEW e \in S
  PROVE  /\ <<e>> \o q \in Seq(S)
         /\ \A n \in DOMAIN (<<e>> \o q) :
              (<<e>> \o q)[n] = e \/ \E m \in DOMAIN q : (<<e>> \o q)[n] = q[m]
<1>1. <<e>> \in Seq(S) /\ Len(<<e>>) = 1 /\ <<e>>[1] = e
  OBVIOUS
<1>2. /\ <<e>> \o q \in Seq(S) /\ Len(<<e>> \o q) = 1 + Len(q)
      /\ \A n \in 1 .. 1 + Len(q) : (<<e>> \o q)[n] = IF n <= 1 THEN <<e>>[n] ELSE q[n - 1]
  BY <1>1
<1> QED BY <1>1, <1>2

\* The first frame and the rest of the stack come from the stack.
LEMMA Pop ==
  ASSUME NEW S, NEW q \in Seq(S), q # <<>>
  PROVE  /\ Head(q) \in S /\ 1 \in DOMAIN q /\ Head(q) = q[1]
         /\ Tail(q) \in Seq(S)
         /\ \A n \in DOMAIN Tail(q) : n + 1 \in DOMAIN q /\ Tail(q)[n] = q[n + 1]
  OBVIOUS

----------------------------------------------------------------------------
(* Types                                                                   *)

\* The initial state has the types.
LEMMA TypeInit == Init => Typed
  BY DEF Init, Typed, TypeOK, ReadPart, SentPart, InstallPart, Signals

\* main installs four handlers.
LEMMA InstallCount == Len(InstallOrder) = 4
  BY DEF InstallOrder

\* Every step keeps them; EncodingAssumption is what Wake needs.
LEMMA TypeStep == Typed /\ [Next]_vars => Typed'
<1> SUFFICES ASSUME Typed, [Next]_vars
             PROVE  Typed'
  OBVIOUS
<1> USE DEF Typed, ReadPart, SentPart, InstallPart
<1>1. CASE Read
  BY <1>1 DEF TypeOK, Read, ReadSizes, kernelVars, loopVars
<1>2. CASE ReadNothing
  BY <1>2 DEF TypeOK, ReadNothing, kernelVars, loopVars
<1>3. CASE Wake
  <2>1. PICK n \in 1..Len(text) : buf = SubSeq(text, 1, n)
    BY <1>3 DEF Wake
  <2>2. stringToMorse(SubSeq(text, 1, n)) \in Seq(Symbols)
    BY <2>1, EncodingAssumption DEF TypeOK
  <2>3. morse' \in Seq(Symbols)
    BY <1>3, <2>1, <2>2 DEF Wake
  <2> QED BY <1>3, <2>3 DEF TypeOK, Wake, kernelVars, loopVars
<1>4. CASE Send
  BY <1>4, FlagNamesSymbol DEF TypeOK, Send, loopVars
<1>5. CASE Finish
  BY <1>5 DEF TypeOK, Finish, kernelVars, loopVars
<1>6. CASE Overrun
  BY <1>6 DEF TypeOK, Overrun, kernelVars, loopVars
<1>7. CASE KernelEntry
  BY <1>7 DEF TypeOK, KernelEntry, childVars, loopVars
<1>8. CASE DeliverSignal
  <2>1. PICK s \in Signals :
               /\ pending' = [pending EXCEPT ![s] = 0]
               /\ \/ /\ frames' = <<[sig |-> s, at |-> pending[s]]>> \o frames
                     /\ ppc' = ppc
                  \/ frames' = frames /\ ppc' = "killed"
    BY <1>8 DEF DeliverSignal, Deliverable
  <2>2. [sig |-> s, at |-> pending[s]] \in Frame
    BY DEF TypeOK, Frame
  <2>3. frames' \in Seq(Frame)
    <3>1. PICK e \in Frame : e = [sig |-> s, at |-> pending[s]]
      BY <2>2
    <3>2. PICK q \in Seq(Frame) : q = frames
      BY DEF TypeOK
    <3>3. <<e>> \o q \in Seq(Frame)
      BY ONLY e \in Frame, q \in Seq(Frame), Push
    <3> QED BY ONLY <2>1, <3>1, <3>2, <3>3
  <2> QED BY <1>8, <2>1, <2>3 DEF TypeOK, DeliverSignal, childVars, loopVars
<1>9. CASE ReturnToUser
  BY <1>9 DEF TypeOK, ReturnToUser, childVars, loopVars
<1>10. CASE Tick
  BY <1>10 DEF TypeOK, Tick, childVars, kernelVars, loopVars
<1>11. CASE handle_signal
  <2>1. /\ Head(frames) \in Frame
        /\ Tail(frames) \in Seq(Frame)
    BY <1>11, Pop DEF TypeOK, handle_signal
  <2>2. flag' \in 0..4 /\ flagAt' \in Nat
    BY <1>11, <2>1, TableTypes DEF handle_signal, Frame
  <2> QED BY <1>11, <2>1, <2>2 DEF TypeOK, handle_signal, childVars
<1>12. CASE Install
  BY <1>12, InstallCount DEF TypeOK, Install, childVars, loopVars
<1>13. CASE Start
  BY <1>13 DEF TypeOK, Start, childVars, kernelVars
<1>14. CASE CheckClock
  BY <1>14 DEF TypeOK, CheckClock, childVars, kernelVars
<1>15. CASE Probe
  BY <1>15 DEF TypeOK, Probe, childVars, kernelVars
<1>16. CASE Clear
  BY <1>16 DEF TypeOK, Clear, childVars, kernelVars
<1>17. CASE setString
  BY <1>17, TableTypes DEF TypeOK, setString, childVars, kernelVars
<1>18. CASE Decode
  BY <1>18 DEF TypeOK, Decode, childVars, kernelVars, loopVars
<1>19. CASE Write
  BY <1>19 DEF TypeOK, Write, childVars, kernelVars, loopVars
<1>20. CASE WriteFails
  BY <1>20 DEF TypeOK, WriteFails, childVars, kernelVars, loopVars
<1>21. CASE Exit
  BY <1>21 DEF TypeOK, Exit, childVars, kernelVars, loopVars
<1>22. CASE UNCHANGED vars
  BY <1>22 DEF TypeOK, vars, childVars, kernelVars, loopVars
<1> QED BY <1>1, <1>2, <1>3, <1>4, <1>5, <1>6, <1>7, <1>8, <1>9, <1>10, <1>11, <1>12,
           <1>13, <1>14, <1>15, <1>16, <1>17, <1>18, <1>19, <1>20, <1>21, <1>22
           DEF Next, Child, Kernel, Parent

----------------------------------------------------------------------------
(* Order                                                                   *)

\* The initial state, in which nothing has been sent.
LEMMA OrderInit == Init => Order
  BY DEF Init, Order, PendingLater, FramesLater, FlagFresh, PendingAfterFlag, ReadValue,
         Storing, SubsequenceOfSent

\* What is known of each frame on the stack.
LEMMA FrameTypes ==
  TypeOK => \A n \in DOMAIN frames : frames[n].at \in Nat /\ frames[n].sig \in Signals
<1>1. SUFFICES ASSUME TypeOK, NEW n \in DOMAIN frames
               PROVE  frames[n].at \in Nat /\ frames[n].sig \in Signals
  OBVIOUS
<1>2. frames[n] \in Frame
  BY <1>1 DEF TypeOK
<1> QED BY <1>2 DEF Frame

\* A step that moves no symbol, and neither starts nor ends the storing of one.
Moveless ==
  /\ UNCHANGED <<morse, i, pending, frames, flag, flagAt, readAt, got, morseBuf>>
  /\ MainRuns' => MainRuns
  /\ \/ UNCHANGED <<ppc, k>>
     \/ ppc \notin {"clear", "append", "killed"} /\ ppc' \notin {"clear", "append"}

LEMMA MovelessStep == Inv /\ Moveless => Order'
<1> SUFFICES ASSUME Inv, Moveless PROVE Order'
  OBVIOUS
<1>1. PendingLater' /\ FramesLater'
  BY DEF Inv, Order, PendingLater, FramesLater, Moveless
<1>2. FlagFresh'
  BY DEF Inv, Order, FlagFresh, Moveless
<1>3. PendingAfterFlag'
  BY DEF Inv, Order, PendingAfterFlag, Moveless
<1>4. ReadValue'
  BY DEF Inv, Order, ReadValue, Storing, Moveless
<1>5. SubsequenceOfSent'
  BY DEF Inv, Order, SubsequenceOfSent, Moveless
<1> QED BY <1>1, <1>2, <1>3, <1>4, <1>5 DEF Order

\* At Wake nothing has been sent, so nothing refers to the new morseBuf.
LEMMA WakeStep == Inv /\ Wake => Order'
<1> SUFFICES ASSUME Inv, Wake PROVE Order'
  OBVIOUS
<1>1. /\ i = 0 /\ UNCHANGED <<i, pending, mode, frames, ppc, k, flag, flagAt, readAt, got, morseBuf>>
  BY DEF Inv, Typed, SentPart, Wake, kernelVars, loopVars
<1>2. readAt = 0 /\ flag = 0 /\ ~Storing
  BY <1>1 DEF Inv, Typed, TypeOK, Order, FlagFresh, ReadValue
<1>3. \A s \in Signals : pending[s] = 0
  BY <1>1, <1>2 DEF Inv, Typed, TypeOK, Order, PendingLater
<1>4. \A n \in DOMAIN frames : FALSE
  <2>1. \A n \in DOMAIN frames : frames[n].at \in Nat
    BY FrameTypes DEF Inv, Typed
  <2> QED BY <1>1, <1>2, <2>1 DEF Inv, Order, FramesLater
<1>5. \A n \in DOMAIN got : FALSE
  BY <1>1 DEF Inv, Order, SubsequenceOfSent
<1>6. PendingLater' /\ FramesLater' /\ FlagFresh' /\ PendingAfterFlag'
  BY <1>1, <1>2, <1>3, <1>4 DEF PendingLater, FramesLater, FlagFresh, PendingAfterFlag
<1>7. ReadValue' /\ SubsequenceOfSent'
  BY <1>1, <1>2, <1>5 DEF Inv, Order, ReadValue, Storing, SubsequenceOfSent
<1> QED BY <1>6, <1>7 DEF Order

\* A sent symbol is later than everything that moves already.
LEMMA SendStep == Inv /\ Send => Order'
<1> SUFFICES ASSUME Inv, Send PROVE Order'
  OBVIOUS
<1>1. /\ i' = i + 1 /\ i < Len(morse)
      /\ UNCHANGED <<morse, mode, frames, ppc, k, flag, flagAt, readAt, got, morseBuf>>
  BY DEF Send, loopVars, Inv, Typed, TypeOK
<1>2. i \in Nat /\ readAt <= i /\ readAt \in Nat /\ flagAt \in Nat
  BY DEF Inv, Typed, TypeOK, Order, ReadValue
<1>3. \A s \in Signals : \/ pending'[s] = pending[s]
                         \/ pending'[s] = i + 1 /\ SignalOf[morse[i + 1]] = s
  BY DEF Send, Inv, Typed, TypeOK
<1>4. PendingLater'
  <2> SUFFICES ASSUME NEW s \in Signals, pending'[s] # 0
               PROVE  /\ readAt < pending'[s] /\ pending'[s] <= i + 1
                      /\ SignalOf[morse[pending'[s]]] = s
    BY <1>1 DEF PendingLater
  <2>1. pending[s] \in Nat
    BY DEF Inv, Typed, TypeOK
  <2>2. CASE pending'[s] = pending[s]
    BY <2>1, <2>2, <1>2 DEF Inv, Order, PendingLater
  <2>3. CASE pending'[s] = i + 1 /\ SignalOf[morse[i + 1]] = s
    BY <2>3, <1>2
  <2> QED BY <1>3, <2>2, <2>3
<1>5. FramesLater'
  <2>1. \A n \in DOMAIN frames : frames[n].at \in Nat
    BY FrameTypes DEF Inv, Typed
  <2> QED BY <1>1, <1>2, <2>1 DEF Inv, Order, FramesLater
<1>6. FlagFresh'
  BY <1>1, <1>2 DEF Inv, Order, FlagFresh
<1>7. PendingAfterFlag'
  BY <1>1, <1>2, <1>3 DEF Inv, Order, PendingAfterFlag, FlagFresh, MainRuns
<1>8. ReadValue'
  BY <1>1, <1>2 DEF Inv, Order, ReadValue, Storing
<1>9. SubsequenceOfSent'
  BY <1>1, <1>2 DEF Inv, Order, SubsequenceOfSent
<1> QED BY <1>4, <1>5, <1>6, <1>7, <1>8, <1>9 DEF Order

\* A delivered symbol goes from pending to its frame.
LEMMA DeliverStep == Inv /\ DeliverSignal => Order'
<1> SUFFICES ASSUME Inv, DeliverSignal PROVE Order'
  OBVIOUS
<1>1. PICK s \in Deliverable :
             /\ pending' = [pending EXCEPT ![s] = 0]
             /\ \/ /\ frames' = <<[sig |-> s, at |-> pending[s]]>> \o frames
                   /\ ppc' = ppc
                \/ frames' = frames /\ ppc' = "killed"
  BY DEF DeliverSignal
<1>2. /\ mode' = "kernel"
      /\ UNCHANGED <<morse, i, k, flag, flagAt, readAt, got, morseBuf>>
  BY DEF DeliverSignal, childVars, loopVars
<1>3. PendingLater'
  BY <1>1, <1>2 DEF Inv, Typed, TypeOK, Order, PendingLater, Deliverable
<1>4. FramesLater'
  <2> DEFINE f == [sig |-> s, at |-> pending[s]]
  <2>1. /\ f \in Frame /\ f.sig = s /\ f.at = pending[s]
        /\ frames \in Seq(Frame) /\ pending[s] # 0 /\ s \in Signals
    BY DEF Deliverable, Inv, Typed, TypeOK, Frame
  <2>2. readAt < f.at /\ f.at <= i /\ SignalOf[morse[f.at]] = f.sig
    BY <2>1 DEF Inv, Order, PendingLater
  <2>3. CASE frames' = <<f>> \o frames
    <3> HIDE DEF f
    <3>1. \A n \in DOMAIN frames' : frames'[n] = f \/ \E m \in DOMAIN frames : frames'[n] = frames[m]
      BY <2>1, <2>3, Push
    <3> QED BY <3>1, <2>2, <1>2 DEF Inv, Order, FramesLater
  <2>4. CASE frames' = frames
    BY <2>4, <1>2 DEF Inv, Order, FramesLater
  <2> QED BY <1>1, <2>3, <2>4
<1>5. FlagFresh'
  BY <1>1, <1>2 DEF Inv, Order, FlagFresh
<1>6. PendingAfterFlag'
  BY <1>2 DEF PendingAfterFlag, MainRuns
<1>7. ReadValue' /\ SubsequenceOfSent'
  BY <1>1, <1>2 DEF Inv, Order, ReadValue, Storing, SubsequenceOfSent
<1> QED BY <1>3, <1>4, <1>5, <1>6, <1>7 DEF Order

\* Back in user code with no frame left, nothing is pending: no signal is blocked.
LEMMA ReturnStep == Inv /\ ReturnToUser => Order'
<1> SUFFICES ASSUME Inv, ReturnToUser PROVE Order'
  OBVIOUS
<1>1. /\ Deliverable = {}
      /\ UNCHANGED <<morse, i, pending, frames, ppc, k, flag, flagAt, readAt, got, morseBuf>>
  BY DEF ReturnToUser, childVars, loopVars
<1>2. PendingAfterFlag'
  <2> SUFFICES ASSUME frames = <<>>, NEW s \in Signals PROVE pending[s] = 0
    BY <1>1 DEF PendingAfterFlag, MainRuns
  <2>1. s \notin Blocked
    BY DEF Blocked
  <2> QED BY <2>1, <1>1 DEF Deliverable
<1>3. PendingLater' /\ FramesLater' /\ FlagFresh'
  BY <1>1 DEF Inv, Order, PendingLater, FramesLater, FlagFresh
<1>4. ReadValue' /\ SubsequenceOfSent'
  BY <1>1 DEF Inv, Order, ReadValue, Storing, SubsequenceOfSent
<1> QED BY <1>2, <1>3, <1>4 DEF Order

\* A handler moves the symbol of its frame to flag.
LEMMA HandlerStep == Inv /\ handle_signal => Order'
<1> SUFFICES ASSUME Inv, handle_signal PROVE Order'
  OBVIOUS
<1>1. /\ frames # <<>> /\ frames \in Seq(Frame) /\ mode' = "kernel"
      /\ flag' = FlagOf[Head(frames).sig] /\ flagAt' = Head(frames).at
      /\ frames' = Tail(frames)
      /\ UNCHANGED <<morse, i, pending, ppc, k, readAt, got, morseBuf>>
  BY DEF handle_signal, childVars, Inv, Typed, TypeOK
<1>2. /\ 1 \in DOMAIN frames /\ Head(frames) = frames[1]
      /\ \A n \in DOMAIN frames' : n + 1 \in DOMAIN frames /\ frames'[n] = frames[n + 1]
  BY <1>1, Pop
<1>3. /\ readAt < frames[1].at /\ frames[1].at <= i
      /\ SignalOf[morse[frames[1].at]] = frames[1].sig /\ frames[1].at \in Nat
      /\ readAt \in Nat /\ i \in Nat
  BY <1>2, FrameTypes DEF Inv, Typed, TypeOK, Order, FramesLater
<1>4. FlagFresh'
  BY <1>1, <1>2, <1>3 DEF FlagFresh
<1>5. FramesLater'
  BY <1>1, <1>2 DEF Inv, Order, FramesLater
<1>6. PendingLater' /\ PendingAfterFlag'
  BY <1>1 DEF Inv, Order, PendingLater, PendingAfterFlag, MainRuns
<1>7. ReadValue' /\ SubsequenceOfSent'
  BY <1>1 DEF Inv, Order, ReadValue, Storing, SubsequenceOfSent
<1> QED BY <1>4, <1>5, <1>6, <1>7 DEF Order

\* When main finds flag set, its symbol is later than all it read and stored
\* before, and earlier than all that is pending.
LEMMA ProbeStep == Inv /\ Probe => Order'
<1> SUFFICES ASSUME Inv, Probe PROVE Order'
  OBVIOUS
<1>1. /\ mode = "user" /\ frames = <<>> /\ ppc = "probe"
      /\ UNCHANGED <<morse, i, pending, mode, frames, flag, flagAt, got, morseBuf>>
  BY DEF Probe, MainRuns, childVars, kernelVars
<1>2. CASE /\ flag = k /\ readAt' = flagAt /\ k' = k
           /\ ppc' = IF k = 1 THEN "clear" ELSE "append"
  <2>1. /\ k \in 1..4 /\ flag # 0 /\ flagAt \in 1..i /\ readAt < flagAt
        /\ FlagOf[SignalOf[morse[flagAt]]] = k /\ i \in Nat /\ readAt \in Nat
    BY <1>1, <1>2 DEF Inv, Typed, TypeOK, Order, FlagFresh
  <2>2. morse[flagAt] \in Symbols
    BY <2>1 DEF Inv, Typed, TypeOK, SentPart
  <2>3. morse[flagAt] = SymbolOf[k]
    BY <2>1, <2>2, FlagNamesSymbol
  <2>4. PendingLater'
    BY <1>1, <1>2, <2>1 DEF Inv, Order, PendingLater, PendingAfterFlag, MainRuns
  <2>5. FramesLater'
    BY <1>1 DEF FramesLater
  <2>6. FlagFresh'
    BY <1>1, <1>2, <2>1 DEF Inv, Order, FlagFresh
  <2>7. PendingAfterFlag'
    BY <1>1 DEF Inv, Order, PendingAfterFlag, MainRuns
  <2>8. \A n \in DOMAIN got : got[n] < flagAt
    BY <2>1 DEF Inv, Typed, TypeOK, Order, ReadValue
  <2>9. ReadValue'
    BY <1>1, <1>2, <2>1, <2>3, <2>8 DEF Inv, Typed, TypeOK, ReadValue, Storing
  <2>10. SubsequenceOfSent'
    BY <1>1 DEF Inv, Order, SubsequenceOfSent
  <2> QED BY <2>4, <2>5, <2>6, <2>7, <2>9, <2>10 DEF Order
<1>3. CASE readAt' = readAt /\ ppc' = (IF k = 4 THEN "clock" ELSE "probe")
  <2>1. Moveless
    BY <1>1, <1>3 DEF Moveless, MainRuns
  <2> QED BY <2>1, MovelessStep
<1> QED BY <1>2, <1>3 DEF Probe

\* main clears flag after it has read it, before or after it stores the symbol.
LEMMA ClearStep == Inv /\ Clear => Order'
<1> SUFFICES ASSUME Inv, Clear PROVE Order'
  OBVIOUS
<1>1. /\ ppc = "clear" /\ flag' = 0
      /\ ppc' = IF k = 1 THEN "append" ELSE "clock"
      /\ UNCHANGED <<morse, i, pending, mode, frames, k, readAt, got, morseBuf>>
  BY DEF Clear, childVars, kernelVars
<1>2. PendingLater' /\ FramesLater'
  BY <1>1 DEF Inv, Order, PendingLater, FramesLater
<1>3. FlagFresh' /\ PendingAfterFlag'
  BY <1>1 DEF FlagFresh, PendingAfterFlag
<1>4. ReadValue' /\ SubsequenceOfSent'
  BY <1>1 DEF Inv, Order, ReadValue, Storing, SubsequenceOfSent
<1> QED BY <1>2, <1>3, <1>4 DEF Order

\* main stores the symbol it read after all those it stored before.
LEMMA StoreStep == Inv /\ setString => Order'
<1> SUFFICES ASSUME Inv, setString PROVE Order'
  OBVIOUS
<1>1. /\ ppc = "append" /\ ppc' = (IF k = 1 THEN "clock" ELSE "clear")
      /\ morseBuf' = Append(morseBuf, SymbolOf[k]) /\ got' = Append(got, readAt)
      /\ UNCHANGED <<morse, i, pending, mode, frames, k, flag, flagAt, readAt>>
  BY DEF setString, childVars, kernelVars
<1>2. /\ got \in Seq(Nat) /\ morseBuf \in Seq(Symbols) /\ i \in Nat
      /\ readAt \in 1..i /\ morse[readAt] = SymbolOf[k]
      /\ \A n \in DOMAIN got : got[n] < readAt
  BY <1>1 DEF Inv, Typed, TypeOK, Order, ReadValue, Storing
<1>3. PendingLater' /\ FramesLater' /\ PendingAfterFlag'
  BY <1>1 DEF Inv, Order, PendingLater, FramesLater, PendingAfterFlag, MainRuns
<1>4. FlagFresh'
  BY <1>1 DEF Inv, Order, FlagFresh
<1>5. \A n \in DOMAIN got' : \/ n \in DOMAIN got /\ got'[n] = got[n]
                             \/ n = Len(got) + 1 /\ got'[n] = readAt
  BY <1>1, <1>2
<1>6. ReadValue'
  BY <1>1, <1>2, <1>5 DEF Inv, Order, ReadValue, Storing
<1>7. SubsequenceOfSent'
  <2>1. Len(got) = Len(morseBuf) /\ Len(got') = Len(morseBuf')
    BY <1>1, <1>2 DEF Inv, Order, SubsequenceOfSent
  <2>2. \A n \in DOMAIN got' : got'[n] \in 1..i /\ morseBuf'[n] = morse[got'[n]]
    BY <1>1, <1>2, <1>5, <2>1 DEF Inv, Order, SubsequenceOfSent
  <2>3. \A m, n \in DOMAIN got' : m < n => got'[m] < got'[n]
    BY <1>1, <1>2, <1>5 DEF Inv, Order, SubsequenceOfSent
  <2> QED BY <1>1, <2>1, <2>2, <2>3 DEF SubsequenceOfSent
<1> QED BY <1>3, <1>4, <1>6, <1>7 DEF Order

\* Every step keeps the order: the seven above move a symbol, the others none.
LEMMA OrderStep == Inv /\ [Next]_vars => Order'
<1> SUFFICES ASSUME Inv, [Next]_vars PROVE Order'
  OBVIOUS
<1> USE MovelessStep DEF Moveless, MainRuns
<1>1. CASE Read \/ ReadNothing \/ Finish \/ Overrun \/ Tick
  BY <1>1 DEF Read, ReadNothing, Finish, Overrun, Tick, childVars, kernelVars, loopVars
<1>2. CASE KernelEntry
  BY <1>2 DEF KernelEntry, childVars, loopVars
<1>3. CASE Install \/ Start \/ CheckClock
  BY <1>3 DEF Install, Start, CheckClock, childVars, kernelVars, loopVars
<1>4. CASE Decode \/ Write \/ WriteFails \/ Exit
  BY <1>4 DEF Decode, Write, WriteFails, Exit, childVars, kernelVars, loopVars
<1>5. CASE UNCHANGED vars
  BY <1>5 DEF vars, childVars, kernelVars, loopVars
<1>6. CASE Wake \/ Send \/ DeliverSignal \/ ReturnToUser
  BY <1>6, WakeStep, SendStep, DeliverStep, ReturnStep
<1>7. CASE handle_signal \/ Probe \/ Clear \/ setString
  BY <1>7, HandlerStep, ProbeStep, ClearStep, StoreStep
<1> QED BY <1>1, <1>2, <1>3, <1>4, <1>5, <1>6, <1>7 DEF Next, Child, Kernel, Parent


----------------------------------------------------------------------------
(* The timing                                                              *)

\* Where both processes are, the clock is not far.
Prompt ==
  /\ cpc = "read" => childAt = 0 /\ now <= 1
  /\ cpc = "sleep" => childAt <= 1 /\ now <= childAt + SleepTime
  /\ cpc \in {"send", "done", "crashed"} => SleepTime <= now
  /\ cpc \in {"read", "sleep", "failed"} => i = 0
  /\ ppc \in {"install", "start"} => now <= 1
  /\ ppc # "install" => installed = 4
  /\ ppc # "killed"

\* Nothing is in the kernel.
Still == (\A s \in Signals : pending[s] = 0) /\ frames = <<>>

\* The last symbol sent is pending, or in a frame.
OnTheWay ==
  /\ flag = 0 /\ ppc \in {"clock", "probe"}
  /\ LET s == SignalOf[morse[i]]
     IN  \/ pending[s] = i /\ (\A r \in Signals \ {s} : pending[r] = 0) /\ frames = <<>>
         \/ (\A r \in Signals : pending[r] = 0) /\ frames = <<[sig |-> s, at |-> i]>>

\* It is with main, which has yet to find it, or to store it.
InHand ==
  /\ Still
  /\ LET f == FlagOf[SignalOf[morse[i]]]
     IN  \/ flag = f /\ ppc \in {"clock", "probe"}
         \/ flag = f /\ k = f /\ ppc = IF f = 1 THEN "clear" ELSE "append"
         \/ flag = 0 /\ k = f /\ f = 1 /\ ppc = "append"

\* Or has stored it and has yet to clear flag.
Clearing ==
  /\ Still /\ ppc = "clear" /\ k # 1 /\ i # 0 /\ Len(morseBuf) = i
  /\ start_time = childAt /\ childAt = now

\* All that was sent is stored.
Rest ==
  /\ Still /\ flag = 0 /\ ppc \notin {"clear", "append"} /\ Len(morseBuf) = i
  /\ i # 0 => start_time = childAt

\* One symbol at a time is under way, within the second it was sent in, and before main gives up.
Delivery ==
  \/ Rest
  \/ Clearing
  \/ /\ i # 0 /\ Len(morseBuf) = i - 1 /\ now = childAt /\ now - start_time < SilenceLimit
     /\ OnTheWay \/ InHand

\* What is stored is what was sent first.
Stored == \A n \in DOMAIN morseBuf : morseBuf[n] = morse[n]

\* The child is done when main gives up.
Punctual ==
  /\ cpc = "send" => now <= childAt + 1 /\ (i = 0 => childAt <= SleepTime + 1)
  /\ ppc \in {"decode", "write", "exited", "failed"} => cpc \in {"failed", "done", "crashed"}
  /\ i # 0 => i <= Len(morse) - 1
  /\ cpc = "crashed" => morse = <<>>
  /\ cpc = "done" => i = Len(morse) - 1

\* What the child read, and what it made of it.
Reads ==
  /\ cpc \in {"sleep", "send", "done", "crashed"} => \E n \in 1 .. Len(text) : buf = SubSeq(text, 1, n)
  /\ cpc \in {"send", "done", "crashed"} => morse = stringToMorse(buf)

\* Nothing is written before main decodes; what it then writes is the normalised input.
Writes ==
  /\ ppc \notin {"write", "exited", "failed", "killed"} => output = <<>>
  /\ cpc # "failed" =>
       /\ ppc \in {"write", "exited"} => buf2 = Normalised(buf)
       /\ ppc = "write" => \E n \in 0 .. Len(buf2) : output = SubSeq(buf2, 1, n)
       /\ ppc = "exited" => output = buf2

\* What the assumptions on timing leave of a step.
PacedStep == Next /\ Pacing

\* The clock does not run ahead of what the assumptions allow.
LEMMA PromptTick == Inv /\ Prompt /\ Tick /\ Pacing => Prompt'
<1> SUFFICES ASSUME Inv, Prompt, Tick, Pacing PROVE Prompt'
  OBVIOUS
<1>1. /\ now' = now + 1 /\ UNCHANGED <<cpc, i, childAt, installed, ppc>>
      /\ now \in Nat /\ childAt \in Nat /\ SleepTime \in Nat
  BY LinkAssumption DEF Tick, childVars, kernelVars, Inv, Typed, TypeOK
<1>2. /\ cpc \in {"read", "send"} => now = childAt
      /\ cpc = "sleep" => now < childAt + SleepTime
      /\ ppc \in {"install", "start"} => now = 0
  BY <1>1 DEF Pacing, ParentPrompt, ChildOnTime
<1> QED BY <1>1, <1>2 DEF Prompt

\* Handlers are there before the first signal, which comes after SleepTime.
LEMMA PromptDeliver ==
  ASSUME Inv, Prompt, SleepTime >= 2, DeliverSignal
  PROVE  Prompt' /\ installed = 4
<1>1. PICK s \in Deliverable :
        IF \E n \in 1..installed : InstallOrder[n] = s THEN ppc' = ppc ELSE ppc' = "killed"
  BY DEF DeliverSignal
<1>2. i # 0
  BY <1>1 DEF Deliverable, Inv, Typed, TypeOK, Order, PendingLater
<1>3. installed = 4
  BY <1>2, LinkAssumption DEF Inv, Typed, TypeOK, Prompt
<1>4. \E n \in 1..4 : InstallOrder[n] = s
  BY <1>1 DEF Deliverable, Signals, InstallOrder
<1> QED BY <1>1, <1>3, <1>4 DEF DeliverSignal, Prompt, childVars

\* Every paced step keeps the clock and the two processes together.
LEMMA PromptStep == Inv /\ Prompt /\ SleepTime >= 2 /\ [PacedStep]_vars => Prompt'
<1> SUFFICES ASSUME Inv, Prompt, SleepTime >= 2, [PacedStep]_vars PROVE Prompt'
  OBVIOUS
<1>1. now \in Nat /\ childAt \in Nat /\ SleepTime \in Nat /\ installed \in 0..4 /\ i \in Nat
  BY LinkAssumption DEF Inv, Typed, TypeOK
<1>2. CASE Tick /\ Pacing BY <1>2, PromptTick
<1>3. CASE DeliverSignal BY <1>3, PromptDeliver
<1>4. CASE Read \/ ReadNothing \/ Wake \/ Finish \/ Overrun
  BY <1>1, <1>4 DEF Prompt, Read, ReadNothing, Wake, Finish, Overrun, kernelVars
<1>5. CASE Send
  BY <1>1, <1>5 DEF Prompt, Send
<1>6. CASE KernelEntry \/ ReturnToUser \/ handle_signal
  BY <1>6 DEF Prompt, KernelEntry, ReturnToUser, handle_signal, childVars
<1>7. CASE Install
  BY <1>1, <1>7, InstallCount DEF Prompt, Install, childVars
<1>8. CASE Start \/ CheckClock \/ Probe \/ Clear \/ setString
  BY <1>8 DEF Prompt, Start, CheckClock, Probe, Clear, setString, childVars, kernelVars
<1>9. CASE Decode \/ Write \/ WriteFails \/ Exit
  BY <1>9 DEF Prompt, Decode, Write, WriteFails, Exit, childVars, kernelVars
<1>10. CASE UNCHANGED vars
  BY <1>10 DEF Prompt, vars, childVars, kernelVars
<1> QED BY <1>2, <1>3, <1>4, <1>5, <1>6, <1>7, <1>8, <1>9, <1>10 DEF PacedStep, Next, Child, Kernel, Parent

----------------------------------------------------------------------------
(* Delivery                                                                *)

\* Each symbol has a signal and a flag value of its own, of which main makes the symbol again.
LEMMA LastSymbol ==
  ASSUME Inv, i # 0
  PROVE  /\ i \in 1 .. Len(morse) /\ morse[i] \in Symbols /\ SignalOf[morse[i]] \in Signals
         /\ FlagOf[SignalOf[morse[i]]] \in 1..4 /\ SymbolOf[FlagOf[SignalOf[morse[i]]]] = morse[i]
<1>1. i \in 1 .. Len(morse) /\ morse \in Seq(Symbols)
  BY DEF Inv, Typed, TypeOK, SentPart
<1>2. morse[i] \in Symbols BY <1>1
<1> QED BY <1>1, <1>2, FlagNamesSymbol

\* A step that leaves all symbols where they are.
LEMMA DeliveryAside ==
  ASSUME Inv, Delivery, UNCHANGED <<pending, frames, flag, i, childAt, now, morseBuf, k, start_time, ppc>>,
         i # 0 => morse' = morse
  PROVE  Delivery'
BY DEF Delivery, Rest, Clearing, OnTheWay, InHand, Still

\* The child sends only when all is stored.
LEMMA DeliverySend ==
  ASSUME Inv, Prompt, Delivery, Punctual, SleepTime + 3 <= SilenceLimit, Send, Pacing
  PROVE  Delivery' /\ Rest
<1>1. /\ i' = i + 1 /\ childAt' = now /\ i \in Nat /\ i < Len(morse)
      /\ UNCHANGED <<morse, frames, flag, morseBuf, k, start_time, ppc, now>>
  BY DEF Send, loopVars, Inv, Typed, TypeOK, SentPart
<1>2. Idle
  BY <1>1 DEF Pacing, SignalsSpaced, ParentAlive, Punctual, Prompt, Send
<1>3. Rest
  BY <1>2, LastSymbol DEF Idle, MainRuns, Delivery, Rest, Clearing, OnTheWay, InHand, Still
<1>4. LET s == SignalOf[morse[i + 1]]
      IN  s \in Signals /\ pending'[s] = i + 1 /\ \A r \in Signals \ {s} : pending'[r] = 0
  <2>1. SignalOf[morse[i + 1]] \in Signals
    BY <1>1, FlagNamesSymbol DEF Inv, Typed, TypeOK
  <2>2. pending' = [pending EXCEPT ![SignalOf[morse[i + 1]]] = i + 1]
    BY <1>2, <2>1 DEF Send, Idle, ParentAlive
  <2> QED BY <1>2, <2>1, <2>2 DEF Idle, Inv, Typed, TypeOK
<1>5. now - start_time < SilenceLimit
  BY <1>3, LinkAssumption DEF Send, Rest, Punctual, Inv, Typed, TypeOK
<1>6. OnTheWay'
  BY <1>1, <1>2, <1>4 DEF OnTheWay, Idle, MainRuns
<1> QED BY <1>1, <1>3, <1>5, <1>6 DEF Delivery, Rest

\* The second ends only when all is stored, or when main no longer listens.
LEMMA DeliveryTick ==
  ASSUME Inv, Delivery, Tick, Pacing
  PROVE  Delivery'
<1>1. /\ now' = now + 1 /\ now \in Nat
      /\ UNCHANGED <<pending, frames, flag, i, childAt, morse, morseBuf, k, start_time, ppc>>
  BY DEF Tick, childVars, kernelVars, loopVars, Inv, Typed, TypeOK
<1>2. ppc \notin {"install", "start", "decode", "write"} /\ ParentAlive => Idle
  BY <1>1 DEF Pacing, ParentPrompt
<1>3. CASE Idle
  <2>1. Still /\ flag = 0 /\ ppc \in {"clock", "probe"} BY <1>3 DEF Idle, MainRuns, Still
  <2>2. i # 0 => ~OnTheWay /\ ~InHand BY <2>1, LastSymbol DEF OnTheWay, InHand, Still
  <2>3. Rest BY <2>1, <2>2 DEF Delivery, Clearing
  <2> QED BY <1>1, <2>3 DEF Delivery, Rest, Still
<1>4. CASE ~Idle
  <2>1. ppc \notin {"clock", "probe", "clear", "append"} BY <1>2, <1>4 DEF ParentAlive
  <2>2. Rest BY <2>1 DEF Delivery, Clearing, OnTheWay, InHand
  <2> QED BY <1>1, <2>2 DEF Delivery, Rest, Still
<1> QED BY <1>3, <1>4

\* The one pending signal becomes the one frame.
LEMMA DeliverySignal ==
  ASSUME Inv, Prompt, SleepTime >= 2, Delivery, DeliverSignal
  PROVE  Delivery'
<1>1. installed = 4 BY PromptDeliver
<1>2. PICK s \in Deliverable :
             /\ pending' = [pending EXCEPT ![s] = 0]
             /\ IF \E n \in 1..installed : InstallOrder[n] = s
                THEN frames' = <<[sig |-> s, at |-> pending[s]]>> \o frames /\ ppc' = ppc
                ELSE frames' = frames /\ ppc' = "killed"
  BY DEF DeliverSignal
<1>3. \E n \in 1..4 : InstallOrder[n] = s
  BY <1>2 DEF Deliverable, Signals, InstallOrder
<1>4. /\ frames' = <<[sig |-> s, at |-> pending[s]]>> \o frames /\ ppc' = ppc /\ s \in Signals /\ pending[s] # 0
      /\ UNCHANGED <<flag, i, childAt, now, morse, morseBuf, k, start_time>>
  BY <1>1, <1>2, <1>3 DEF DeliverSignal, Deliverable, childVars, loopVars
<1>5. /\ i # 0 /\ Len(morseBuf) = i - 1 /\ now = childAt /\ now - start_time < SilenceLimit /\ OnTheWay
      /\ s = SignalOf[morse[i]] /\ pending[s] = i /\ frames = <<>>
  BY <1>4 DEF Delivery, Rest, Clearing, InHand, Still, OnTheWay
<1>6. frames' = <<[sig |-> s, at |-> i]>>
  BY <1>4, <1>5
<1>7. \A r \in Signals : pending'[r] = 0
  BY <1>2, <1>4, <1>5 DEF OnTheWay, Inv, Typed, TypeOK
<1>8. OnTheWay'
  BY <1>4, <1>5, <1>6, <1>7 DEF OnTheWay
<1> QED BY <1>4, <1>5, <1>8 DEF Delivery

\* The one frame becomes the value of flag.
LEMMA DeliveryHandler ==
  ASSUME Inv, Delivery, handle_signal
  PROVE  Delivery'
<1>1. /\ frames # <<>> /\ flag' = FlagOf[Head(frames).sig] /\ frames' = Tail(frames)
      /\ UNCHANGED <<pending, i, childAt, now, morse, morseBuf, k, start_time, ppc>>
  BY DEF handle_signal, childVars
<1>2. /\ i # 0 /\ Len(morseBuf) = i - 1 /\ now = childAt /\ now - start_time < SilenceLimit
      /\ ppc \in {"clock", "probe"} /\ (\A r \in Signals : pending[r] = 0)
      /\ frames = <<[sig |-> SignalOf[morse[i]], at |-> i]>>
  BY <1>1 DEF Delivery, Rest, Clearing, InHand, Still, OnTheWay
<1>3. flag' = FlagOf[SignalOf[morse[i]]] /\ frames' = <<>>
  BY <1>1, <1>2
<1>4. InHand'
  BY <1>1, <1>2, <1>3 DEF InHand, Still
<1> QED BY <1>1, <1>2, <1>4 DEF Delivery

\* main gives up only when all is stored that will ever be sent.
LEMMA DeliveryClock ==
  ASSUME Inv, Prompt, Delivery, Punctual, SleepTime + 3 <= SilenceLimit, CheckClock
  PROVE  Delivery' /\ (ppc' = "decode" => cpc \in {"failed", "done", "crashed"})
<1>1. /\ ppc = "clock" /\ ppc' = (IF now - start_time >= SilenceLimit THEN "decode" ELSE "probe")
      /\ UNCHANGED <<pending, frames, flag, i, childAt, now, morse, morseBuf, start_time, cpc>>
  BY DEF CheckClock, childVars, kernelVars
<1>2. ASSUME ppc' = "decode" PROVE Rest /\ cpc \in {"failed", "done", "crashed"}
  <2>1. now - start_time >= SilenceLimit BY <1>1, <1>2
  <2>2. Rest BY <1>1, <2>1, LinkAssumption DEF Delivery, Clearing, Inv, Typed, TypeOK
  <2>3. cpc \notin {"read", "sleep", "send"}
    BY <2>1, <2>2, LinkAssumption DEF Rest, Prompt, Punctual, Inv, Typed, TypeOK
  <2> QED BY <2>2, <2>3 DEF Inv, Typed, TypeOK
<1>3. CASE Rest
  <2>1. ppc' \notin {"clear", "append"} /\ UNCHANGED <<pending, frames, flag, i, childAt, morseBuf, start_time>>
    BY <1>1
  <2>2. Rest' BY <1>3, <2>1 DEF Rest, Still
  <2> QED BY <1>2, <2>2 DEF Delivery
<1>4. CASE ~Rest
  <2>1. /\ ppc' = "probe" /\ i # 0 /\ Len(morseBuf) = i - 1 /\ now = childAt /\ now - start_time < SilenceLimit
        /\ OnTheWay \/ (Still /\ flag = FlagOf[SignalOf[morse[i]]])
    BY <1>1, <1>2, <1>4 DEF Delivery, Clearing, InHand
  <2>2. OnTheWay' \/ InHand'
    BY <1>1, <2>1 DEF OnTheWay, InHand, Still
  <2> QED BY <1>1, <2>1, <2>2 DEF Delivery
<1> QED BY <1>2, <1>3, <1>4

\* main finds flag set to the symbol under way, or not set.
LEMMA DeliveryProbe ==
  ASSUME Inv, Delivery, Probe
  PROVE  Delivery'
<1>1. /\ ppc = "probe" /\ UNCHANGED <<pending, frames, flag, i, childAt, now, morse, morseBuf, start_time>>
      /\ \/ flag = k /\ ppc' = (IF k = 1 THEN "clear" ELSE "append") /\ k' = k
         \/ flag # k /\ ppc' \in {"clock", "probe"}
      /\ k \in 1..4 /\ frames = <<>>
  BY DEF Probe, childVars, kernelVars, MainRuns, Inv, Typed, TypeOK
<1>2. CASE Rest BY <1>1, <1>2 DEF Delivery, Rest, Still
<1>3. CASE ~Rest
  <2>1. /\ i # 0 /\ Len(morseBuf) = i - 1 /\ now = childAt /\ now - start_time < SilenceLimit
        /\ OnTheWay \/ (Still /\ flag = FlagOf[SignalOf[morse[i]]])
    BY <1>1, <1>3 DEF Delivery, Clearing, InHand
  <2>2. OnTheWay' \/ InHand'
    BY <1>1, <2>1 DEF OnTheWay, InHand, Still
  <2> QED BY <1>1, <2>1, <2>2 DEF Delivery
<1> QED BY <1>2, <1>3

\* A dit is cleared before it is stored, the others after.
LEMMA DeliveryClear ==
  ASSUME Inv, Delivery, Clear
  PROVE  Delivery'
<1>1. /\ ppc = "clear" /\ flag' = 0 /\ ppc' = (IF k = 1 THEN "append" ELSE "clock")
      /\ UNCHANGED <<pending, frames, i, childAt, now, morse, morseBuf, k, start_time>>
  BY DEF Clear, childVars, kernelVars
<1>2. CASE Clearing BY <1>1, <1>2 DEF Delivery, Clearing, Rest, Still
<1>3. CASE ~Clearing
  <2>1. /\ i # 0 /\ Len(morseBuf) = i - 1 /\ now = childAt /\ now - start_time < SilenceLimit
        /\ Still /\ k = FlagOf[SignalOf[morse[i]]] /\ k = 1
    BY <1>1, <1>3 DEF Delivery, Rest, OnTheWay, InHand
  <2>2. InHand' BY <1>1, <2>1 DEF InHand, Still
  <2> QED BY <1>1, <2>1, <2>2 DEF Delivery
<1> QED BY <1>2, <1>3

\* main stores the one symbol that is not yet stored.
LEMMA DeliveryStore ==
  ASSUME Inv, Delivery, setString
  PROVE  /\ Delivery' /\ i # 0 /\ Len(morseBuf) = i - 1 /\ SymbolOf[k] = morse[i]
         /\ morseBuf' = Append(morseBuf, SymbolOf[k]) /\ morseBuf \in Seq(Symbols) /\ SymbolOf[k] \in Symbols
<1>1. /\ ppc = "append" /\ start_time' = now /\ ppc' = (IF k = 1 THEN "clock" ELSE "clear")
      /\ morseBuf' = Append(morseBuf, SymbolOf[k])
      /\ UNCHANGED <<pending, frames, i, childAt, now, morse, k, flag>>
      /\ morseBuf \in Seq(Symbols) /\ k \in 1..4 /\ i \in Nat
  BY DEF setString, childVars, kernelVars, Inv, Typed, TypeOK
<1>2. /\ i # 0 /\ Len(morseBuf) = i - 1 /\ now = childAt
      /\ Still /\ k = FlagOf[SignalOf[morse[i]]] /\ (k = 1 => flag = 0)
  BY <1>1 DEF Delivery, Rest, Clearing, OnTheWay, InHand
<1>3. SymbolOf[k] = morse[i] /\ SymbolOf[k] \in Symbols
  BY <1>2, LastSymbol
<1>4. Len(morseBuf') = i
  BY <1>1, <1>2, <1>3
<1>5. CASE k = 1
  <2>1. Rest' BY <1>1, <1>2, <1>4, <1>5 DEF Rest, Still
  <2> QED BY <1>1, <1>2, <1>3, <2>1 DEF Delivery
<1>6. CASE k # 1
  <2>1. Clearing' BY <1>1, <1>2, <1>4, <1>6 DEF Clearing, Still
  <2> QED BY <1>1, <1>2, <1>3, <2>1 DEF Delivery
<1> QED BY <1>5, <1>6

\* What main has stored are the first symbols sent.
LEMMA StoredStep ==
  ASSUME Inv, Delivery, Stored, [Next]_vars
  PROVE  Stored'
<1>1. CASE setString
  <2>1. /\ i # 0 /\ Len(morseBuf) = i - 1 /\ SymbolOf[k] = morse[i] /\ i \in Nat
        /\ morseBuf' = Append(morseBuf, SymbolOf[k]) /\ morseBuf \in Seq(Symbols) /\ morse' = morse
    BY <1>1, DeliveryStore DEF setString, childVars, Inv, Typed, TypeOK
  <2>2. \A n \in DOMAIN morseBuf' : \/ n \in DOMAIN morseBuf /\ morseBuf'[n] = morseBuf[n]
                                    \/ n = i /\ morseBuf'[n] = morse[i]
    BY <2>1
  <2> QED BY <2>1, <2>2 DEF Stored
<1>2. CASE Wake
  <2>1. i = 0 /\ morseBuf \in Seq(Symbols) /\ morseBuf' = morseBuf
    BY <1>2 DEF Wake, loopVars, Inv, Typed, TypeOK, SentPart
  <2>2. Len(morseBuf) = 0 BY <2>1 DEF Delivery, Rest, Clearing
  <2> QED BY <2>1, <2>2 DEF Stored
<1>3. ASSUME UNCHANGED <<morse, morseBuf>> PROVE Stored'
  BY <1>3 DEF Stored
<1>4. CASE Read \/ ReadNothing \/ Send \/ Finish \/ Overrun \/ KernelEntry \/ DeliverSignal \/ ReturnToUser \/ Tick
  BY <1>3, <1>4 DEF Read, ReadNothing, Send, Finish, Overrun, KernelEntry, DeliverSignal, ReturnToUser, Tick,
                    childVars, loopVars
<1>5. CASE handle_signal \/ Install \/ Start \/ CheckClock \/ Probe \/ Clear
  BY <1>3, <1>5 DEF handle_signal, Install, Start, CheckClock, Probe, Clear, childVars, loopVars
<1>6. CASE Decode \/ Write \/ WriteFails \/ Exit \/ UNCHANGED vars
  BY <1>3, <1>6 DEF Decode, Write, WriteFails, Exit, vars, childVars, loopVars
<1> QED BY <1>1, <1>2, <1>4, <1>5, <1>6 DEF Next, Child, Kernel, Parent

\* Every paced step keeps at most one symbol under way.
LEMMA DeliveryStep ==
  ASSUME Inv, Prompt, Delivery, Punctual, SleepTime >= 2, SleepTime + 3 <= SilenceLimit, [PacedStep]_vars
  PROVE  Delivery'
<1>1. CASE Send /\ Pacing BY <1>1, DeliverySend
<1>2. CASE Tick /\ Pacing BY <1>2, DeliveryTick
<1>3. CASE DeliverSignal BY <1>3, DeliverySignal
<1>4. CASE handle_signal BY <1>4, DeliveryHandler
<1>5. CASE CheckClock BY <1>5, DeliveryClock
<1>6. CASE Probe BY <1>6, DeliveryProbe
<1>7. CASE Clear BY <1>7, DeliveryClear
<1>8. CASE setString BY <1>8, DeliveryStore
\* What is sent later is not sent yet.
<1>9. CASE Read \/ Wake
  <2>1. /\ i = 0 /\ UNCHANGED <<pending, frames, flag, i, morseBuf, ppc>>
    BY <1>9 DEF Read, Wake, kernelVars, loopVars, Inv, Typed, SentPart
  <2>2. Rest BY <2>1 DEF Delivery, Clearing
  <2> QED BY <2>1, <2>2 DEF Delivery, Rest, Still
<1>10. CASE ReadNothing \/ Finish \/ Overrun
  BY <1>10, DeliveryAside DEF ReadNothing, Finish, Overrun, kernelVars, loopVars
<1>11. CASE KernelEntry \/ ReturnToUser
  BY <1>11, DeliveryAside DEF KernelEntry, ReturnToUser, childVars, loopVars
<1>12. CASE UNCHANGED vars
  BY <1>12, DeliveryAside DEF vars, childVars, kernelVars, loopVars
\* Before the loop and after it nothing is under way.
<1>13. CASE Install \/ Start
  <2>1. /\ ppc \in {"install", "start"} /\ ppc' \in {"install", "start", "clock"}
        /\ UNCHANGED <<pending, frames, flag, i, childAt, morseBuf>>
    BY <1>13 DEF Install, Start, childVars, kernelVars, loopVars
  <2>2. Rest BY <2>1 DEF Delivery, Clearing, OnTheWay, InHand
  <2>3. i = 0 BY <2>1, LinkAssumption DEF Prompt, Inv, Typed, TypeOK
  <2> QED BY <2>1, <2>2, <2>3 DEF Delivery, Rest, Still
<1>14. CASE Decode \/ Write \/ WriteFails \/ Exit
  <2>1. /\ ppc \in {"decode", "write"} /\ ppc' \in {"write", "exited", "failed"}
        /\ UNCHANGED <<pending, frames, flag, i, childAt, morseBuf, start_time>>
    BY <1>14 DEF Decode, Write, WriteFails, Exit, childVars, kernelVars, loopVars
  <2>2. Rest BY <2>1 DEF Delivery, Clearing, OnTheWay, InHand
  <2> QED BY <2>1, <2>2 DEF Delivery, Rest, Still
<1> QED BY <1>1, <1>2, <1>3, <1>4, <1>5, <1>6, <1>7, <1>8, <1>9, <1>10, <1>11, <1>12, <1>13, <1>14
        DEF PacedStep, Next, Child, Kernel, Parent

\* Every paced step leaves main waiting for as long as the child has something to send.
LEMMA PunctualStep ==
  ASSUME Inv, Prompt, Delivery, Punctual, SleepTime + 3 <= SilenceLimit, [PacedStep]_vars
  PROVE  Punctual'
<1>1. now \in Nat /\ childAt \in Nat /\ SleepTime \in Nat /\ i \in Nat /\ morse \in Seq(Symbols)
  BY LinkAssumption DEF Inv, Typed, TypeOK
<1>2. CASE Tick /\ Pacing
  BY <1>1, <1>2 DEF Punctual, Tick, Pacing, ChildOnTime, childVars
<1>3. CASE CheckClock
  <2>1. UNCHANGED <<cpc, now, childAt, i, morse>> /\ ppc' \in {"decode", "probe"}
    BY <1>3 DEF CheckClock, childVars
  <2> QED BY <1>3, <2>1, DeliveryClock DEF Punctual
<1>4. CASE Read \/ ReadNothing
  BY <1>4 DEF Punctual, Read, ReadNothing
<1>5. CASE Wake
  <2>1. now <= SleepTime + 1 BY <1>1, <1>5 DEF Wake, Prompt
  <2>2. ppc \notin {"decode", "write", "exited", "failed"} BY <1>5 DEF Wake, Punctual
  <2> QED BY <1>1, <1>5, <2>1, <2>2 DEF Wake, Punctual, Inv, Typed, SentPart
<1>6. CASE Send
  BY <1>1, <1>6 DEF Punctual, Send
<1>7. CASE Finish
  BY <1>1, <1>7 DEF Punctual, Finish, Inv, Typed, SentPart
<1>8. CASE Overrun
  BY <1>8 DEF Punctual, Overrun
<1>9. CASE KernelEntry \/ DeliverSignal \/ ReturnToUser \/ handle_signal
  BY <1>9 DEF Punctual, KernelEntry, DeliverSignal, ReturnToUser, handle_signal, childVars
<1>10. CASE Install \/ Start \/ Probe \/ Clear \/ setString
  BY <1>10 DEF Punctual, Install, Start, Probe, Clear, setString, childVars
<1>11. CASE Decode \/ Write \/ WriteFails \/ Exit
  BY <1>11 DEF Punctual, Decode, Write, WriteFails, Exit, childVars
<1>12. CASE UNCHANGED vars
  BY <1>12 DEF Punctual, vars, childVars
<1> QED BY <1>2, <1>3, <1>4, <1>5, <1>6, <1>7, <1>8, <1>9, <1>10, <1>11, <1>12
        DEF PacedStep, Next, Child, Kernel, Parent

----------------------------------------------------------------------------
(* The output                                                              *)

\* The codec delivers what the child reads of a text, when all symbols that have a
\* signal arrive: RoundTrip of MorseCodec, which TLC checks.
RoundTrips ==
  \A t \in Texts : \A n \in 1 .. Len(t) :
    /\ Normalised(SubSeq(t, 1, n)) \in Seq(STRING)
    /\ morseToString(Sent(stringToMorse(SubSeq(t, 1, n)))) = Normalised(SubSeq(t, 1, n))

\* The child's buffers are what it read and its code.
LEMMA ReadsStep ==
  ASSUME Inv, Reads, [Next]_vars
  PROVE  Reads'
<1>1. CASE Read
  BY <1>1 DEF Reads, Read, ReadSizes
<1>2. CASE Wake
  BY <1>2 DEF Reads, Wake
<1>3. CASE Send \/ Finish \/ Overrun
  BY <1>3 DEF Reads, Send, Finish, Overrun
<1>4. CASE ReadNothing
  BY <1>4 DEF Reads, ReadNothing
<1>5. CASE UNCHANGED childVars
  BY <1>5 DEF Reads, childVars
<1>6. CASE KernelEntry \/ DeliverSignal \/ ReturnToUser \/ Tick \/ UNCHANGED vars
  BY <1>5, <1>6 DEF KernelEntry, DeliverSignal, ReturnToUser, Tick, vars
<1>7. CASE Parent
  BY <1>5, <1>7 DEF Parent, handle_signal, Install, Start, CheckClock, Probe, Clear, setString, Decode, Write,
                    WriteFails, Exit
<1> QED BY <1>1, <1>2, <1>3, <1>4, <1>6, <1>7 DEF Next, Child, Kernel

\* When main decodes it has all symbols that have a signal.
LEMMA AllArrived ==
  ASSUME Inv, Delivery, Stored, Punctual, ppc = "decode", cpc # "failed"
  PROVE  morseBuf = Sent(morse)
<1>1. morse \in Seq(Symbols) /\ morseBuf \in Seq(Symbols) /\ i \in Nat
  BY DEF Inv, Typed, TypeOK
<1>2. Rest
  BY DEF Delivery, Clearing, OnTheWay, InHand
<1>3. Len(morseBuf) = i BY <1>2 DEF Rest
<1>4. \/ cpc = "crashed" /\ morse = <<>>
      \/ cpc = "done" /\ i = Len(morse) - 1
  BY DEF Punctual
<1>5. CASE morse = <<>>
  <2>1. i = 0 BY <1>1, <1>4, <1>5 DEF Inv, Typed, SentPart
  <2>2. morseBuf = <<>> BY <1>1, <1>3, <2>1
  <2> QED BY <1>5, <2>2 DEF Sent
<1>6. CASE morse # <<>>
  <2>1. Len(morseBuf) = Len(morse) - 1 BY <1>3, <1>4, <1>6
  <2>2. Sent(morse) = SubSeq(morse, 1, Len(morse) - 1)
    BY <1>6 DEF Sent, Front
  <2>3. Len(morse) \in Nat \ {0}
    BY <1>1, <1>6
  <2>4. SubSeq(morse, 1, Len(morse) - 1) = [n \in 1 .. Len(morse) - 1 |-> morse[n]]
    BY <1>1, <2>3
  <2>5. Sent(morse) \in Seq(Symbols) /\ Len(Sent(morse)) = Len(morse) - 1
    <3>1. \A n \in 1 .. Len(morse) - 1 : morse[n] \in Symbols BY <1>1, <2>3
    <3>2. Len(morse) - 1 \in Nat BY <2>3
    <3>3. [n \in 1 .. Len(morse) - 1 |-> morse[n]] \in Seq(Symbols) BY <3>1, <3>2
    <3>4. Len([n \in 1 .. Len(morse) - 1 |-> morse[n]]) = Len(morse) - 1 BY <3>1, <3>2
    <3> QED BY <2>2, <2>4, <3>3, <3>4
  <2>6. \A n \in 1 .. Len(morse) - 1 : Sent(morse)[n] = morse[n]
    BY <1>1, <2>2, <2>4
  <2> QED BY <1>1, <2>1, <2>5, <2>6 DEF Stored
<1> QED BY <1>5, <1>6

\* main writes the input, as it decodes the child's own symbols.
LEMMA WritesStep ==
  ASSUME Inv, Delivery, Stored, Punctual, Reads, Writes, RoundTrips, [Next]_vars
  PROVE  Writes'
<1>1. ppc \in {"decode", "write", "exited"} /\ cpc # "failed" =>
        /\ cpc \in {"done", "crashed"} /\ Normalised(buf) \in Seq(STRING)
        /\ morseToString(Sent(morse)) = Normalised(buf)
  BY DEF Punctual, Reads, RoundTrips, Inv, Typed, TypeOK
<1>2. CASE Read \/ ReadNothing \/ Wake \/ Send
  <2>1. /\ ppc \notin {"write", "exited", "failed"} /\ ppc' = ppc /\ UNCHANGED <<output>>
    BY <1>2 DEF Read, ReadNothing, Wake, Send, Punctual
  <2> QED BY <2>1 DEF Writes
<1>3. CASE Finish \/ Overrun
  BY <1>3 DEF Writes, Finish, Overrun
<1>4. CASE DeliverSignal
  <2>1. UNCHANGED <<cpc, buf, buf2, output>> /\ ppc' \in {ppc, "killed"}
    BY <1>4 DEF DeliverSignal, childVars
  <2> QED BY <2>1 DEF Writes
<1>5. CASE KernelEntry \/ ReturnToUser \/ Tick \/ UNCHANGED vars
  BY <1>5 DEF Writes, KernelEntry, ReturnToUser, Tick, vars, childVars
<1>6. CASE handle_signal \/ Install \/ Start \/ CheckClock \/ Probe \/ Clear \/ setString
  <2>1. /\ UNCHANGED <<cpc, buf, buf2, output>>
        /\ ppc' = ppc \/ (ppc \notin {"write", "exited", "failed", "killed"}
             /\ ppc' \notin {"write", "exited", "failed", "killed"})
    BY <1>6 DEF handle_signal, Install, Start, CheckClock, Probe, Clear, setString, childVars
  <2> QED BY <2>1 DEF Writes
<1>7. CASE Decode
  <2>1. UNCHANGED <<cpc, buf, output>> /\ ppc = "decode" /\ ppc' = "write" /\ buf2' = morseToString(morseBuf)
    BY <1>7 DEF Decode, childVars
  <2>2. cpc # "failed" => buf2' = Normalised(buf) /\ buf2' \in Seq(STRING)
    BY <1>1, <2>1, AllArrived
  <2>3. output = <<>> BY <2>1 DEF Writes
  <2>4. cpc # "failed" => output = SubSeq(buf2', 1, 0) /\ 0 \in 0 .. Len(buf2')
    BY <2>2, <2>3
  <2> QED BY <2>1, <2>2, <2>4 DEF Writes
<1>8. CASE Write
  <2>1. UNCHANGED <<cpc, buf, buf2, ppc>> /\ ppc = "write"
    BY <1>8 DEF Write, childVars
  <2>2. ASSUME cpc # "failed" PROVE \E n \in 0 .. Len(buf2) : output' = SubSeq(buf2, 1, n)
    <3>1. buf2 \in Seq(STRING) BY <1>1, <2>1, <2>2 DEF Writes
    <3>2. PICK n \in 0 .. Len(buf2) : output = SubSeq(buf2, 1, n) BY <2>1, <2>2 DEF Writes
    <3>3. Len(output) \in Nat BY <3>1, <3>2
    <3> QED BY <1>8, <3>1, <3>3 DEF Write
  <2> QED BY <2>1, <2>2 DEF Writes
<1>9. CASE WriteFails
  <2>1. ppc' = "failed" BY <1>9 DEF WriteFails
  <2> QED BY <2>1 DEF Writes
<1>10. CASE Exit
  <2>1. UNCHANGED <<cpc, buf, buf2, output>> /\ ppc = "write" /\ ppc' = "exited" /\ Len(output) >= Len(buf2)
    BY <1>10 DEF Exit, childVars
  <2>2. ASSUME cpc # "failed" PROVE output = buf2
    <3>1. buf2 \in Seq(STRING) BY <1>1, <2>1, <2>2 DEF Writes
    <3>2. PICK n \in 0 .. Len(buf2) : output = SubSeq(buf2, 1, n) BY <2>1, <2>2 DEF Writes
    <3>3. n = Len(buf2) BY <2>1, <3>1, <3>2
    <3> QED BY <3>1, <3>2, <3>3
  <2> QED BY <2>1, <2>2 DEF Writes
<1> QED BY <1>2, <1>3, <1>4, <1>5, <1>6, <1>7, <1>8, <1>9, <1>10 DEF Next, Child, Kernel, Parent

----------------------------------------------------------------------------
(* The channel                                                             *)

\* A step with the child's kill sends, one with main's setString delivers.
LEMMA ChannelStep ==
  ASSUME Inv, Delivery, [Next]_vars
  PROVE  [Channel!Next]_Channel!vars
<1>1. morse \in Seq(Symbols) /\ morseBuf \in Seq(Symbols) /\ i \in Nat /\ i <= Len(morse)
  BY DEF Inv, Typed, TypeOK, SentPart
<1>2. CASE Send
  <2>1. i' = i + 1 /\ i + 1 <= Len(morse) /\ morse' = morse /\ morseBuf' = morseBuf
    BY <1>1, <1>2 DEF Send, loopVars
  <2>2. SubSeq(morse, 1, i + 1) = Append(SubSeq(morse, 1, i), morse[i + 1]) /\ morse[i + 1] \in Symbols
    BY <1>1, <2>1
  <2> QED BY <2>1, <2>2 DEF Channel!Next, Channel!Send
<1>3. CASE setString
  <2>1. /\ i # 0 /\ Len(morseBuf) = i - 1 /\ morseBuf' = Append(morseBuf, morse[i]) /\ UNCHANGED <<morse, i>>
    BY <1>3, DeliveryStore DEF setString, childVars
  <2>2. Len(SubSeq(morse, 1, i)) = i /\ SubSeq(morse, 1, i)[i] = morse[i]
    BY <1>1, <2>1
  <2> QED BY <1>1, <2>1, <2>2 DEF Channel!Next, Channel!Deliver
<1>4. CASE Wake
  <2>1. i = 0 /\ i' = i /\ morse' \in Seq(Symbols) /\ morseBuf' = morseBuf
    BY <1>4, TypeStep DEF Wake, loopVars, Inv, Typed, TypeOK, SentPart
  <2>2. SubSeq(morse, 1, 0) = <<>> /\ SubSeq(morse', 1, 0) = <<>>
    BY <1>1, <2>1
  <2> QED BY <2>1, <2>2 DEF Channel!vars
<1>5. ASSUME UNCHANGED <<morse, i, morseBuf>> PROVE UNCHANGED Channel!vars
  BY <1>5 DEF Channel!vars
<1>6. CASE Read \/ ReadNothing \/ Finish \/ Overrun \/ KernelEntry \/ DeliverSignal \/ ReturnToUser \/ Tick
  BY <1>5, <1>6 DEF Read, ReadNothing, Finish, Overrun, KernelEntry, DeliverSignal, ReturnToUser, Tick,
                    childVars, loopVars
<1>7. CASE handle_signal \/ Install \/ Start \/ CheckClock \/ Probe \/ Clear
  BY <1>5, <1>7 DEF handle_signal, Install, Start, CheckClock, Probe, Clear, childVars, loopVars
<1>8. CASE Decode \/ Write \/ WriteFails \/ Exit \/ UNCHANGED vars
  BY <1>5, <1>8 DEF Decode, Write, WriteFails, Exit, vars, childVars, loopVars
<1> QED BY <1>2, <1>3, <1>4, <1>6, <1>7, <1>8 DEF Next, Child, Kernel, Parent

\* Where Init leaves the timing and the symbols.
LEMMA PacedInit == Init => Prompt /\ Delivery /\ Stored /\ Punctual /\ Reads /\ Writes /\ Channel!Init
<1> SUFFICES ASSUME Init PROVE Prompt /\ Delivery /\ Stored /\ Punctual /\ Reads /\ Writes /\ Channel!Init
  OBVIOUS
<1>1. Prompt BY DEF Init, Prompt
<1>2. Delivery BY DEF Init, Delivery, Rest, Still
<1>3. Stored /\ Punctual BY DEF Init, Stored, Punctual
<1>4. Reads /\ Writes BY DEF Init, Reads, Writes
<1>5. Channel!Init
  <2>1. morse = <<>> /\ i = 0 /\ morseBuf = <<>> BY DEF Init
  <2>2. SubSeq(<<>>, 1, 0) = <<>> OBVIOUS
  <2> QED BY <2>1, <2>2 DEF Channel!Init
<1> QED BY <1>1, <1>2, <1>3, <1>4, <1>5

\* A paced step is a step.
LEMMA PacedNext == [PacedStep]_vars => [Next]_vars
  BY DEF PacedStep
----------------------------------------------------------------------------
(* Theorems                                                                *)

\* The inductive invariant holds in every reachable state.
THEOREM Invariance == Spec => []Inv
<1>1. Init => Inv
  BY TypeInit, OrderInit DEF Inv
<1>2. Inv /\ [Next]_vars => Inv'
  BY TypeStep, OrderStep DEF Inv
<1> QED BY <1>1, <1>2, PTL DEF Spec

\* The variables of as1_mockup.c's two processes keep their types.
THEOREM TypeCorrect == Spec => []TypeOK
<1>1. Inv => TypeOK
  BY DEF Inv, Typed
<1> QED BY <1>1, Invariance, PTL

\* Whatever the texts, the limits and the timing, the parent's morseBuf holds symbols
\* the child sent, each at most once and in the order they were sent.
THEOREM NothingInvented == Spec => []SubsequenceOfSent
<1>1. Inv => SubsequenceOfSent
  BY DEF Inv, Order
<1> QED BY <1>1, Invariance, PTL

\* A signal delivered late never overtakes a symbol main has read already.
THEOREM LateNeverOvertakes == Spec => []NoOvertaking
<1>1. Inv => NoOvertaking
  BY DEF Inv, Order, PendingLater, FramesLater, NoOvertaking
<1> QED BY <1>1, Invariance, PTL

\* With main's timing, whatever the texts and the limits: the handlers are there before the first
\* signal, as the child sleeps for two seconds and main needs less than that.
THEOREM HandlersInTime ==
  ASSUME SleepTime >= 2
  PROVE  PacedSpec => []NeverKilled
<1>1. Init => Inv /\ Prompt
  BY TypeInit, OrderInit, PacedInit DEF Inv
<1>2. Inv /\ Prompt /\ [PacedStep]_vars => Inv' /\ Prompt'
  BY PacedNext, TypeStep, OrderStep, PromptStep DEF Inv
<1>3. Prompt => NeverKilled
  BY DEF Prompt, NeverKilled
<1> QED BY <1>1, <1>2, <1>3, PTL DEF PacedSpec, PacedStep

\* The part of the invariant that speaks of symbols, under that timing.
LEMMA DeliveryInvariance ==
  ASSUME SleepTime >= 2, SleepTime + 3 <= SilenceLimit
  PROVE  PacedSpec => [](Inv /\ Prompt /\ Delivery /\ Stored /\ Punctual /\ Reads)
<1> DEFINE All == Inv /\ Prompt /\ Delivery /\ Stored /\ Punctual /\ Reads
<1>1. Init => All
  BY TypeInit, OrderInit, PacedInit DEF Inv
<1>2. All /\ [PacedStep]_vars => All'
  <2> SUFFICES ASSUME All, [PacedStep]_vars PROVE All'
    OBVIOUS
  <2>1. [Next]_vars BY PacedNext
  <2>2. Inv' /\ Prompt' BY <2>1, TypeStep, OrderStep, PromptStep DEF Inv
  <2>3. Delivery' /\ Stored' BY <2>1, DeliveryStep, StoredStep
  <2>4. Punctual' /\ Reads' BY <2>1, PunctualStep, ReadsStep
  <2> QED BY <2>2, <2>3, <2>4
<1> QED BY <1>1, <1>2, PTL DEF PacedSpec, PacedStep

\* With that timing and a limit that exceeds the child's silence: the signals deliver every
\* symbol once and in order, so the two processes implement the channel.
THEOREM ImplementsChannel ==
  ASSUME SleepTime >= 2, SleepTime + 3 <= SilenceLimit
  PROVE  PacedSpec => Channel!SafeSpec
<1>1. Init => Channel!Init
  BY PacedInit
<1>2. Inv /\ Delivery /\ [PacedStep]_vars => [Channel!Next]_Channel!vars
  BY PacedNext, ChannelStep
<1> QED BY <1>1, <1>2, DeliveryInvariance, PTL DEF PacedSpec, PacedStep, Channel!SafeSpec

\* And the output of a run that ends well is the normalised input, whenever the codec alone
\* delivers what is read of the texts.
THEOREM Transmitted ==
  ASSUME SleepTime >= 2, SleepTime + 3 <= SilenceLimit, RoundTrips
  PROVE  PacedSpec => []OutputIsInput
<1>1. Init => Writes
  BY PacedInit
<1>2. Inv /\ Delivery /\ Stored /\ Punctual /\ Reads /\ Writes /\ [PacedStep]_vars => Writes'
  BY PacedNext, WritesStep
<1>3. Punctual /\ Writes => OutputIsInput
  BY DEF Punctual, Writes, OutputIsInput
<1> QED BY <1>1, <1>2, <1>3, DeliveryInvariance, PTL DEF PacedSpec, PacedStep
=============================================================================
