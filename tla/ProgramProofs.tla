--------------------------- MODULE ProgramProofs ---------------------------
(***************************************************************************)
(* What the programs of MCPrograms keep, for any number of processes, of   *)
(* messages and of writers: every run is of one program, so the invariant  *)
(* is one invariant per program, kept by the steps of its own program and  *)
(* left alone by the others.  Here are those of msend_*.c with             *)
(* mreceive_*.c and of mpx-*.c; LoopProofs has the others.                 *)
(***************************************************************************)
EXTENDS LoopProofs, WellFoundedInduction

----------------------------------------------------------------------------
(* msend_*.c, mreceive_*.c                                                 *)

\* Where a sender or a receiver may be, a message, and what each has.
QueuesPlaces == {"start", "send", "receive", "remove", "ended", "aborted"}
Messages == [text : Senders, length : Lengths, to : Receivers]

QueuesLocals == [id : [Queues!Actors -> Nat], msize : [Receivers -> Nat], mtext : [Receivers -> Senders \cup {Old}]]

\* A receiver has got the empty message.
Emptied(r) == got[r] # <<>> /\ Queues!Last(got[r]).length = 0

\* System V: whoever has opened a queue has opened one that was there, and each queue that is
\* no more was removed by a receiver that had got the empty message.
MsgInv ==
  /\ os \in [queue : Seq(Messages), exists : BOOLEAN, number : Nat]
  /\ local \in QueuesLocals
  /\ got \in [Receivers -> Seq(Messages)]
  /\ os.exists => os.number # 0
  /\ \A p \in Queues!Actors : local.id[p] <= os.number
  /\ \A p \in Queues!Actors : at[p] \in {"send", "receive", "remove", "ended"} => local.id[p] # 0
  /\ \A r \in Receivers : at[r] \in {"remove", "ended"} => Emptied(r)
  /\ \A n \in 1 .. os.number : (os.exists /\ n = os.number) \/ \E r \in Receivers : at[r] = "ended" /\ local.id[r] = n

\* POSIX queues fail no assertion, and those of System V keep MsgInv.
QueuesInv ==
  /\ program \in {"mq", "msg"} /\ at \in [Queues!Actors -> QueuesPlaces]
  /\ IF program = "msg" THEN MsgInv ELSE \A p \in Queues!Actors : at[p] # "aborted"
  /\ Queues!AbortsExplained

\* At first there is no queue.
LEMMA QueuesStart == Queues!Init => QueuesInv
<1> SUFFICES ASSUME Queues!Init PROVE QueuesInv
  OBVIOUS
<1>1. /\ program \in {"mq", "msg"} /\ at = [p \in Queues!Actors |-> "start"]
      /\ os = [queue |-> <<>>, exists |-> FALSE, number |-> 0]
      /\ local = [id |-> [p \in Queues!Actors |-> 0], msize |-> [r \in Receivers |-> 1],
                  mtext |-> [r \in Receivers |-> Old]]
      /\ got = [r \in Receivers |-> <<>>]
  BY DEF Queues!Init, Queues!Programs
<1>2. MsgInv
  BY <1>1 DEF MsgInv, QueuesLocals, Queues!Actors
<1> QED BY <1>1, <1>2 DEF QueuesInv, QueuesPlaces, Queues!AbortsExplained

\* A step that neither ends a receiver nor changes what an ended one has keeps the reasons for
\* the assertions that have failed.
LEMMA AbortsStay ==
  ASSUME QueuesInv, program' = program, NEW p \in Queues!Actors, NEW to, at' = [at EXCEPT ![p] = to],
         at[p] \notin {"ended", "aborted"}, to # "aborted",
         local.id' = local.id \/ (at[p] = "start" /\ \A q \in Queues!Actors \ {p} : local.id'[q] = local.id[q]),
         \A r \in Receivers \ {p} : got'[r] = got[r]
  PROVE  Queues!AbortsExplained'
<1>1. \A q \in Queues!Actors : at'[q] = "aborted" => at[q] = "aborted" /\ q # p
  BY DEF QueuesInv
<1>2. \A q \in Queues!Actors \ {p} : at'[q] = at[q] /\ local.id'[q] = local.id[q]
  BY DEF QueuesInv
<1>3. ASSUME NEW q \in Queues!Actors, at'[q] = "aborted"
      PROVE  /\ program = "msg"
             /\ \/ q \in Senders /\ local.id'[q] = 0
                \/ \E r \in Queues!Removals' \ {q} : local.id'[r] = local.id'[q] /\ Queues!Last(got'[r]).length = 0
  <2>1. at[q] = "aborted" /\ q # p BY <1>1, <1>3
  <2>2. program = "msg" BY <2>1 DEF QueuesInv, Queues!AbortsExplained
  <2>3. CASE q \in Senders /\ local.id[q] = 0
    BY <1>2, <2>1, <2>2, <2>3
  <2>4. CASE \E r \in Queues!Removals \ {q} : local.id[r] = local.id[q] /\ Queues!Last(got[r]).length = 0
    <3>1. PICK r \in Queues!Removals \ {q} : local.id[r] = local.id[q] /\ Queues!Last(got[r]).length = 0 BY <2>4
    <3>2. r \in Receivers /\ r # p /\ r \in Queues!Actors /\ at[r] = "ended" /\ r # q
      BY <3>1 DEF Queues!Removals, Queues!Actors
    <3>3. at'[r] = "ended" /\ local.id'[r] = local.id'[q] /\ got'[r] = got[r]
      BY <1>2, <2>1, <3>1, <3>2
    <3> QED BY <2>2, <3>1, <3>2, <3>3 DEF Queues!Removals
  <2> QED BY <2>1, <2>3, <2>4 DEF QueuesInv, Queues!AbortsExplained
<1> QED BY <1>3 DEF Queues!AbortsExplained

\* The step that fails an assertion.
LEMMA AbortsNew ==
  ASSUME QueuesInv, program' = program, NEW p \in Queues!Actors, at' = [at EXCEPT ![p] = "aborted"],
         at[p] \notin {"ended", "aborted"}, program = "msg",
         \A q \in Queues!Actors \ {p} : local.id'[q] = local.id[q], got' = got,
         \/ p \in Senders /\ local.id'[p] = 0
         \/ \E r \in Receivers : at[r] = "ended" /\ local.id[r] = local.id'[p]
  PROVE  Queues!AbortsExplained'
<1>1. \A q \in Queues!Actors : at'[q] = "aborted" => at[q] = "aborted" \/ q = p
  BY DEF QueuesInv
<1>2. \A q \in Queues!Actors \ {p} : at'[q] = at[q] /\ local.id'[q] = local.id[q]
  BY DEF QueuesInv
<1>3. ASSUME NEW q \in Queues!Actors, at'[q] = "aborted"
      PROVE  \/ q \in Senders /\ local.id'[q] = 0
             \/ \E r \in Queues!Removals' \ {q} : local.id'[r] = local.id'[q] /\ Queues!Last(got'[r]).length = 0
  <2>1. CASE q \in Senders /\ local.id[q] = 0 /\ q # p
    BY <1>2, <2>1
  <2>2. ASSUME NEW r \in Receivers, at[r] = "ended", local.id[r] = local.id'[q], r # q
        PROVE \E t \in Queues!Removals' \ {q} : local.id'[t] = local.id'[q] /\ Queues!Last(got'[t]).length = 0
    <3>1. r \in Queues!Actors /\ r # p BY <2>2 DEF Queues!Actors
    <3>2. at'[r] = "ended" /\ local.id'[r] = local.id'[q] BY <1>2, <2>2, <3>1
    <3>3. Queues!Last(got'[r]).length = 0 BY <2>2 DEF QueuesInv, MsgInv, Emptied
    <3> QED BY <2>2, <3>2, <3>3 DEF Queues!Removals
  <2>3. CASE q = p
    BY <2>2, <2>3
  <2>4. CASE q # p /\ ~(q \in Senders /\ local.id[q] = 0)
    <3>1. at[q] = "aborted" BY <1>1, <1>3, <2>4
    <3>2. PICK r \in Queues!Removals \ {q} : local.id[r] = local.id[q] BY <2>4, <3>1 DEF QueuesInv,
                                                                                         Queues!AbortsExplained
    <3> QED BY <1>2, <2>2, <2>4, <3>2 DEF Queues!Removals
  <2> QED BY <2>1, <2>3, <2>4
<1> QED BY <1>3 DEF Queues!AbortsExplained

----------------------------------------------------------------------------

\* POSIX: there is no assertion to fail.
LEMMA MqStep ==
  ASSUME QueuesInv, program = "mq", program' = program, NEW p \in Queues!Actors, Queues!Step(p)
  PROVE  QueuesInv'
<1>1. at' = at \/ \E to \in QueuesPlaces \ {"aborted"} : at' = [at EXCEPT ![p] = to]
  BY DEF Queues!Step, Queues!msend_posix, Queues!mreceive_posix, Queues!Find, Queues!Create, Queues!mq_send,
         Queues!mq_receive, Queues!Go, QueuesPlaces
<1>2. \A q \in Queues!Actors : at'[q] # "aborted"
  BY <1>1 DEF QueuesInv
<1> QED BY <1>1, <1>2 DEF QueuesInv, Queues!AbortsExplained

\* A process opens a queue, or is refused one.
LEMMA QueuesOpened ==
  ASSUME local \in QueuesLocals, at \in [Queues!Actors -> QueuesPlaces], NEW p \in Queues!Actors, NEW n \in Nat,
         NEW to \in QueuesPlaces, local' = [local EXCEPT !.id[p] = n], at' = [at EXCEPT ![p] = to]
  PROVE  /\ local' \in QueuesLocals /\ local'.id[p] = n /\ at'[p] = to
         /\ \A q \in Queues!Actors \ {p} : local'.id[q] = local.id[q] /\ at'[q] = at[q]
<1>1. local'.id = [local.id EXCEPT ![p] = n] /\ local' = [local EXCEPT !.id = local'.id]
  BY DEF QueuesLocals
<1>2. /\ local'.id \in [Queues!Actors -> Nat] /\ local'.id[p] = n
      /\ \A q \in Queues!Actors \ {p} : local'.id[q] = local.id[q]
  BY <1>1 DEF QueuesLocals
<1> QED BY <1>1, <1>2 DEF QueuesLocals

\* A step after which whoever is on his way is so with a queue that was opened.
LEMMA MsgCreate ==
  ASSUME QueuesInv, program = "msg", program' = program, NEW r \in Receivers, Queues!Create(r)
  PROVE  QueuesInv'
<1> r \in Queues!Actors BY DEF Queues!Actors
<1>1. /\ at[r] = "start" /\ at' = [at EXCEPT ![r] = "receive"] /\ got' = got
      /\ local' = [local EXCEPT !.id[r] = os'.number]
      /\ os' = IF os.exists THEN os ELSE [queue |-> <<>>, exists |-> TRUE, number |-> os.number + 1]
  BY DEF Queues!Create, Queues!Go, Queues!OpenQueue
<1>2. MsgInv /\ at \in [Queues!Actors -> QueuesPlaces]
  BY DEF QueuesInv
<1>3. /\ os' \in [queue : Seq(Messages), exists : BOOLEAN, number : Nat] /\ os'.exists
      /\ os'.number # 0 /\ os.number <= os'.number
      /\ \A n \in 1 .. os'.number : n \in 1 .. os.number \/ n = os'.number
      /\ \A n \in 1 .. os.number : os.exists /\ n = os.number => n = os'.number
  BY <1>1, <1>2 DEF MsgInv
<1>4. /\ local' \in QueuesLocals
      /\ \A q \in Queues!Actors \ {r} : local'.id[q] = local.id[q] /\ at'[q] = at[q]
      /\ local'.id[r] = os'.number /\ at'[r] = "receive"
  <2>1. os'.number \in Nat /\ "receive" \in QueuesPlaces
        /\ local \in QueuesLocals BY <1>2, <1>3 DEF MsgInv, QueuesPlaces
  <2> QED BY <1>1, <1>2, <2>1, QueuesOpened
<1>5. \A n \in 1 .. os'.number : (os'.exists /\ n = os'.number)
        \/ \E q \in Receivers : at'[q] = "ended" /\ local'.id[q] = n
  <2>1. ASSUME NEW n \in 1 .. os'.number, n # os'.number
        PROVE  \E q \in Receivers : at'[q] = "ended" /\ local'.id[q] = n
    <3>1. PICK q \in Receivers : at[q] = "ended" /\ local.id[q] = n BY <1>2, <1>3, <2>1 DEF MsgInv
    <3> QED BY <1>1, <1>4, <3>1 DEF Queues!Actors
  <2> QED BY <1>3, <2>1
<1>6. \A q \in Receivers : at'[q] \in {"remove", "ended"} => Emptied(q)'
  BY <1>1, <1>2, <1>4 DEF MsgInv, Emptied, Queues!Actors
<1>7. /\ \A q \in Queues!Actors : local'.id[q] <= os'.number
      /\ \A q \in Queues!Actors : at'[q] \in {"send", "receive", "remove", "ended"} => local'.id[q] # 0
  <2>1. \A q \in Queues!Actors \ {r} : local.id[q] \in Nat /\ local.id[q] <= os.number
    BY <1>2 DEF MsgInv, QueuesLocals
  <2>2. os.number \in Nat /\ os'.number \in Nat
    BY <1>2, <1>3 DEF MsgInv
  <2>3. \A q \in Queues!Actors \ {r} : local'.id[q] \in Nat /\ local'.id[q] <= os'.number
    BY <1>3, <1>4, <2>1, <2>2
  <2>4. \A q \in Queues!Actors \ {r} : at'[q] \in {"send", "receive", "remove", "ended"} => local'.id[q] # 0
    BY <1>2, <1>4 DEF MsgInv
  <2> QED BY <1>3, <1>4, <2>2, <2>3, <2>4
<1>8. MsgInv'
  BY <1>1, <1>2, <1>3, <1>4, <1>5, <1>6, <1>7 DEF MsgInv
<1>9. Queues!AbortsExplained'
  BY <1>1, <1>4, AbortsStay
<1> QED BY <1>1, <1>2, <1>8, <1>9 DEF QueuesInv, QueuesPlaces

\* So is a sender that finds a queue; one that finds none fails its assertion.
LEMMA MsgFind ==
  ASSUME QueuesInv, program = "msg", program' = program, NEW s \in Senders, Queues!Find(s)
  PROVE  QueuesInv'
<1> s \in Queues!Actors /\ s \notin Receivers BY MCProgramsAssumption DEF Queues!Actors
<1>1. /\ at[s] = "start" /\ got' = got /\ os' = os
      /\ at' = [at EXCEPT ![s] = IF os.exists THEN "send" ELSE "aborted"]
      /\ local' = [local EXCEPT !.id[s] = IF os.exists THEN os.number ELSE 0]
  BY DEF Queues!Find, Queues!Go, Queues!OpenQueue
<1>2. MsgInv /\ at \in [Queues!Actors -> QueuesPlaces]
  BY DEF QueuesInv
<1>3. /\ local' \in QueuesLocals
      /\ \A q \in Queues!Actors \ {s} : local'.id[q] = local.id[q] /\ at'[q] = at[q]
      /\ local'.id[s] = (IF os.exists THEN os.number ELSE 0) /\ at'[s] = (IF os.exists THEN "send" ELSE "aborted")
  <2>1. local \in QueuesLocals /\ os.number \in Nat BY <1>2 DEF MsgInv
  <2>2. CASE os.exists
    <3>1. local' = [local EXCEPT !.id[s] = os.number] /\ at' = [at EXCEPT ![s] = "send"] BY <1>1, <2>2
    <3>2. "send" \in QueuesPlaces BY DEF QueuesPlaces
    <3>3. /\ local' \in QueuesLocals /\ local'.id[s] = os.number /\ at'[s] = "send"
          /\ \A q \in Queues!Actors \ {s} : local'.id[q] = local.id[q] /\ at'[q] = at[q]
      BY <1>2, <2>1, <3>1, <3>2, QueuesOpened
    <3> QED BY <2>2, <3>3
  <2>3. CASE ~os.exists
    <3>1. local' = [local EXCEPT !.id[s] = 0] /\ at' = [at EXCEPT ![s] = "aborted"] BY <1>1, <2>3
    <3>2. "aborted" \in QueuesPlaces /\ 0 \in Nat BY DEF QueuesPlaces
    <3>3. /\ local' \in QueuesLocals /\ local'.id[s] = 0 /\ at'[s] = "aborted"
          /\ \A q \in Queues!Actors \ {s} : local'.id[q] = local.id[q] /\ at'[q] = at[q]
      BY <1>2, <2>1, <3>1, <3>2, QueuesOpened
    <3> QED BY <2>3, <3>3
  <2> QED BY <2>2, <2>3
<1>4. MsgInv'
  <2>1. os.number \in Nat /\ (os.exists => os.number # 0) /\ os' = os /\ os.exists \in BOOLEAN
    BY <1>1, <1>2 DEF MsgInv
  <2>2. \A q \in Queues!Actors : local'.id[q] <= os'.number
    <3>1. \A q \in Queues!Actors \ {s} : local'.id[q] <= os'.number BY <1>2, <1>3, <2>1 DEF MsgInv
    <3>2. local'.id[s] <= os'.number BY <1>3, <2>1
    <3> QED BY <3>1, <3>2
  <2>3. \A q \in Queues!Actors : at'[q] \in {"send", "receive", "remove", "ended"} => local'.id[q] # 0
    <3>1. \A q \in Queues!Actors \ {s} : at'[q] \in {"send", "receive", "remove", "ended"} => local'.id[q] # 0
      BY <1>2, <1>3 DEF MsgInv
    <3>2. at'[s] = "send" => local'.id[s] # 0 BY <1>3, <2>1
    <3>3. at'[s] \in {"send", "aborted"} BY <1>3
    <3> QED BY <3>1, <3>2, <3>3
  <2>4. \A r \in Receivers : at'[r] = at[r] /\ local'.id[r] = local.id[r]
    BY <1>3 DEF Queues!Actors
  <2>5. \A n \in 1 .. os'.number : (os'.exists /\ n = os'.number)
          \/ \E r \in Receivers : at'[r] = "ended" /\ local'.id[r] = n
    <3>1. \A n \in 1 .. os.number : (os.exists /\ n = os.number)
            \/ \E r \in Receivers : at[r] = "ended" /\ local.id[r] = n
      BY <1>2 DEF MsgInv
    <3> QED BY <2>1, <2>4, <3>1
  <2>6. \A r \in Receivers : at'[r] \in {"remove", "ended"} => Emptied(r)'
    BY <1>1, <1>2, <2>4 DEF MsgInv, Emptied
  <2>7. /\ os' \in [queue : Seq(Messages), exists : BOOLEAN, number : Nat] /\ got' \in [Receivers -> Seq(Messages)]
        /\ os'.exists => os'.number # 0
    BY <1>1, <1>2 DEF MsgInv
  <2> QED BY <1>3, <2>2, <2>3, <2>5, <2>6, <2>7 DEF MsgInv
<1>5. Queues!AbortsExplained'
  <2>1. CASE os.exists
    <3>1. at' = [at EXCEPT ![s] = "send"] BY <1>1, <2>1
    <3>2. /\ at[s] \notin {"ended", "aborted"} /\ at[s] = "start" /\ \A r \in Receivers \ {s} : got'[r] = got[r]
          /\ \A q \in Queues!Actors \ {s} : local.id'[q] = local.id[q]
      BY <1>1, <1>3
    <3> QED BY <3>1, <3>2, AbortsStay
  <2>2. CASE ~os.exists
    <3>1. at' = [at EXCEPT ![s] = "aborted"] /\ local.id'[s] = 0 BY <1>1, <1>3, <2>2
    <3> QED BY <1>1, <1>3, <3>1, AbortsNew
  <2> QED BY <2>1, <2>2
<1> QED BY <1>1, <1>2, <1>4, <1>5 DEF QueuesInv, QueuesPlaces

\* Whoever has no open queue has had one, and an ended receiver has removed it.
LEMMA MsgGone ==
  ASSUME QueuesInv, program = "msg", NEW p \in Queues!Actors, at[p] \in {"send", "receive", "remove"}, ~Queues!Open(p)
  PROVE  \E r \in Receivers : at[r] = "ended" /\ local.id[r] = local.id[p]
<1>1. MsgInv BY DEF QueuesInv
<1>2. local.id[p] \in 1 .. os.number BY <1>1 DEF MsgInv, QueuesLocals
<1> QED BY <1>1, <1>2 DEF MsgInv, Queues!Open

\* A process loses its queue, and fails its assertion.
LEMMA MsgLoses ==
  ASSUME QueuesInv, program = "msg", program' = program, NEW p \in Queues!Actors,
         at[p] \in {"send", "receive", "remove"}, ~Queues!Open(p), at' = [at EXCEPT ![p] = "aborted"],
         UNCHANGED <<os, local, got>>
  PROVE  QueuesInv'
<1>1. MsgInv /\ at \in [Queues!Actors -> QueuesPlaces]
  BY DEF QueuesInv
<1>2. \A q \in Queues!Actors \ {p} : at'[q] = at[q]
  BY <1>1
<1>3. at'[p] = "aborted" /\ at[p] # "ended" BY <1>1
<1>4. \A n \in 1 .. os.number : (os.exists /\ n = os.number) \/ \E r \in Receivers : at'[r] = "ended"
      /\ local.id[r] = n
  <2>1. \A r \in Receivers : at[r] = "ended" => at'[r] = "ended" BY <1>2, <1>3 DEF Queues!Actors
  <2> QED BY <1>1, <2>1 DEF MsgInv
<1>5. MsgInv'
  BY <1>1, <1>2, <1>3, <1>4 DEF MsgInv, Emptied, Queues!Actors
<1>6. Queues!AbortsExplained'
  BY MsgGone, AbortsNew
<1> QED BY <1>1, <1>5, <1>6 DEF QueuesInv, QueuesPlaces

\* A message is sent or received.
LEMMA MsgMoves ==
  ASSUME QueuesInv, program = "msg", program' = program, NEW p \in Queues!Actors, at[p] \in {"send", "receive"},
         NEW to \in {"ended", "receive", "remove"}, at' = [at EXCEPT ![p] = to], to = "ended" => p \notin Receivers,
         NEW queue \in Seq(Messages), os' = [os EXCEPT !.queue = queue], local' = local,
         \A r \in Receivers \ {p} : got'[r] = got[r], got' \in [Receivers -> Seq(Messages)],
         p \in Receivers /\ to = "remove" => Emptied(p)'
  PROVE  QueuesInv'
<1>1. MsgInv /\ at \in [Queues!Actors -> QueuesPlaces]
  BY DEF QueuesInv
<1>2. \A q \in Queues!Actors \ {p} : at'[q] = at[q]
  BY <1>1
<1>3. at'[p] = to /\ at[p] # "ended" BY <1>1
<1>4. \A n \in 1 .. os.number : (os.exists /\ n = os.number) \/ \E r \in Receivers : at'[r] = "ended"
      /\ local.id[r] = n
  <2>1. \A r \in Receivers : at[r] = "ended" => at'[r] = "ended" BY <1>2, <1>3 DEF Queues!Actors
  <2> QED BY <1>1, <2>1 DEF MsgInv
<1>5. /\ os' \in [queue : Seq(Messages), exists : BOOLEAN, number : Nat]
      /\ os'.exists = os.exists /\ os'.number = os.number
  BY <1>1 DEF MsgInv
<1>6. \A r \in Receivers : at'[r] \in {"remove", "ended"} => Emptied(r)'
  BY <1>1, <1>2, <1>3 DEF MsgInv, Emptied, Queues!Actors
<1>7. MsgInv'
  BY <1>1, <1>2, <1>3, <1>4, <1>5, <1>6 DEF MsgInv
<1>8. Queues!AbortsExplained'
  BY <1>3, AbortsStay
<1> QED BY <1>1, <1>7, <1>8 DEF QueuesInv, QueuesPlaces

\* msgsnd puts a message into the queue, or fails when that queue is no more.
LEMMA MsgSend ==
  ASSUME QueuesInv, program = "msg", program' = program, NEW s \in Senders, Queues!msgsnd(s)
  PROVE  QueuesInv'
<1> s \in Queues!Actors /\ s \notin Receivers BY MCProgramsAssumption DEF Queues!Actors
<1>0. MsgInv BY DEF QueuesInv
<1>1. CASE Queues!Go(s, "send", "aborted") /\ ~Queues!Open(s) /\ UNCHANGED <<program, os, local, sent, got>>
  BY <1>1, MsgLoses DEF Queues!Go
<1>2. ASSUME NEW r \in Receivers, NEW length \in Lengths, Queues!Go(s, "send", "ended"),
             os' = [os EXCEPT !.queue = Append(@, [text |-> s, length |-> length, to |-> r])],
             UNCHANGED <<program, local, got>>
      PROVE  QueuesInv'
  <2>1. Append(os.queue, [text |-> s, length |-> length, to |-> r]) \in Seq(Messages)
    BY <1>0 DEF MsgInv, Messages
  <2>2. /\ at[s] \in {"send", "receive"} /\ at' = [at EXCEPT ![s] = "ended"] /\ got \in [Receivers -> Seq(Messages)]
        /\ os' = [os EXCEPT !.queue = Append(os.queue, [text |-> s, length |-> length, to |-> r])]
    BY <1>0, <1>2 DEF MsgInv, Queues!Go
  <2>3. "ended" \in {"ended", "receive", "remove"} OBVIOUS
  <2> QED BY <1>2, <2>1, <2>2, <2>3, MsgMoves
<1> QED BY <1>1, <1>2 DEF Queues!msgsnd

\* msgrcv takes a message, asks again with a larger buffer, or fails when the queue is no more.
LEMMA MsgReceive ==
  ASSUME QueuesInv, program = "msg", program' = program, NEW r \in Receivers, Queues!msgrcv(r)
  PROVE  QueuesInv'
<1> r \in Queues!Actors /\ r \notin Senders BY MCProgramsAssumption DEF Queues!Actors
<1>0. MsgInv BY DEF QueuesInv
<1>1. CASE Queues!Go(r, "receive", "aborted") /\ ~Queues!Open(r) /\ UNCHANGED <<program, os, local, sent, got>>
  BY <1>1, MsgLoses DEF Queues!Go
<1>2. CASE local' = [local EXCEPT !.msize[r] = @ + 1] /\ UNCHANGED <<at, os, got>>
  <2>1. /\ local' \in QueuesLocals
        /\ local'.id = local.id
    <3>1. [local.msize EXCEPT ![r] = @ + 1] \in [Receivers -> Nat]
      BY <1>0 DEF MsgInv, QueuesLocals
    <3> QED BY <1>0, <1>2, <3>1 DEF MsgInv, QueuesLocals
  <2>2. MsgInv'
    <3>1. \A q \in Receivers : Emptied(q)' = Emptied(q) BY <1>2 DEF Emptied
    <3> QED BY <1>0, <1>2, <2>1, <3>1 DEF MsgInv
  <2> QED BY <1>2, <2>1, <2>2 DEF QueuesInv, Queues!AbortsExplained, Queues!Removals
<1>3. ASSUME NEW j \in DOMAIN os.queue,
             Queues!Go(r, "receive", IF os.queue[j].length = 0 THEN "remove" ELSE "receive"),
             os' = [os EXCEPT !.queue = Queues!RemoveAt(@, j)],
             got' = [got EXCEPT ![r] = Append(@, os.queue[j])], local' = local
      PROVE  QueuesInv'
  <2>1. Queues!RemoveAt(os.queue, j) \in Seq(Messages) /\ os.queue[j] \in Messages
    BY <1>0 DEF MsgInv, Queues!RemoveAt
  <2>2. got' \in [Receivers -> Seq(Messages)] /\ got'[r] # <<>> /\ Queues!Last(got'[r]) = os.queue[j]
    <3>1. got[r] \in Seq(Messages) /\ got' = [got EXCEPT ![r] = Append(got[r], os.queue[j])] BY <1>0, <1>3 DEF MsgInv
    <3>2. Append(got[r], os.queue[j]) \in Seq(Messages) BY <2>1, <3>1
    <3>3. got'[r] = Append(got[r], os.queue[j]) BY <1>0, <3>1 DEF MsgInv
    <3>4. Len(got'[r]) = Len(got[r]) + 1 /\ got'[r][Len(got[r]) + 1] = os.queue[j] BY <2>1, <3>1, <3>3
    <3>5. got' \in [Receivers -> Seq(Messages)] BY <1>0, <3>1, <3>2 DEF MsgInv
    <3> QED BY <2>1, <3>1, <3>2, <3>3, <3>4, <3>5 DEF Queues!Last
  <2>3. \A q \in Receivers \ {r} : got'[q] = got[q]
    BY <1>0, <1>3 DEF MsgInv
  <2>4. \E to \in {"ended", "receive", "remove"} :
          at' = [at EXCEPT ![r] = to] /\ to # "ended" /\ (to = "remove" => os.queue[j].length = 0)
    BY <1>3 DEF Queues!Go
  <2>5. PICK to \in {"ended", "receive", "remove"} :
          at' = [at EXCEPT ![r] = to] /\ to # "ended" /\ (to = "remove" => os.queue[j].length = 0)
    BY <2>4
  <2>6. to = "remove" => Emptied(r)' BY <2>2, <2>5 DEF Emptied
  <2>7. at[r] \in {"send", "receive"} BY <1>3 DEF Queues!Go
  <2>8. os' = [os EXCEPT !.queue = Queues!RemoveAt(os.queue, j)] BY <1>0, <1>3 DEF MsgInv
  <2> QED BY <1>3, <2>1, <2>2, <2>3, <2>5, <2>6, <2>7, <2>8, MsgMoves
<1> QED BY <1>1, <1>2, <1>3 DEF Queues!msgrcv

\* msgctl removes a queue that is there after the empty message, or fails when another has.
LEMMA MsgRemove ==
  ASSUME QueuesInv, program = "msg", program' = program, NEW r \in Receivers, Queues!msgctl(r)
  PROVE  QueuesInv'
<1> r \in Queues!Actors /\ r \notin Senders BY MCProgramsAssumption DEF Queues!Actors
<1>1. MsgInv /\ at \in [Queues!Actors -> QueuesPlaces] /\ at[r] = "remove" BY DEF QueuesInv, Queues!msgctl
<1>2. CASE ~Queues!Open(r)
  BY <1>1, <1>2, MsgLoses DEF Queues!msgctl, Queues!Go
<1>3. CASE Queues!Open(r)
  <2>1. /\ at' = [at EXCEPT ![r] = "ended"] /\ UNCHANGED <<local, got>>
        /\ os' = [os EXCEPT !.queue = <<>>, !.exists = FALSE] /\ local.id[r] = os.number
    BY <1>3 DEF Queues!msgctl, Queues!Go, Queues!Open
  <2>2. /\ \A q \in Queues!Actors \ {r} : at'[q] = at[q]
        /\ at'[r] = "ended"
        /\ os' \in [queue : Seq(Messages), exists : BOOLEAN, number : Nat] /\ ~os'.exists /\ os'.number = os.number
    <3>1. at'[r] = "ended" /\ \A q \in Queues!Actors \ {r} : at'[q] = at[q] BY <1>1, <2>1
    <3>2. os' = [queue |-> <<>>, exists |-> FALSE, number |-> os.number] BY <1>1, <2>1 DEF MsgInv
    <3>3. <<>> \in Seq(Messages) /\ os.number \in Nat BY <1>1 DEF MsgInv
    <3> QED BY <3>1, <3>2, <3>3
  <2>3. \A n \in 1 .. os.number : \E q \in Receivers : at'[q] = "ended" /\ local.id[q] = n
    <3>1. \A q \in Receivers : at[q] = "ended" => at'[q] = "ended" BY <2>2 DEF Queues!Actors
    <3> QED BY <1>1, <2>1, <2>2, <3>1 DEF MsgInv
  <2>4. \A q \in Receivers : at'[q] \in {"remove", "ended"} => Emptied(q)'
    BY <1>1, <2>1, <2>2 DEF MsgInv, Emptied, Queues!Actors
  <2>5. MsgInv'
    BY <1>1, <2>1, <2>2, <2>3, <2>4 DEF MsgInv
  <2>6. Queues!AbortsExplained'
    BY <1>1, <2>1, AbortsStay
  <2> QED BY <1>1, <2>1, <2>5, <2>6 DEF QueuesInv, QueuesPlaces
<1> QED BY <1>2, <1>3

\* Every step of a sender or a receiver, of POSIX or of System V queues.
LEMMA QueuesStep == QueuesInv /\ [Queues!Next]_vars => QueuesInv'
<1> SUFFICES ASSUME QueuesInv, [Queues!Next]_vars PROVE QueuesInv'
  OBVIOUS
<1>1. CASE UNCHANGED vars
  BY <1>1 DEF vars, QueuesInv, MsgInv, Emptied, Queues!AbortsExplained, Queues!Removals
<1>2. CASE Queues!Next
  <2>1. program' = program /\ program \in {"mq", "msg"} BY <1>2, QueuesStays DEF QueuesInv
  <2>2. PICK p \in Queues!Actors : Queues!Step(p) BY <1>2 DEF Queues!Next
  <2>3. CASE program = "mq" BY <2>1, <2>2, <2>3, MqStep
  <2>4. CASE program = "msg"
    BY <2>1, <2>2, <2>4, MsgCreate, MsgFind, MsgSend, MsgReceive, MsgRemove
       DEF Queues!Step, Queues!msend_sysv, Queues!mreceive_sysv, Queues!Actors
  <2> QED BY <2>1, <2>3, <2>4
<1> QED BY <1>1, <1>2

----------------------------------------------------------------------------
(* msend_sysv.c, mreceive_sysv.c                                           *)

\* The queue holds what was sent to r after the n-th message, in order; pos says where.
Rest(pos, queue, all, n, r) ==
  /\ pos \in [1 .. Len(all) - n -> 1 .. Len(queue)]
  /\ \A i, j \in 1 .. Len(all) - n : i < j => pos[i] < pos[j]
  /\ \A i \in 1 .. Len(all) - n : queue[pos[i]] = all[n + i]
  /\ \A j \in 1 .. Len(queue) : queue[j].to = r => \E i \in 1 .. Len(all) - n : pos[i] = j

HasRest(queue, all, n, r) == \E pos : Rest(pos, queue, all, n, r)

\* Receiver r has got the first of its messages, and the others are in the queue.
GotFirst(r) ==
  /\ Len(got[r]) <= Len(sent[r]) /\ \A n \in 1 .. Len(got[r]) : got[r][n] = sent[r][n]
  /\ HasRest(os.queue, sent[r], Len(got[r]), r)

\* So has each, as long as no receiver has removed the queue.
MsgOrder ==
  /\ sent \in [Receivers -> Seq(Messages)]
  /\ \A r \in Receivers : \A n \in 1 .. Len(sent[r]) : sent[r][n].to = r
  /\ ~os.exists => os.queue = <<>>
  /\ Queues!Removals = {} => \A r \in Receivers : GotFirst(r)

\* A sequence without its j-th element.
LEMMA RemoveAtProperties ==
  ASSUME NEW S, NEW s \in Seq(S), NEW j \in 1 .. Len(s)
  PROVE  /\ Queues!RemoveAt(s, j) \in Seq(S) /\ Len(Queues!RemoveAt(s, j)) = Len(s) - 1
         /\ \A i \in 1 .. Len(s) - 1 : Queues!RemoveAt(s, j)[i] = IF i < j THEN s[i] ELSE s[i + 1]
<1>1. Len(s) \in Nat /\ \A i \in 1 .. Len(s) : s[i] \in S
  BY LenProperties, ElementOfSeq
<1>2. /\ SubSeq(s, 1, j - 1) \in Seq(S) /\ Len(SubSeq(s, 1, j - 1)) = j - 1
      /\ \A i \in 1 .. j - 1 : SubSeq(s, 1, j - 1)[i] = s[i]
  <2>1. j - 1 \in Int /\ \A i \in 1 .. j - 1 : s[i] \in S
    BY <1>1
  <2>2. /\ SubSeq(s, 1, j - 1) \in Seq(S) /\ Len(SubSeq(s, 1, j - 1)) = IF 1 <= j - 1 THEN j - 1 - 1 + 1 ELSE 0
        /\ \A i \in 1 .. j - 1 - 1 + 1 : SubSeq(s, 1, j - 1)[i] = s[1 + i - 1]
    BY <2>1, SubSeqProperties
  <2> QED BY <1>1, <2>2
<1>3. /\ SubSeq(s, j + 1, Len(s)) \in Seq(S) /\ Len(SubSeq(s, j + 1, Len(s))) = Len(s) - j
      /\ \A i \in 1 .. Len(s) - j : SubSeq(s, j + 1, Len(s))[i] = s[j + i]
  <2>1. j + 1 \in Int /\ Len(s) \in Int /\ \A i \in j + 1 .. Len(s) : s[i] \in S
    BY <1>1
  <2>2. /\ SubSeq(s, j + 1, Len(s)) \in Seq(S)
        /\ Len(SubSeq(s, j + 1, Len(s))) = IF j + 1 <= Len(s) THEN Len(s) - (j + 1) + 1 ELSE 0
        /\ \A i \in 1 .. Len(s) - (j + 1) + 1 : SubSeq(s, j + 1, Len(s))[i] = s[j + 1 + i - 1]
    BY <2>1, SubSeqProperties
  <2> QED BY <1>1, <2>2
<1>4. PICK a, b : a = SubSeq(s, 1, j - 1) /\ b = SubSeq(s, j + 1, Len(s))
  OBVIOUS
<1>5. PICK l \in Nat : l = Len(s)
  BY <1>1
<1>6. a \in Seq(S) /\ b \in Seq(S) /\ Len(a) = j - 1 /\ Len(b) = l - j /\ Queues!RemoveAt(s, j) = a \o b
  BY <1>2, <1>3, <1>4, <1>5 DEF Queues!RemoveAt
<1>7. /\ a \o b \in Seq(S) /\ Len(a \o b) = (j - 1) + (l - j)
      /\ \A i \in 1 .. (j - 1) + (l - j) : (a \o b)[i] = IF i <= j - 1 THEN a[i] ELSE b[i - (j - 1)]
  <2>1. /\ a \o b \in Seq(S) /\ Len(a \o b) = Len(a) + Len(b)
        /\ \A i \in 1 .. Len(a) + Len(b) : (a \o b)[i] = IF i <= Len(a) THEN a[i] ELSE b[i - Len(a)]
    BY <1>6, ConcatProperties
  <2> QED BY <1>6, <2>1
<1>8. j \in 1 .. l /\ (j - 1) + (l - j) = l - 1
  BY <1>5
<1>9. \A i \in 1 .. l - 1 : (a \o b)[i] = IF i < j THEN s[i] ELSE s[i + 1]
  <2> TAKE i \in 1 .. l - 1
  <2>1. (a \o b)[i] = IF i <= j - 1 THEN a[i] ELSE b[i - (j - 1)]
    BY <1>7, <1>8
  <2>2. CASE i < j
    <3>1. i \in 1 .. j - 1 /\ i <= j - 1
      BY <1>8, <2>2
    <3>2. a[i] = s[i]
      BY <1>2, <1>4, <3>1
    <3> QED BY <2>1, <2>2, <3>1, <3>2
  <2>3. CASE ~(i < j)
    <3>1. i - (j - 1) \in 1 .. l - j /\ j + (i - (j - 1)) = i + 1 /\ ~(i <= j - 1)
      BY <1>8, <2>3
    <3>2. b[i - (j - 1)] = s[j + (i - (j - 1))]
      BY <1>3, <1>4, <1>5, <3>1
    <3> QED BY <2>1, <2>3, <3>1, <3>2
  <2> QED BY <2>2, <2>3
<1> QED BY <1>5, <1>6, <1>7, <1>8, <1>9

\* What remains of a sequence after its n-th element.
LEMMA Remainder ==
  ASSUME NEW S, NEW s \in Seq(S), NEW n \in Nat, n <= Len(s)
  PROVE  \E k \in Nat : /\ k = Len(s) - n /\ n + k = Len(s) /\ Len(s) - (n + 1) = k - 1 /\ Len(s) + 1 - n = k + 1
                        /\ \A i \in 1 .. k : n + i \in 1 .. Len(s)
<1>1. PICK l \in Nat : l = Len(s) /\ n <= l
  BY LenProperties
<1>2. l - n \in Nat
  BY <1>1
<1> DEFINE k == l - n
<1>3. /\ k = l - n /\ n + k = l /\ l - (n + 1) = k - 1 /\ l + 1 - n = k + 1
      /\ \A i \in 1 .. k : n + i \in 1 .. l
  BY <1>2
<1> HIDE DEF k
<1> QED BY <1>1, <1>2, <1>3 DEF k

\* A message to r comes to the end of the queue.
LEMMA RestAppended ==
  ASSUME NEW S, NEW queue \in Seq(S), NEW all \in Seq(S), NEW n \in Nat, n <= Len(all), NEW r, NEW m \in S,
         m.to = r, HasRest(queue, all, n, r)
  PROVE  HasRest(Append(queue, m), Append(all, m), n, r)
<1>1. /\ Append(queue, m) \in Seq(S) /\ Len(queue) \in Nat /\ Len(Append(queue, m)) = Len(queue) + 1
      /\ \A i \in 1 .. Len(queue) : Append(queue, m)[i] = queue[i]
      /\ Append(queue, m)[Len(queue) + 1] = m
  BY OneMore
<1>2. /\ Append(all, m) \in Seq(S) /\ Len(all) \in Nat /\ Len(Append(all, m)) = Len(all) + 1
      /\ \A i \in 1 .. Len(all) : Append(all, m)[i] = all[i]
      /\ Append(all, m)[Len(all) + 1] = m
  BY OneMore
<1>3. PICK k \in Nat : /\ k = Len(all) - n /\ n + k = Len(all) /\ Len(all) + 1 - n = k + 1
                       /\ \A i \in 1 .. k : n + i \in 1 .. Len(all)
  BY Remainder
<1>4. PICK l \in Nat : l = Len(queue) BY <1>1
<1>5. PICK pos : Rest(pos, queue, all, n, r) BY DEF HasRest
<1>6. /\ pos \in [1 .. k -> 1 .. l] /\ \A i, j \in 1 .. k : i < j => pos[i] < pos[j]
      /\ \A i \in 1 .. k : queue[pos[i]] = all[n + i]
      /\ \A j \in 1 .. l : queue[j].to = r => \E i \in 1 .. k : pos[i] = j
  BY <1>3, <1>4, <1>5 DEF Rest
<1>7. PICK p : p = [i \in 1 .. k + 1 |-> IF i = k + 1 THEN l + 1 ELSE pos[i]] OBVIOUS
<1>8. \A i \in 1 .. k : pos[i] \in 1 .. l /\ n + i \in 1 .. Len(all) BY <1>3, <1>6
<1>9. p[k + 1] = l + 1 /\ \A i \in 1 .. k : p[i] = pos[i] BY <1>7
<1>10. p \in [1 .. k + 1 -> 1 .. l + 1] BY <1>7, <1>8
<1>11. \A i, j \in 1 .. k + 1 : i < j => p[i] < p[j]
  <2> TAKE i, j \in 1 .. k + 1
  <2>1. CASE j = k + 1 BY <1>8, <1>9, <2>1
  <2>2. CASE j # k + 1 BY <1>6, <1>9, <2>2
  <2> QED BY <2>1, <2>2
<1>12. \A i \in 1 .. k + 1 : Append(queue, m)[p[i]] = Append(all, m)[n + i]
  <2>1. \A i \in 1 .. k : Append(queue, m)[p[i]] = Append(all, m)[n + i]
    BY <1>1, <1>2, <1>3, <1>4, <1>6, <1>8, <1>9
  <2>2. n + (k + 1) = Len(all) + 1 BY <1>3
  <2>3. Append(queue, m)[p[k + 1]] = Append(all, m)[n + (k + 1)] BY <1>1, <1>2, <1>4, <1>9, <2>2
  <2>4. \A i \in 1 .. k + 1 : i \in 1 .. k \/ i = k + 1 OBVIOUS
  <2> QED BY <2>1, <2>3, <2>4, Zenon
<1>13. \A j \in 1 .. l + 1 : Append(queue, m)[j].to = r => \E i \in 1 .. k + 1 : p[i] = j
  <2> TAKE j \in 1 .. l + 1
  <2>1. CASE j = l + 1 BY <1>9, <2>1
  <2>2. CASE j # l + 1
    <3>1. j \in 1 .. l BY <2>2
    <3>2. Append(queue, m)[j] = queue[j] BY <1>1, <1>4, <3>1
    <3>3. \A i \in 1 .. k : i \in 1 .. k + 1 /\ p[i] = pos[i] BY <1>9
    <3> QED BY <1>6, <3>1, <3>2, <3>3, Zenon
  <2> QED BY <2>1, <2>2
<1>14. Len(Append(all, m)) - n = k + 1 /\ Len(Append(queue, m)) = l + 1
  <2>1. Len(Append(all, m)) - n = Len(all) + 1 - n BY <1>2
  <2> QED BY <1>1, <1>3, <1>4, <2>1, Zenon
<1>15. Rest(p, Append(queue, m), Append(all, m), n, r)
  BY <1>10, <1>11, <1>12, <1>13, <1>14 DEF Rest
<1> QED BY <1>15 DEF HasRest

\* A message to another receiver does.
LEMMA RestPassed ==
  ASSUME NEW S, NEW queue \in Seq(S), NEW all \in Seq(S), NEW n \in Nat, n <= Len(all), NEW r, NEW m \in S,
         m.to # r, HasRest(queue, all, n, r)
  PROVE  HasRest(Append(queue, m), all, n, r)
<1>1. /\ Append(queue, m) \in Seq(S) /\ Len(queue) \in Nat /\ Len(Append(queue, m)) = Len(queue) + 1
      /\ \A i \in 1 .. Len(queue) : Append(queue, m)[i] = queue[i]
      /\ Append(queue, m)[Len(queue) + 1] = m
  BY OneMore
<1>2. PICK k \in Nat : k = Len(all) - n BY Remainder
<1>3. PICK l \in Nat : l = Len(queue) BY <1>1
<1>4. PICK pos : Rest(pos, queue, all, n, r) BY DEF HasRest
<1>5. /\ pos \in [1 .. k -> 1 .. l] /\ \A i, j \in 1 .. k : i < j => pos[i] < pos[j]
      /\ \A i \in 1 .. k : queue[pos[i]] = all[n + i]
      /\ \A j \in 1 .. l : queue[j].to = r => \E i \in 1 .. k : pos[i] = j
  BY <1>2, <1>3, <1>4 DEF Rest
<1>6. \A i \in 1 .. k : pos[i] \in 1 .. l BY <1>5
<1>7. pos \in [1 .. k -> 1 .. l + 1] BY <1>5
<1>8. \A i \in 1 .. k : Append(queue, m)[pos[i]] = all[n + i] BY <1>1, <1>3, <1>5, <1>6
<1>9. \A j \in 1 .. l + 1 : Append(queue, m)[j].to = r => \E i \in 1 .. k : pos[i] = j
  <2> TAKE j \in 1 .. l + 1
  <2>1. CASE j = l + 1 BY <1>1, <1>3, <2>1
  <2>2. CASE j # l + 1
    <3>1. j \in 1 .. l BY <2>2
    <3> QED BY <1>1, <1>3, <1>5, <3>1
  <2> QED BY <2>1, <2>2
<1>10. Rest(pos, Append(queue, m), all, n, r)
  BY <1>1, <1>2, <1>3, <1>5, <1>7, <1>8, <1>9 DEF Rest
<1> QED BY <1>10 DEF HasRest

\* The first message to r is the next of those that were sent to it.
LEMMA RestTaken ==
  ASSUME NEW S, NEW queue \in Seq(S), NEW all \in Seq(S), NEW n \in Nat, n <= Len(all), NEW r,
         \A i \in 1 .. Len(all) : all[i].to = r, HasRest(queue, all, n, r),
         NEW j \in 1 .. Len(queue), queue[j].to = r, \A i \in 1 .. j - 1 : queue[i].to # r
  PROVE  /\ n + 1 <= Len(all) /\ queue[j] = all[n + 1]
         /\ HasRest(Queues!RemoveAt(queue, j), all, n + 1, r)
<1>1. PICK k \in Nat : /\ k = Len(all) - n /\ n + k = Len(all) /\ Len(all) - (n + 1) = k - 1
                       /\ \A i \in 1 .. k : n + i \in 1 .. Len(all)
  BY Remainder
<1>2. PICK l \in Nat : l = Len(queue) BY LenProperties
<1>3. PICK pos : Rest(pos, queue, all, n, r) BY DEF HasRest
<1>4. /\ pos \in [1 .. k -> 1 .. l] /\ \A i, h \in 1 .. k : i < h => pos[i] < pos[h]
      /\ \A i \in 1 .. k : queue[pos[i]] = all[n + i]
      /\ \A h \in 1 .. l : queue[h].to = r => \E i \in 1 .. k : pos[i] = h
  BY <1>1, <1>2, <1>3 DEF Rest
<1>5. \A i \in 1 .. k : pos[i] \in 1 .. l /\ n + i \in 1 .. Len(all) BY <1>1, <1>4
<1>6. \A i \in 1 .. k : ~(pos[i] < j)
  <2> SUFFICES ASSUME NEW i \in 1 .. k, pos[i] < j PROVE FALSE OBVIOUS
  <2>1. pos[i] \in 1 .. j - 1 BY <1>2, <1>5
  <2>2. all[n + i].to = r BY <1>5
  <2>3. queue[pos[i]].to = r BY <1>4, <2>2
  <2> QED BY <2>1, <2>3
<1>7. PICK first \in 1 .. k : pos[first] = j BY <1>2, <1>4
<1>8. first = 1
  <2>1. 1 \in 1 .. k BY <1>7
  <2>2. first # 1 => pos[1] < pos[first] BY <1>4, <1>7, <2>1
  <2> QED BY <1>6, <1>7, <2>1, <2>2
<1>9. n + 1 <= Len(all) /\ queue[j] = all[n + 1] BY <1>1, <1>4, <1>7, <1>8
<1>10. PICK p : p = [i \in 1 .. k - 1 |-> pos[i + 1] - 1] OBVIOUS
<1>11. \A i \in 1 .. k - 1 : i + 1 \in 1 .. k /\ pos[i + 1] \in j + 1 .. l /\ p[i] = pos[i + 1] - 1
  <2> TAKE i \in 1 .. k - 1
  <2>1. 1 \in 1 .. k /\ i + 1 \in 1 .. k /\ 1 < i + 1 OBVIOUS
  <2>2. pos[1] < pos[i + 1] BY <1>4, <2>1
  <2>3. pos[i + 1] \in 1 .. l /\ pos[1] = j BY <1>5, <1>7, <1>8, <2>1
  <2> QED BY <1>10, <2>1, <2>2, <2>3
<1>12. p \in [1 .. k - 1 -> 1 .. l - 1] BY <1>2, <1>10, <1>11
<1>13. \A i, h \in 1 .. k - 1 : i < h => p[i] < p[h]
  <2> TAKE i, h \in 1 .. k - 1
  <2>1. i < h => pos[i + 1] < pos[h + 1]
    <3>1. i + 1 \in 1 .. k /\ h + 1 \in 1 .. k /\ (i < h => i + 1 < h + 1) BY <1>11
    <3> QED BY <1>4, <3>1, Zenon
  <2> QED BY <1>11, <2>1
<1>14. PICK rest : rest = Queues!RemoveAt(queue, j) OBVIOUS
<1>15. Len(rest) = l - 1 /\ \A i \in 1 .. l - 1 : rest[i] = IF i < j THEN queue[i] ELSE queue[i + 1]
  BY <1>2, <1>14, RemoveAtProperties
<1>16. \A i \in 1 .. k - 1 : rest[p[i]] = all[n + 1 + i]
  <2> TAKE i \in 1 .. k - 1
  <2>1. p[i] \in 1 .. l - 1 /\ ~(p[i] < j) /\ p[i] + 1 = pos[i + 1] BY <1>2, <1>11
  <2>2. rest[p[i]] = queue[pos[i + 1]] BY <1>15, <2>1
  <2>3. queue[pos[i + 1]] = all[n + (i + 1)] BY <1>4, <1>11
  <2>4. n + (i + 1) = n + 1 + i OBVIOUS
  <2> QED BY <2>2, <2>3, <2>4
<1>17. \A h \in 1 .. l - 1 : rest[h].to = r => \E i \in 1 .. k - 1 : p[i] = h
  <2> SUFFICES ASSUME NEW h \in 1 .. l - 1, rest[h].to = r PROVE \E i \in 1 .. k - 1 : p[i] = h OBVIOUS
  <2>1. ~(h < j)
    <3> SUFFICES ASSUME h < j PROVE FALSE OBVIOUS
    <3>1. rest[h] = queue[h] /\ h \in 1 .. j - 1 BY <1>2, <1>15
    <3> QED BY <3>1
  <2>2. queue[h + 1].to = r /\ h + 1 \in 1 .. l /\ h + 1 # j BY <1>2, <1>15, <2>1
  <2>3. PICK i \in 1 .. k : pos[i] = h + 1 BY <1>4, <2>2
  <2>4. i # 1 BY <1>7, <1>8, <2>2, <2>3
  <2>5. i - 1 \in 1 .. k - 1 /\ (i - 1) + 1 = i BY <2>4
  <2>6. p[i - 1] = pos[i] - 1 BY <1>11, <2>5
  <2>7. p[i - 1] = h BY <2>3, <2>6
  <2> QED BY <2>5, <2>7
<1>18. Len(all) - (n + 1) = k - 1 BY <1>1
<1>19. Rest(p, rest, all, n + 1, r)
  BY <1>12, <1>13, <1>15, <1>16, <1>17, <1>18 DEF Rest
<1> QED BY <1>9, <1>14, <1>19 DEF HasRest

\* Another receiver takes a message.
LEMMA RestLeft ==
  ASSUME NEW S, NEW queue \in Seq(S), NEW all \in Seq(S), NEW n \in Nat, n <= Len(all), NEW r,
         \A i \in 1 .. Len(all) : all[i].to = r, HasRest(queue, all, n, r),
         NEW j \in 1 .. Len(queue), queue[j].to # r
  PROVE  HasRest(Queues!RemoveAt(queue, j), all, n, r)
<1>1. PICK k \in Nat : /\ k = Len(all) - n /\ n + k = Len(all) /\ Len(all) - (n + 1) = k - 1
                       /\ \A i \in 1 .. k : n + i \in 1 .. Len(all)
  BY Remainder
<1>2. PICK l \in Nat : l = Len(queue) BY LenProperties
<1>3. PICK pos : Rest(pos, queue, all, n, r) BY DEF HasRest
<1>4. /\ pos \in [1 .. k -> 1 .. l] /\ \A i, h \in 1 .. k : i < h => pos[i] < pos[h]
      /\ \A i \in 1 .. k : queue[pos[i]] = all[n + i]
      /\ \A h \in 1 .. l : queue[h].to = r => \E i \in 1 .. k : pos[i] = h
  BY <1>1, <1>2, <1>3 DEF Rest
<1>5. \A i \in 1 .. k : pos[i] \in 1 .. l /\ n + i \in 1 .. Len(all) BY <1>1, <1>4
<1>6. \A i \in 1 .. k : pos[i] # j
  <2> TAKE i \in 1 .. k
  <2>1. all[n + i].to = r BY <1>5
  <2>2. queue[pos[i]].to = r BY <1>4, <2>1
  <2> QED BY <2>2
<1>7. PICK p : p = [i \in 1 .. k |-> IF pos[i] < j THEN pos[i] ELSE pos[i] - 1] OBVIOUS
<1>8. \A i \in 1 .. k : p[i] = IF pos[i] < j THEN pos[i] ELSE pos[i] - 1 BY <1>7
<1>9. \A i \in 1 .. k : p[i] \in 1 .. l - 1
  <2> TAKE i \in 1 .. k
  <2>1. pos[i] \in 1 .. l /\ j \in 1 .. l /\ pos[i] # j BY <1>2, <1>5, <1>6
  <2> QED BY <1>8, <2>1
<1>10. p \in [1 .. k -> 1 .. l - 1] BY <1>7, <1>8, <1>9
<1>11. \A i, h \in 1 .. k : i < h => p[i] < p[h]
  <2> TAKE i, h \in 1 .. k
  <2>1. pos[i] \in 1 .. l /\ pos[h] \in 1 .. l /\ pos[i] # j /\ pos[h] # j /\ j \in 1 .. l BY <1>2, <1>5, <1>6
  <2>2. i < h => pos[i] < pos[h] BY <1>4
  <2>3. /\ p[i] = IF pos[i] < j THEN pos[i] ELSE pos[i] - 1
        /\ p[h] = IF pos[h] < j THEN pos[h] ELSE pos[h] - 1
    BY <1>8
  <2> QED BY <2>1, <2>2, <2>3
<1>12. PICK rest : rest = Queues!RemoveAt(queue, j) OBVIOUS
<1>13. Len(rest) = l - 1 /\ \A i \in 1 .. l - 1 : rest[i] = IF i < j THEN queue[i] ELSE queue[i + 1]
  BY <1>2, <1>12, RemoveAtProperties
<1>14. \A i \in 1 .. k : rest[p[i]] = all[n + i]
  <2> TAKE i \in 1 .. k
  <2>1. pos[i] \in 1 .. l /\ pos[i] # j /\ j \in 1 .. l BY <1>2, <1>5, <1>6
  <2>2. CASE pos[i] < j
    <3>1. p[i] = pos[i] /\ p[i] < j BY <1>8, <2>2
    <3>2. rest[p[i]] = queue[pos[i]] BY <1>9, <1>13, <3>1
    <3> QED BY <1>4, <3>2
  <2>3. CASE ~(pos[i] < j)
    <3>1. p[i] + 1 = pos[i] /\ ~(p[i] < j) BY <1>8, <2>1, <2>3
    <3>2. rest[p[i]] = queue[pos[i]] BY <1>9, <1>13, <3>1
    <3> QED BY <1>4, <3>2
  <2> QED BY <2>2, <2>3
<1>15. \A h \in 1 .. l - 1 : rest[h].to = r => \E i \in 1 .. k : p[i] = h
  <2> SUFFICES ASSUME NEW h \in 1 .. l - 1, rest[h].to = r PROVE \E i \in 1 .. k : p[i] = h OBVIOUS
  <2>1. CASE h < j
    <3>1. h \in 1 .. l /\ queue[h].to = r BY <1>2, <1>13, <2>1
    <3>2. PICK i \in 1 .. k : pos[i] = h BY <1>4, <3>1
    <3> QED BY <1>8, <2>1, <3>2
  <2>2. CASE ~(h < j)
    <3>1. h + 1 \in 1 .. l /\ queue[h + 1].to = r BY <1>2, <1>13, <2>2
    <3>2. PICK i \in 1 .. k : pos[i] = h + 1 BY <1>4, <3>1
    <3>3. ~(h + 1 < j) /\ (h + 1) - 1 = h BY <1>2, <2>2
    <3>4. p[i] = h BY <1>8, <3>2, <3>3
    <3> QED BY <3>4
  <2> QED BY <2>1, <2>2
<1>16. Rest(p, rest, all, n, r)
  BY <1>1, <1>10, <1>11, <1>13, <1>14, <1>15 DEF Rest
<1> QED BY <1>12, <1>16 DEF HasRest

----------------------------------------------------------------------------

\* At first nothing was sent.
LEMMA MsgOrderStarts == Queues!Init /\ program = "msg" => MsgOrder
<1> SUFFICES ASSUME Queues!Init, program = "msg" PROVE MsgOrder
  OBVIOUS
<1>1. /\ os = [queue |-> <<>>, exists |-> FALSE, number |-> 0]
      /\ sent = [r \in Receivers |-> <<>>] /\ got = [r \in Receivers |-> <<>>]
  BY DEF Queues!Init
<1>2. ASSUME NEW r \in Receivers PROVE GotFirst(r)
  <2>1. sent[r] = <<>> /\ got[r] = <<>> /\ os.queue = <<>>
    BY <1>1
  <2>2. PICK p : p = [i \in 1 .. 0 |-> i]
    OBVIOUS
  <2>3. p \in [1 .. Len(sent[r]) - Len(got[r]) -> 1 .. Len(os.queue)]
    BY <2>1, <2>2
  <2>4. Rest(p, os.queue, sent[r], Len(got[r]), r)
    BY <2>1, <2>3 DEF Rest
  <2> QED BY <2>1, <2>4 DEF GotFirst, HasRest
<1> QED BY <1>1, <1>2 DEF MsgOrder

\* Whoever has removed the queue has ended, so a receiver that has is one for good.
LEMMA RemovalsStay ==
  ASSUME program = "msg", program' = program, at \in [Queues!Actors -> QueuesPlaces],
         at' = at \/ \E p, to : at[p] # "ended" /\ at' = [at EXCEPT ![p] = to], Queues!Removals' = {}
  PROVE  Queues!Removals = {}
<1> SUFFICES ASSUME NEW r \in Receivers, at[r] = "ended" PROVE FALSE
  BY DEF Queues!Removals
<1>1. r \in Queues!Actors BY DEF Queues!Actors
<1>2. at'[r] = "ended" BY <1>1
<1> QED BY <1>2 DEF Queues!Removals

\* A step that changes neither the messages in the queue nor what was sent and received.
LEMMA MsgOrderStays ==
  ASSUME MsgOrder, UNCHANGED <<sent, got>>, os'.queue = os.queue, os.exists => os'.exists,
         Queues!Removals' = {} => Queues!Removals = {}
  PROVE  MsgOrder'
<1>1. \A r \in Receivers : GotFirst(r) => GotFirst(r)'
  BY DEF GotFirst
<1> QED BY <1>1 DEF MsgOrder

\* A message is sent.
LEMMA MsgOrderSent ==
  ASSUME MsgInv, MsgOrder, NEW m \in Messages, os.exists, os' = [os EXCEPT !.queue = Append(@, m)],
         sent' = [sent EXCEPT ![m.to] = Append(@, m)], got' = got, Queues!Removals' = {} => Queues!Removals = {}
  PROVE  MsgOrder'
<1>1. PICK to \in Receivers : to = m.to
  BY DEF Messages
<1>2. /\ os.queue \in Seq(Messages) /\ os'.queue = Append(os.queue, m) /\ os'.exists
      /\ sent \in [Receivers -> Seq(Messages)] /\ sent[to] \in Seq(Messages)
      /\ got \in [Receivers -> Seq(Messages)]
  BY DEF MsgInv, MsgOrder
<1>3. sent'[to] = Append(sent[to], m) /\ \A r \in Receivers : r # to => sent'[r] = sent[r]
  BY <1>1, <1>2
<1>4. /\ Append(sent[to], m) \in Seq(Messages) /\ Len(sent[to]) \in Nat /\ Len(sent'[to]) = Len(sent[to]) + 1
      /\ \A n \in 1 .. Len(sent[to]) : sent'[to][n] = sent[to][n]
      /\ sent'[to][Len(sent[to]) + 1] = m
  BY <1>2, <1>3, OneMore
<1>5. sent' \in [Receivers -> Seq(Messages)]
  BY <1>1, <1>2, <1>4
<1>6. \A r \in Receivers : \A n \in 1 .. Len(sent'[r]) : sent'[r][n].to = r
  <2>1. \A n \in 1 .. Len(sent[to]) : sent'[to][n].to = to
    BY <1>4 DEF MsgOrder
  <2>2. \A n \in 1 .. Len(sent'[to]) : n \in 1 .. Len(sent[to]) \/ n = Len(sent[to]) + 1
    BY <1>4
  <2>3. \A n \in 1 .. Len(sent'[to]) : sent'[to][n].to = to
    BY <1>1, <1>4, <2>1, <2>2, Zenon
  <2> QED BY <1>3, <2>3 DEF MsgOrder
<1>7. ASSUME NEW r \in Receivers, GotFirst(r) PROVE GotFirst(r)'
  <2>1. /\ Len(got[r]) \in Nat /\ Len(got[r]) <= Len(sent[r]) /\ HasRest(os.queue, sent[r], Len(got[r]), r)
        /\ \A n \in 1 .. Len(got[r]) : got[r][n] = sent[r][n]
        /\ sent[r] \in Seq(Messages)
    BY <1>2, <1>7, LenProperties DEF GotFirst
  <2>2. CASE r = to
    <3>0. /\ HasRest(os.queue, sent[to], Len(got[to]), to) /\ Len(got[to]) \in Nat
          /\ Len(got[to]) <= Len(sent[to])
      BY <2>1, <2>2
    <3>1. HasRest(Append(os.queue, m), Append(sent[to], m), Len(got[to]), to)
      BY <1>1, <1>2, <3>0, RestAppended
    <3>2. Len(got[r]) <= Len(sent'[r]) /\ \A n \in 1 .. Len(got[r]) : n \in 1 .. Len(sent[to])
      BY <1>4, <2>1, <2>2
    <3>3. \A n \in 1 .. Len(got[r]) : got[r][n] = sent'[r][n]
      BY <1>4, <2>1, <2>2, <3>2
    <3>4. HasRest(os'.queue, sent'[r], Len(got'[r]), r)
      BY <1>2, <1>3, <2>2, <3>1
    <3> QED BY <3>2, <3>3, <3>4 DEF GotFirst
  <2>3. CASE r # to
    <3>1. HasRest(os'.queue, sent[r], Len(got[r]), r)
      BY <1>1, <1>2, <2>1, <2>3, RestPassed
    <3> QED BY <1>3, <2>1, <2>3, <3>1 DEF GotFirst
  <2> QED BY <2>2, <2>3
<1> QED BY <1>2, <1>5, <1>6, <1>7 DEF MsgOrder

\* A message is received: the first of those to this receiver.
LEMMA MsgOrderReceived ==
  ASSUME MsgInv, MsgOrder, NEW r \in Receivers, NEW j \in DOMAIN os.queue, os.exists, os.queue[j].to = r,
         \A i \in 1 .. j - 1 : os.queue[i].to # r, os' = [os EXCEPT !.queue = Queues!RemoveAt(@, j)],
         got' = [got EXCEPT ![r] = Append(@, os.queue[j])], sent' = sent,
         Queues!Removals' = {} => Queues!Removals = {}
  PROVE  MsgOrder'
<1>1. /\ os.queue \in Seq(Messages) /\ os'.queue = Queues!RemoveAt(os.queue, j) /\ os'.exists
      /\ sent \in [Receivers -> Seq(Messages)] /\ got \in [Receivers -> Seq(Messages)] /\ got[r] \in Seq(Messages)
      /\ got'[r] = Append(got[r], os.queue[j]) /\ \A q \in Receivers : q # r => got'[q] = got[q]
  BY DEF MsgInv, MsgOrder
<1>2. j \in 1 .. Len(os.queue) /\ os.queue[j] \in Messages
  BY <1>1, LenProperties, ElementOfSeq
<1>3. /\ Len(got[r]) \in Nat /\ Len(got'[r]) = Len(got[r]) + 1
      /\ \A n \in 1 .. Len(got[r]) : got'[r][n] = got[r][n]
      /\ got'[r][Len(got[r]) + 1] = os.queue[j]
  BY <1>1, <1>2, OneMore
<1>4. ASSUME NEW q \in Receivers, GotFirst(q) PROVE GotFirst(q)'
  <2>1. /\ Len(got[q]) \in Nat /\ Len(got[q]) <= Len(sent[q]) /\ HasRest(os.queue, sent[q], Len(got[q]), q)
        /\ \A n \in 1 .. Len(got[q]) : got[q][n] = sent[q][n]
        /\ sent[q] \in Seq(Messages) /\ \A n \in 1 .. Len(sent[q]) : sent[q][n].to = q
    BY <1>1, <1>4, LenProperties DEF GotFirst, MsgOrder
  <2>2. CASE q = r
    <3>1. /\ Len(got[r]) + 1 <= Len(sent[r]) /\ os.queue[j] = sent[r][Len(got[r]) + 1]
          /\ HasRest(Queues!RemoveAt(os.queue, j), sent[r], Len(got[r]) + 1, r)
      <4>1. /\ Len(got[r]) \in Nat /\ Len(got[r]) <= Len(sent[r]) /\ HasRest(os.queue, sent[r], Len(got[r]), r)
            /\ sent[r] \in Seq(Messages) /\ \A n \in 1 .. Len(sent[r]) : sent[r][n].to = r
        BY <2>1, <2>2
      <4>2. os.queue \in Seq(Messages) /\ j \in 1 .. Len(os.queue)
        BY <1>1, <1>2
      <4>3. os.queue[j].to = r /\ \A i \in 1 .. j - 1 : os.queue[i].to # r
        OBVIOUS
      <4> QED BY <4>1, <4>2, <4>3, RestTaken, Zenon
    <3>2. \A n \in 1 .. Len(got'[r]) : n \in 1 .. Len(got[r]) \/ n = Len(got[r]) + 1
      BY <1>3
    <3>3. \A n \in 1 .. Len(got'[r]) : got'[r][n] = sent[r][n]
      <4>1. \A n \in 1 .. Len(got[r]) : got[r][n] = sent[r][n]
        BY <2>1, <2>2
      <4>2. got'[r][Len(got[r]) + 1] = sent[r][Len(got[r]) + 1]
        BY <1>3, <3>1, Zenon
      <4>3. \A n \in 1 .. Len(got[r]) : got'[r][n] = sent[r][n]
        BY <1>3, <4>1
      <4> QED BY <3>2, <4>2, <4>3
    <3> QED BY <1>1, <1>3, <2>2, <3>1, <3>3 DEF GotFirst
  <2>3. CASE q # r
    <3>1. HasRest(Queues!RemoveAt(os.queue, j), sent[q], Len(got[q]), q)
      BY <1>1, <1>2, <2>1, <2>3, RestLeft
    <3> QED BY <1>1, <2>1, <2>3, <3>1 DEF GotFirst
  <2> QED BY <2>2, <2>3
<1> QED BY <1>1, <1>4 DEF MsgOrder

\* Every step of msend_sysv.c and mreceive_sysv.c keeps the order.
LEMMA MsgOrderStep ==
  ASSUME QueuesInv, program = "msg", program' = program, MsgOrder, NEW p \in Queues!Actors, Queues!Step(p)
  PROVE  MsgOrder'
<1>1. MsgInv /\ at \in [Queues!Actors -> QueuesPlaces] /\ Senders \cap Receivers = {}
  BY MCProgramsAssumption DEF QueuesInv
<1>2. ASSUME Queues!Create(p) PROVE MsgOrder'
  <2>1. /\ at[p] # "ended" /\ \E to : at' = [at EXCEPT ![p] = to]
        /\ os' = (IF os.exists THEN os ELSE [queue |-> <<>>, exists |-> TRUE, number |-> os.number + 1])
        /\ UNCHANGED <<sent, got>>
    BY <1>2 DEF Queues!Create, Queues!Go
  <2>2. os'.queue = os.queue /\ (os.exists => os'.exists)
    BY <2>1 DEF MsgOrder
  <2> QED BY <1>1, <2>1, <2>2, RemovalsStay, MsgOrderStays
<1>3. ASSUME Queues!Find(p) PROVE MsgOrder'
  BY <1>1, <1>3, RemovalsStay, MsgOrderStays DEF Queues!Find, Queues!Go
<1>4. ASSUME NEW to, Queues!Go(p, "send", to) \/ Queues!Go(p, "receive", to) \/ Queues!Go(p, "remove", to),
             UNCHANGED <<os, sent, got>>
      PROVE  MsgOrder'
  BY <1>1, <1>4, RemovalsStay, MsgOrderStays DEF Queues!Go
<1>5. ASSUME p \in Senders, Queues!msgsnd(p) PROVE MsgOrder'
  <2>1. CASE Queues!Go(p, "send", "aborted") /\ UNCHANGED <<os, sent, got>>
    BY <1>4, <2>1
  <2>2. ASSUME NEW r \in Receivers, NEW length \in Lengths, NEW m, m = [text |-> p, length |-> length, to |-> r],
               Queues!Go(p, "send", "ended"), os.exists, os' = [os EXCEPT !.queue = Append(@, m)],
               sent' = [sent EXCEPT ![r] = Append(@, m)], got' = got
        PROVE  MsgOrder'
    <3>1. m \in Messages /\ m.to = r
      BY <1>5, <2>2 DEF Messages
    <3>2. Queues!Removals' = {} => Queues!Removals = {}
      BY <1>1, <2>2, RemovalsStay DEF Queues!Go
    <3> QED BY <1>1, <2>2, <3>1, <3>2, MsgOrderSent
  <2> QED BY <1>5, <2>1, <2>2 DEF Queues!msgsnd, Queues!Open
<1>6. ASSUME p \in Receivers, Queues!msgrcv(p) PROVE MsgOrder'
  <2>1. CASE Queues!Go(p, "receive", "aborted") /\ UNCHANGED <<os, sent, got>>
    BY <1>4, <2>1
  <2>2. CASE UNCHANGED <<at, os, sent, got>>
    BY <1>1, <2>2, RemovalsStay, MsgOrderStays
  <2>3. ASSUME NEW j \in DOMAIN os.queue, NEW to, Queues!Go(p, "receive", to), os.exists, os.queue[j].to = p,
               \A i \in 1 .. j - 1 : os.queue[i].to # p, os' = [os EXCEPT !.queue = Queues!RemoveAt(@, j)],
               got' = [got EXCEPT ![p] = Append(@, os.queue[j])], sent' = sent
        PROVE  MsgOrder'
    <3>1. Queues!Removals' = {} => Queues!Removals = {}
      BY <1>1, <2>3, RemovalsStay DEF Queues!Go
    <3> QED BY <1>1, <1>6, <2>3, <3>1, MsgOrderReceived
  <2> QED BY <1>6, <2>1, <2>2, <2>3 DEF Queues!msgrcv, Queues!Open
<1>7. ASSUME p \in Receivers, Queues!msgctl(p) PROVE MsgOrder'
  <2>1. CASE ~Queues!Open(p)
    BY <1>4, <1>7, <2>1 DEF Queues!msgctl
  <2>2. CASE Queues!Open(p)
    <3>1. at' = [at EXCEPT ![p] = "ended"] /\ os' = [os EXCEPT !.queue = <<>>, !.exists = FALSE] /\ UNCHANGED <<sent, got>>
      BY <1>7, <2>2 DEF Queues!msgctl, Queues!Go
    <3>2. p \in Queues!Removals'
      BY <1>1, <1>7, <3>1 DEF Queues!Removals
    <3>3. os'.queue = <<>>
      BY <1>1, <3>1 DEF MsgInv
    <3> QED BY <3>1, <3>2, <3>3 DEF MsgOrder
  <2> QED BY <2>1, <2>2
<1> QED BY <1>1, <1>2, <1>3, <1>5, <1>6, <1>7
        DEF Queues!Step, Queues!msend_sysv, Queues!mreceive_sysv, Queues!Actors

\* Hence each receiver has got the first of its messages, unless the queue was removed.
LEMMA MsgInOrder == QueuesInv /\ MsgOrder /\ program = "msg" => Queues!InOrder
<1> SUFFICES ASSUME QueuesInv, MsgOrder, program = "msg", Queues!Removals = {}, NEW r \in Receivers
             PROVE  Queues!IsPrefix(got[r], sent[r])
  BY DEF Queues!InOrder
<1>1. got[r] \in Seq(Messages) /\ sent[r] \in Seq(Messages) /\ GotFirst(r)
  BY DEF QueuesInv, MsgInv, MsgOrder
<1> QED BY <1>1, PrefixBySame DEF GotFirst, Queues!IsPrefix

----------------------------------------------------------------------------
(* msend_posix.c, mreceive_posix.c                                         *)

Notes == [text : Senders, length : {0, 1}, prio : Priorities]

MqTypes ==
  /\ os \in [queue : Seq(Notes), exists : BOOLEAN, number : Nat] /\ local \in QueuesLocals
  /\ sent \in [{"queue"} -> Seq(Notes)]
  /\ got \in [Receivers -> Seq([message : Notes, text : Senders \cup {Old}])]

\* m was sent; m was sent before n.
WasSent(all, m) == \E i \in 1 .. Len(all) : all[i] = m
Earlier(all, m, n) == \E i, j \in 1 .. Len(all) : i < j /\ all[i] = m /\ all[j] = n

\* m is no more in the queue, and was sent before those of its priority that are.
Before(m, queue, all) ==
  /\ WasSent(all, m)
  /\ \A j \in 1 .. Len(queue) : m # queue[j] /\ (m.prio = queue[j].prio => Earlier(all, m, queue[j]))

\* A queue is ordered by priority and then by age, and holds each message once.
Sorted(queue, all) ==
  /\ \A i \in 1 .. Len(queue) : WasSent(all, queue[i])
  /\ \A i, j \in 1 .. Len(queue) : i < j =>
       /\ queue[i].prio >= queue[j].prio /\ queue[i] # queue[j]
       /\ queue[i].prio = queue[j].prio => Earlier(all, queue[i], queue[j])

\* t came with one of the first n messages that are printed, or is none yet.
TextOf(printed, n, t) == t = Old \/ \E i \in 1 .. n : printed[i].message.text = t

\* A message is received once, and by one receiver in the order of those of its priority.
MqGot ==
  /\ \A r, q \in Receivers : \A i \in 1 .. Len(got[r]), j \in 1 .. Len(got[q]) :
       got[r][i].message = got[q][j].message => r = q /\ i = j
  /\ \A r \in Receivers : \A i, j \in 1 .. Len(got[r]) :
       i < j /\ got[r][i].message.prio = got[r][j].message.prio =>
         Earlier(sent.queue, got[r][i].message, got[r][j].message)
  /\ \A r \in Receivers : \A j \in 1 .. Len(got[r]) : TextOf(got[r], j, got[r][j].text)

\* A sender sends once, what waits is sorted, and what was received was before it.
MqOrder ==
  /\ MqTypes /\ MqGot /\ Sorted(os.queue, sent.queue)
  /\ \A i \in 1 .. Len(sent.queue) : at[sent.queue[i].text] = "ended"
  /\ \A r \in Receivers : \A i \in 1 .. Len(got[r]) : Before(got[r][i].message, os.queue, sent.queue)
  /\ \A r \in Receivers : TextOf(got[r], Len(got[r]), local.mtext[r])

\* A sequence with one more element, before its j-th.
LEMMA InsertAtProperties ==
  ASSUME NEW S, NEW s \in Seq(S), NEW e \in S, NEW j \in 1 .. Len(s) + 1
  PROVE  /\ Queues!InsertAt(s, j, e) \in Seq(S) /\ Len(Queues!InsertAt(s, j, e)) = Len(s) + 1
         /\ \A i \in 1 .. Len(s) + 1 :
              Queues!InsertAt(s, j, e)[i] = IF i < j THEN s[i] ELSE IF i = j THEN e ELSE s[i - 1]
<1>1. PICK l \in Nat : l = Len(s)
  BY LenProperties
<1>2. j \in 1 .. l + 1 /\ \A i \in 1 .. l : s[i] \in S
  BY <1>1, ElementOfSeq
<1>3. PICK a, b : a = SubSeq(s, 1, j - 1) /\ b = SubSeq(s, j, l)
  OBVIOUS
<1>4. a \in Seq(S) /\ Len(a) = j - 1 /\ \A i \in 1 .. j - 1 : a[i] = s[i]
  <2>1. j - 1 \in Int /\ \A i \in 1 .. j - 1 : s[i] \in S
    BY <1>2
  <2>2. /\ a \in Seq(S) /\ Len(a) = IF 1 <= j - 1 THEN j - 1 - 1 + 1 ELSE 0
        /\ \A i \in 1 .. j - 1 - 1 + 1 : a[i] = s[1 + i - 1]
    BY <1>3, <2>1, SubSeqProperties
  <2> QED BY <1>2, <2>2
<1>5. b \in Seq(S) /\ Len(b) = l + 1 - j /\ \A i \in 1 .. l + 1 - j : b[i] = s[j + i - 1]
  <2>1. j \in Int /\ l \in Int /\ \A i \in j .. l : s[i] \in S
    BY <1>2
  <2>2. /\ b \in Seq(S) /\ Len(b) = IF j <= l THEN l - j + 1 ELSE 0
        /\ \A i \in 1 .. l - j + 1 : b[i] = s[j + i - 1]
    BY <1>3, <2>1, SubSeqProperties
  <2> QED BY <1>2, <2>2
<1>6. PICK c : c = a \o <<e>>
  OBVIOUS
<1>7. c \in Seq(S) /\ Len(c) = j /\ \A i \in 1 .. j : c[i] = IF i < j THEN s[i] ELSE e
  <2>1. c = Append(a, e)
    BY <1>4, <1>6, AppendIsConcat
  <2>2. /\ Append(a, e) \in Seq(S) /\ Len(Append(a, e)) = Len(a) + 1
        /\ \A i \in 1 .. Len(a) : Append(a, e)[i] = a[i]
        /\ Append(a, e)[Len(a) + 1] = e
    BY <1>4, OneMore
  <2>3. (j - 1) + 1 = j /\ \A i \in 1 .. j : (i < j => i \in 1 .. j - 1) /\ (~(i < j) => i = j)
    BY <1>2
  <2> QED BY <1>4, <2>1, <2>2, <2>3
<1>8. /\ c \o b \in Seq(S) /\ Len(c \o b) = j + (l + 1 - j)
      /\ \A i \in 1 .. j + (l + 1 - j) : (c \o b)[i] = IF i <= j THEN c[i] ELSE b[i - j]
  <2>1. /\ c \o b \in Seq(S) /\ Len(c \o b) = Len(c) + Len(b)
        /\ \A i \in 1 .. Len(c) + Len(b) : (c \o b)[i] = IF i <= Len(c) THEN c[i] ELSE b[i - Len(c)]
    BY <1>5, <1>7, ConcatProperties
  <2> QED BY <1>5, <1>7, <2>1
<1>9. j + (l + 1 - j) = l + 1
  BY <1>2
<1>10. \A i \in 1 .. l + 1 : (c \o b)[i] = IF i < j THEN s[i] ELSE IF i = j THEN e ELSE s[i - 1]
  <2> TAKE i \in 1 .. l + 1
  <2>1. (c \o b)[i] = IF i <= j THEN c[i] ELSE b[i - j]
    BY <1>8, <1>9
  <2>2. CASE i <= j
    <3>1. i \in 1 .. j /\ (i < j \/ i = j)
      BY <1>2, <2>2
    <3> QED BY <1>7, <2>1, <2>2, <3>1
  <2>3. CASE ~(i <= j)
    <3>1. i - j \in 1 .. l + 1 - j /\ j + (i - j) - 1 = i - 1 /\ ~(i < j) /\ i # j
      BY <1>2, <2>3
    <3>2. b[i - j] = s[j + (i - j) - 1]
      BY <1>5, <3>1
    <3> QED BY <2>1, <2>3, <3>1, <3>2
  <2> QED BY <2>2, <2>3
<1>11. Queues!InsertAt(s, j, e) = c \o b
  BY <1>1, <1>3, <1>6 DEF Queues!InsertAt
<1> QED BY <1>1, <1>8, <1>9, <1>10, <1>11

\* Among any numbers there is a least.
LEMMA LeastOf ==
  ASSUME NEW T \in SUBSET Nat, T # {}
  PROVE  \E x \in T : \A y \in T : x <= y
<1> DEFINE R == {ss \in Nat \X Nat : ss[1] < ss[2]}
<1>1. IsWellFoundedOn(R, Nat)
  BY NatLessThanWellFounded DEF OpToRel
<1>2. \A x, y \in Nat : x < y => <<x, y>> \in R
  OBVIOUS
<1> HIDE DEF R
<1>3. PICK x \in T : \A y \in T : <<y, x>> \notin R
  BY <1>1, WFMin
<1>4. ASSUME NEW y \in T PROVE x <= y
  <2>1. x \in Nat /\ y \in Nat
    OBVIOUS
  <2>2. ~(y < x)
    BY <1>2, <1>3, <2>1
  <2> QED BY <2>1, <2>2
<1> QED BY <1>4

\* mq_send puts a message behind all of its priority, and before the others.
LEMMA BehindProperties ==
  ASSUME os.queue \in Seq(Notes), NEW m \in Notes
  PROVE  /\ Queues!Behind(m) \in 1 .. Len(os.queue) + 1
         /\ \A i \in 1 .. Len(os.queue) : i < Queues!Behind(m) => ~(os.queue[i].prio < m.prio)
         /\ Queues!Behind(m) # Len(os.queue) + 1 => os.queue[Queues!Behind(m)].prio < m.prio
<1>1. PICK l \in Nat : l = Len(os.queue)
  BY LenProperties
<1>2. PICK places : places = {j \in 1 .. l + 1 : j = l + 1 \/ os.queue[j].prio < m.prio}
  OBVIOUS
<1>3. Queues!Behind(m) = Queues!Min(places)
  BY <1>1, <1>2 DEF Queues!Behind
<1>4. l + 1 \in places /\ places \subseteq Nat
  BY <1>2
<1>5. PICK least \in places : \A j \in places : least <= j
  BY <1>4, LeastOf
<1>6. \A x \in places : (\A y \in places : x <= y) => x = least
  BY <1>4, <1>5
<1>7. Queues!Min(places) = least
  BY <1>5, <1>6 DEF Queues!Min
<1>8. \A i \in 1 .. l : i < least => ~(os.queue[i].prio < m.prio)
  <2> SUFFICES ASSUME NEW i \in 1 .. l, i < least, os.queue[i].prio < m.prio PROVE FALSE
    OBVIOUS
  <2>1. i \in places
    BY <1>2
  <2> QED BY <1>4, <1>5, <2>1
<1> QED BY <1>1, <1>2, <1>3, <1>7, <1>8

\* More is sent.
LEMMA EarlierStays ==
  ASSUME NEW S, NEW all \in Seq(S), NEW e \in S
  PROVE  /\ WasSent(Append(all, e), e)
         /\ \A m : WasSent(all, m) => WasSent(Append(all, e), m) /\ Earlier(Append(all, e), m, e)
         /\ \A m, n : Earlier(all, m, n) => Earlier(Append(all, e), m, n)
<1>1. PICK l \in Nat : l = Len(all)
  BY LenProperties
<1>2. PICK more : more = Append(all, e)
  OBVIOUS
<1>3. Len(more) = l + 1 /\ (\A i \in 1 .. l : more[i] = all[i]) /\ more[l + 1] = e
  BY <1>1, <1>2, OneMore
<1>4. l + 1 \in 1 .. l + 1 /\ \A i \in 1 .. l : i \in 1 .. l + 1 /\ i < l + 1
  OBVIOUS
<1>5. WasSent(more, e)
  BY <1>3, <1>4 DEF WasSent
<1>6. ASSUME NEW m, WasSent(all, m) PROVE WasSent(more, m) /\ Earlier(more, m, e)
  BY <1>1, <1>3, <1>4, <1>6 DEF WasSent, Earlier
<1>7. ASSUME NEW m, NEW n, Earlier(all, m, n) PROVE Earlier(more, m, n)
  BY <1>1, <1>3, <1>4, <1>7 DEF Earlier
<1> QED BY <1>2, <1>5, <1>6, <1>7

\* longer is s with e before its j-th element.
Inserted(longer, s, j, e) ==
  /\ Len(longer) = Len(s) + 1
  /\ \A i \in 1 .. Len(s) + 1 : longer[i] = IF i < j THEN s[i] ELSE IF i = j THEN e ELSE s[i - 1]

\* So is the queue when a message is inserted.
LEMMA InsertedAt ==
  ASSUME NEW queue \in Seq(Notes), NEW e \in Notes, NEW b \in 1 .. Len(queue) + 1
  PROVE  Inserted(Queues!InsertAt(queue, b, e), queue, b, e)
BY InsertAtProperties DEF Inserted

\* What was received is before the message that is sent.
LEMMA BeforeInserted ==
  ASSUME NEW queue \in Seq(Notes), NEW all \in Seq(Notes), NEW e \in Notes, ~WasSent(all, e), NEW b \in 1 .. Len(queue) + 1,
         NEW m, Before(m, queue, all)
  PROVE  Before(m, Queues!InsertAt(queue, b, e), Append(all, e))
<1>1. PICK l \in Nat : l = Len(queue)
  BY LenProperties
<1>2. PICK longer : longer = Queues!InsertAt(queue, b, e)
  OBVIOUS
<1>3. /\ Len(longer) = l + 1 /\ b \in 1 .. l + 1
      /\ \A i \in 1 .. l + 1 : longer[i] = IF i < b THEN queue[i] ELSE IF i = b THEN e ELSE queue[i - 1]
  <2>1. /\ Len(longer) = Len(queue) + 1
        /\ \A i \in 1 .. Len(queue) + 1 : longer[i] = IF i < b THEN queue[i] ELSE IF i = b THEN e ELSE queue[i - 1]
    <3>1. Inserted(Queues!InsertAt(queue, b, e), queue, b, e)
      BY InsertedAt, Zenon
    <3> QED BY <1>2, <3>1 DEF Inserted
  <2> QED BY <1>1, <2>1
<1>4. WasSent(all, m) /\ WasSent(Append(all, e), m) /\ Earlier(Append(all, e), m, e) /\ m # e
  BY EarlierStays DEF Before
<1>5. \A i \in 1 .. l : m # queue[i] /\ (m.prio = queue[i].prio => Earlier(Append(all, e), m, queue[i]))
  BY <1>1, EarlierStays DEF Before
<1>6. \A i \in 1 .. l + 1 : m # longer[i] /\ (m.prio = longer[i].prio => Earlier(Append(all, e), m, longer[i]))
  <2> TAKE i \in 1 .. l + 1
  <2>1. CASE i < b
    BY <1>3, <1>5, <2>1
  <2>2. CASE i = b
    BY <1>3, <1>4, <2>2
  <2>3. CASE ~(i < b) /\ i # b
    <3>1. i - 1 \in 1 .. l /\ longer[i] = queue[i - 1]
      BY <1>3, <2>3
    <3> QED BY <1>5, <3>1
  <2> QED BY <2>1, <2>2, <2>3
<1> QED BY <1>2, <1>3, <1>4, <1>6 DEF Before

\* The queue stays sorted.
LEMMA SortedInserted ==
  ASSUME NEW queue \in Seq(Notes), NEW all \in Seq(Notes), NEW e \in Notes, ~WasSent(all, e), NEW b \in 1 .. Len(queue) + 1,
         \A i \in 1 .. Len(queue) : i < b => ~(queue[i].prio < e.prio),
         b # Len(queue) + 1 => queue[b].prio < e.prio,
         Sorted(queue, all)
  PROVE  Sorted(Queues!InsertAt(queue, b, e), Append(all, e))
<1>1. PICK l \in Nat : l = Len(queue)
  BY LenProperties
<1>2. PICK longer : longer = Queues!InsertAt(queue, b, e)
  OBVIOUS
<1>3. /\ Len(longer) = l + 1 /\ b \in 1 .. l + 1
      /\ \A i \in 1 .. l + 1 : longer[i] = IF i < b THEN queue[i] ELSE IF i = b THEN e ELSE queue[i - 1]
  <2>1. /\ Len(longer) = Len(queue) + 1
        /\ \A i \in 1 .. Len(queue) + 1 : longer[i] = IF i < b THEN queue[i] ELSE IF i = b THEN e ELSE queue[i - 1]
    <3>1. Inserted(Queues!InsertAt(queue, b, e), queue, b, e)
      BY InsertedAt, Zenon
    <3> QED BY <1>2, <3>1 DEF Inserted
  <2> QED BY <1>1, <2>1
<1>4. /\ \A i \in 1 .. l : WasSent(all, queue[i])
      /\ \A i, j \in 1 .. l : i < j =>
           /\ queue[i].prio >= queue[j].prio /\ queue[i] # queue[j]
           /\ queue[i].prio = queue[j].prio => Earlier(all, queue[i], queue[j])
      /\ \A i \in 1 .. l : i < b => ~(queue[i].prio < e.prio)
      /\ b # l + 1 => queue[b].prio < e.prio
  BY <1>1 DEF Sorted
<1>5. /\ e.prio \in Nat
      /\ \A i \in 1 .. l : queue[i].prio \in Nat
  <2>1. \A n \in Notes : n.prio \in Nat BY MCProgramsAssumption DEF Notes
  <2>2. \A i \in 1 .. l : queue[i] \in Notes BY <1>1, ElementOfSeq
  <2> QED BY <2>1, <2>2
<1>6. PICK more : more = Append(all, e)
  OBVIOUS
<1>7. /\ WasSent(more, e) /\ \A m : WasSent(all, m) => WasSent(more, m) /\ Earlier(more, m, e)
      /\ \A m, n : Earlier(all, m, n) => Earlier(more, m, n)
  BY <1>6, EarlierStays
<1>8. \A i \in 1 .. l : WasSent(more, queue[i]) /\ Earlier(more, queue[i], e) /\ queue[i] # e
  BY <1>4, <1>7
<1>9. \A i, j \in 1 .. l : i < j =>
        /\ queue[i].prio >= queue[j].prio /\ queue[i] # queue[j]
        /\ queue[i].prio = queue[j].prio => Earlier(more, queue[i], queue[j])
  BY <1>4, <1>7
<1>10. \A i \in 1 .. l : i >= b => queue[i].prio < e.prio
  <2> SUFFICES ASSUME NEW i \in 1 .. l, i >= b PROVE queue[i].prio < e.prio
    OBVIOUS
  <2>1. b \in 1 .. l /\ b # l + 1
    BY <1>3
  <2>2. queue[b].prio \in Nat /\ queue[i].prio \in Nat /\ queue[b].prio < e.prio /\ e.prio \in Nat
    BY <1>4, <1>5, <2>1
  <2>3. CASE i = b
    BY <2>2, <2>3
  <2>4. CASE b < i
    <3>1. queue[b].prio >= queue[i].prio
      BY <1>4, <2>1, <2>4
    <3> QED BY <2>2, <3>1
  <2> QED BY <1>3, <2>3, <2>4
<1>11. \A i \in 1 .. l + 1 : WasSent(more, longer[i])
  <2> TAKE i \in 1 .. l + 1
  <2>1. i < b => i \in 1 .. l
    BY <1>3
  <2>2. ~(i < b) /\ i # b => i - 1 \in 1 .. l
    BY <1>3
  <2> QED BY <1>3, <1>7, <1>8, <2>1, <2>2
<1>12. ASSUME NEW i \in 1 .. l + 1, NEW j \in 1 .. l + 1, i < j
       PROVE  /\ longer[i].prio >= longer[j].prio /\ longer[i] # longer[j]
              /\ longer[i].prio = longer[j].prio => Earlier(more, longer[i], longer[j])
  <2>1. CASE j < b
    <3>1. i \in 1 .. l /\ j \in 1 .. l /\ longer[i] = queue[i] /\ longer[j] = queue[j]
      BY <1>3, <1>12, <2>1
    <3> QED BY <1>9, <1>12, <3>1
  <2>2. CASE j = b
    <3>1. i \in 1 .. l /\ longer[i] = queue[i] /\ longer[j] = e /\ i < b
      BY <1>3, <1>12, <2>2
    <3>2. ~(queue[i].prio < e.prio) /\ queue[i].prio \in Nat /\ e.prio \in Nat
      BY <1>4, <1>5, <3>1
    <3>3. queue[i].prio >= e.prio
      BY <3>2
    <3> QED BY <1>8, <3>1, <3>3
  <2>3. CASE ~(j < b) /\ j # b
    <3>1. j - 1 \in 1 .. l /\ longer[j] = queue[j - 1] /\ j - 1 >= b
      BY <1>3, <2>3
    <3>2. CASE i < b
      <4>1. i \in 1 .. l /\ i < j - 1 /\ longer[i] = queue[i]
        BY <1>3, <3>1, <3>2
      <4> QED BY <1>9, <3>1, <4>1
    <3>3. CASE i = b
      <4>1. longer[i] = e
        BY <1>3, <3>3
      <4>2. queue[j - 1].prio < e.prio /\ queue[j - 1].prio \in Nat /\ e.prio \in Nat
        BY <1>5, <1>10, <3>1
      <4>3. e.prio >= queue[j - 1].prio /\ e.prio # queue[j - 1].prio
        BY <4>2
      <4> QED BY <1>8, <3>1, <4>1, <4>3
    <3>4. CASE ~(i < b) /\ i # b
      <4>1. i - 1 \in 1 .. l /\ i - 1 < j - 1 /\ longer[i] = queue[i - 1]
        BY <1>3, <1>12, <3>4
      <4> QED BY <1>9, <3>1, <4>1
    <3> QED BY <3>2, <3>3, <3>4
  <2> QED BY <1>3, <2>1, <2>2, <2>3
<1> QED BY <1>2, <1>3, <1>6, <1>11, <1>12 DEF Sorted

\* The first message leaves the queue: it is before the others, as what was received is.
LEMMA SortedTaken ==
  ASSUME NEW queue \in Seq(Notes), queue # <<>>, NEW all, Sorted(queue, all)
  PROVE  /\ Sorted(Tail(queue), all) /\ Before(Head(queue), Tail(queue), all)
         /\ \A m : Before(m, queue, all) =>
              /\ Before(m, Tail(queue), all) /\ m # Head(queue)
              /\ m.prio = Head(queue).prio => Earlier(all, m, Head(queue))
<1>1. PICK l \in Nat : l = Len(queue) - 1 /\ Len(queue) = l + 1
  <2>1. Len(queue) \in Nat \ {0} BY EmptySeq
  <2>2. \A n \in Nat \ {0} : n - 1 \in Nat /\ n = (n - 1) + 1 OBVIOUS
  <2> QED BY <2>1, <2>2
<1>2. PICK rest, first : rest = Tail(queue) /\ first = Head(queue)
  OBVIOUS
<1>3. /\ Len(rest) = l /\ \A i \in 1 .. l : rest[i] = queue[i + 1]
      /\ first = queue[1] /\ 1 \in 1 .. l + 1 /\ \A i \in 1 .. l : i + 1 \in 1 .. l + 1 /\ 1 < i + 1
  BY <1>1, <1>2, HeadTailProperties
<1>4. /\ \A i \in 1 .. l + 1 : WasSent(all, queue[i])
      /\ \A i, j \in 1 .. l + 1 : i < j =>
           /\ queue[i].prio >= queue[j].prio /\ queue[i] # queue[j]
           /\ queue[i].prio = queue[j].prio => Earlier(all, queue[i], queue[j])
  BY <1>1 DEF Sorted
<1>5. Sorted(rest, all)
  <2>1. \A i, j \in 1 .. l : i < j => i + 1 < j + 1 OBVIOUS
  <2>2. \A i \in 1 .. l : WasSent(all, rest[i]) BY <1>3, <1>4
  <2>3. ASSUME NEW i \in 1 .. l, NEW j \in 1 .. l, i < j
        PROVE  /\ rest[i].prio >= rest[j].prio /\ rest[i] # rest[j]
               /\ rest[i].prio = rest[j].prio => Earlier(all, rest[i], rest[j])
    <3>1. i + 1 \in 1 .. l + 1 /\ j + 1 \in 1 .. l + 1 /\ i + 1 < j + 1 /\ rest[i] = queue[i + 1] /\ rest[j] = queue[j + 1]
      BY <1>3, <2>1, <2>3
    <3> QED BY <1>4, <3>1
  <2> QED BY <1>3, <2>2, <2>3 DEF Sorted
<1>6. Before(first, rest, all)
  <2>1. ASSUME NEW j \in 1 .. l
        PROVE  first # rest[j] /\ (first.prio = rest[j].prio => Earlier(all, first, rest[j]))
    <3>1. j + 1 \in 1 .. l + 1 /\ 1 < j + 1 /\ rest[j] = queue[j + 1] /\ 1 \in 1 .. l + 1 /\ first = queue[1]
      BY <1>3
    <3> QED BY <1>4, <3>1
  <2> QED BY <1>3, <1>4, <2>1 DEF Before
<1>7. ASSUME NEW m, Before(m, queue, all)
      PROVE  /\ Before(m, rest, all) /\ m # first
             /\ m.prio = first.prio => Earlier(all, m, first)
  <2>1. WasSent(all, m) /\ \A j \in 1 .. l + 1 : m # queue[j] /\ (m.prio = queue[j].prio => Earlier(all, m, queue[j]))
    BY <1>1, <1>7 DEF Before
  <2>2. \A j \in 1 .. l : m # rest[j] /\ (m.prio = rest[j].prio => Earlier(all, m, rest[j]))
    BY <1>3, <2>1
  <2> QED BY <1>3, <2>1, <2>2 DEF Before
<1> QED BY <1>2, <1>5, <1>6, <1>7

----------------------------------------------------------------------------

\* At first nothing was sent.
LEMMA MqOrderStarts == Queues!Init /\ program = "mq" => MqOrder
<1> SUFFICES ASSUME Queues!Init, program = "mq" PROVE MqOrder
  OBVIOUS
<1>1. /\ os = [queue |-> <<>>, exists |-> FALSE, number |-> 0] /\ sent = [queue |-> <<>>]
      /\ local = [id |-> [p \in Queues!Actors |-> 0], msize |-> [r \in Receivers |-> 1],
                  mtext |-> [r \in Receivers |-> Old]]
      /\ got = [r \in Receivers |-> <<>>]
  BY DEF Queues!Init
<1>2. MqTypes
  <2>1. local \in QueuesLocals
    BY <1>1 DEF QueuesLocals
  <2>2. os \in [queue : Seq(Notes), exists : BOOLEAN, number : Nat]
    <3>1. <<>> \in Seq(Notes)
      BY EmptySeq
    <3> QED BY <1>1, <3>1
  <2>3. sent \in [{"queue"} -> Seq(Notes)]
    <3>1. <<>> \in Seq(Notes)
      BY EmptySeq
    <3>2. sent = [x \in {"queue"} |-> <<>>]
      BY <1>1
    <3> QED BY <3>1, <3>2
  <2>4. got \in [Receivers -> Seq([message : Notes, text : Senders \cup {Old}])]
    BY <1>1, EmptySeq
  <2> QED BY <2>1, <2>2, <2>3, <2>4 DEF MqTypes
<1>3. /\ Len(os.queue) = 0 /\ Len(sent.queue) = 0
      /\ \A r \in Receivers : Len(got[r]) = 0 /\ local.mtext[r] = Old
  BY <1>1
<1>4. MqGot
  BY <1>3 DEF MqGot
<1>5. Sorted(os.queue, sent.queue)
  BY <1>3 DEF Sorted
<1>6. \A r \in Receivers : TextOf(got[r], Len(got[r]), local.mtext[r])
  BY <1>3 DEF TextOf
<1> QED BY <1>2, <1>3, <1>4, <1>5, <1>6 DEF MqOrder

\* A process opens the queue.
LEMMA MqOrderOpened ==
  ASSUME MqOrder, at \in [Queues!Actors -> QueuesPlaces], NEW p \in Queues!Actors, at[p] = "start",
         NEW to \in QueuesPlaces, at' = [at EXCEPT ![p] = to], NEW n \in Nat, local' = [local EXCEPT !.id[p] = n],
         UNCHANGED <<sent, got>>, os' \in [queue : Seq(Notes), exists : BOOLEAN, number : Nat],
         os'.queue = os.queue \/ os'.queue = <<>>
  PROVE  MqOrder'
<1>1. MqTypes BY DEF MqOrder
<1>2. local' \in QueuesLocals
  BY <1>1, QueuesOpened DEF MqTypes
<1>3. local'.mtext = local.mtext
  BY <1>1 DEF MqTypes, QueuesLocals
<1>4. MqTypes'
  BY <1>1, <1>2 DEF MqTypes
<1>5. /\ Sorted(os'.queue, sent.queue)
      /\ \A r \in Receivers : \A i \in 1 .. Len(got[r]) : Before(got[r][i].message, os'.queue, sent.queue)
  <2>1. Len(<<>>) = 0 OBVIOUS
  <2>2. CASE os'.queue = <<>>
    BY <2>1, <2>2 DEF MqOrder, Sorted, Before
  <2>3. CASE os'.queue = os.queue
    BY <2>3 DEF MqOrder
  <2> QED BY <2>2, <2>3
<1>6. \A i \in 1 .. Len(sent.queue) : at'[sent.queue[i].text] = "ended"
  BY DEF MqOrder
<1>7. MqGot'
  BY DEF MqOrder, MqGot
<1>8. \A r \in Receivers : TextOf(got[r], Len(got[r]), local'.mtext[r])
  BY <1>3 DEF MqOrder
<1> QED BY <1>4, <1>5, <1>6, <1>7, <1>8 DEF MqOrder

\* mq_send: the message of a sender is one that was never sent.
LEMMA MqOrderSent ==
  ASSUME MqOrder, at \in [Queues!Actors -> QueuesPlaces], NEW s \in Senders, at[s] = "send",
         at' = [at EXCEPT ![s] = "ended"], NEW m \in Notes, m.text = s,
         os' = [os EXCEPT !.queue = Queues!InsertAt(@, Queues!Behind(m), m)],
         sent' = [sent EXCEPT !.queue = Append(@, m)], UNCHANGED <<local, got>>
  PROVE  MqOrder'
<1>1. /\ MqTypes /\ os.queue \in Seq(Notes) /\ sent.queue \in Seq(Notes)
      /\ os'.queue = Queues!InsertAt(os.queue, Queues!Behind(m), m) /\ sent'.queue = Append(sent.queue, m)
  BY DEF MqOrder, MqTypes
<1>2. PICK b : b = Queues!Behind(m)
  OBVIOUS
<1>3. /\ b \in 1 .. Len(os.queue) + 1
      /\ \A i \in 1 .. Len(os.queue) : i < b => ~(os.queue[i].prio < m.prio)
      /\ b # Len(os.queue) + 1 => os.queue[b].prio < m.prio
  BY <1>1, <1>2, BehindProperties
<1>4. ~WasSent(sent.queue, m)
  <2> SUFFICES ASSUME NEW i \in 1 .. Len(sent.queue), sent.queue[i] = m PROVE FALSE
    BY DEF WasSent
  <2>1. at[sent.queue[i].text] = "ended"
    BY DEF MqOrder
  <2> QED BY <2>1
<1>5. Sorted(os'.queue, sent'.queue)
  BY <1>1, <1>2, <1>3, <1>4, SortedInserted DEF MqOrder
<1>6. \A r \in Receivers : \A i \in 1 .. Len(got[r]) : Before(got[r][i].message, os'.queue, sent'.queue)
  BY <1>1, <1>2, <1>3, <1>4, BeforeInserted DEF MqOrder
<1>7. \A k, n : Earlier(sent.queue, k, n) => Earlier(sent'.queue, k, n)
  BY <1>1, EarlierStays
<1>8. MqGot'
  <2>1. /\ \A r, q \in Receivers : \A i \in 1 .. Len(got[r]), j \in 1 .. Len(got[q]) :
             got[r][i].message = got[q][j].message => r = q /\ i = j
        /\ \A r \in Receivers : \A i, j \in 1 .. Len(got[r]) :
             i < j /\ got[r][i].message.prio = got[r][j].message.prio =>
               Earlier(sent'.queue, got[r][i].message, got[r][j].message)
        /\ \A r \in Receivers : \A j \in 1 .. Len(got[r]) : TextOf(got[r], j, got[r][j].text)
    BY <1>7 DEF MqOrder, MqGot
  <2> QED BY <2>1 DEF MqGot
<1>9. \A i \in 1 .. Len(sent'.queue) : at'[sent'.queue[i].text] = "ended"
  <2>1. /\ Len(sent.queue) \in Nat /\ Len(sent'.queue) = Len(sent.queue) + 1
        /\ \A i \in 1 .. Len(sent.queue) : sent'.queue[i] = sent.queue[i]
        /\ sent'.queue[Len(sent.queue) + 1] = m
    BY <1>1, OneMore
  <2>2. s \in Queues!Actors /\ at'[s] = "ended"
    BY DEF Queues!Actors
  <2>3. \A i \in 1 .. Len(sent.queue) : at'[sent'.queue[i].text] = "ended"
    BY <2>1 DEF MqOrder
  <2>4. \A i \in 1 .. Len(sent'.queue) : i \in 1 .. Len(sent.queue) \/ i = Len(sent.queue) + 1
    BY <2>1
  <2> QED BY <2>1, <2>2, <2>3, <2>4, Zenon
<1>10. \A r \in Receivers : TextOf(got[r], Len(got[r]), local.mtext[r])
  BY DEF MqOrder
<1>11. MqTypes'
  <2>1. os'.queue \in Seq(Notes) /\ sent'.queue \in Seq(Notes)
    BY <1>1, <1>2, <1>3, InsertAtProperties, OneMore
  <2>2. os' = [os EXCEPT !.queue = os'.queue] /\ sent' = [sent EXCEPT !.queue = sent'.queue]
    BY <1>1
  <2>3. os' \in [queue : Seq(Notes), exists : BOOLEAN, number : Nat]
    BY <1>1, <2>1, <2>2 DEF MqTypes
  <2>4. sent' \in [{"queue"} -> Seq(Notes)]
    BY <1>1, <2>1, <2>2 DEF MqTypes
  <2> QED BY <1>1, <2>3, <2>4 DEF MqTypes
<1> QED BY <1>5, <1>6, <1>8, <1>9, <1>10, <1>11 DEF MqOrder

\* mq_receive: the first message goes to one receiver, which prints a text it has been sent.
LEMMA MqOrderReceived ==
  ASSUME MqOrder, NEW r \in Receivers, os.queue # <<>>, at' = at, NEW m, m = Head(os.queue),
         NEW t, t = IF m.length = 0 THEN local.mtext[r] ELSE m.text,
         local' = [local EXCEPT !.mtext[r] = t], got' = [got EXCEPT ![r] = Append(@, [message |-> m, text |-> t])],
         os' = [os EXCEPT !.queue = Tail(@)], sent' = sent
  PROVE  MqOrder'
<1> DEFINE Kinds == [message : Notes, text : Senders \cup {Old}]
<1>1. /\ MqTypes /\ os.queue \in Seq(Notes) /\ os'.queue = Tail(os.queue) /\ got \in [Receivers -> Seq(Kinds)]
      /\ local \in QueuesLocals
  BY DEF MqOrder, MqTypes
<1>2. m \in Notes /\ Tail(os.queue) \in Seq(Notes)
  BY <1>1, HeadTailProperties
<1>3. PICK e : e = [message |-> m, text |-> t]
  OBVIOUS
<1>4. t \in Senders \cup {Old} /\ e \in Kinds /\ e.message = m /\ e.text = t
  <2>1. local.mtext[r] \in Senders \cup {Old} /\ m.text \in Senders
    BY <1>1, <1>2 DEF QueuesLocals, Notes
  <2> QED BY <1>2, <1>3, <2>1
<1>5. /\ got[r] \in Seq(Kinds) /\ got'[r] = Append(got[r], e) /\ \A q \in Receivers : q # r => got'[q] = got[q]
      /\ got' = [got EXCEPT ![r] = Append(got[r], e)]
  BY <1>1, <1>3
<1> HIDE DEF Kinds
<1>6. PICK n \in Nat : n = Len(got[r])
  BY <1>5, LenProperties
<1>7. /\ Append(got[r], e) \in Seq(Kinds) /\ Len(got'[r]) = n + 1 /\ got'[r][n + 1] = e
      /\ \A i \in 1 .. n : got'[r][i] = got[r][i]
  BY <1>4, <1>5, <1>6, OneMore
<1>8. local' \in QueuesLocals /\ local'.mtext[r] = t /\ \A q \in Receivers : q # r => local'.mtext[q] = local.mtext[q]
  <2>1. local'.mtext = [local.mtext EXCEPT ![r] = t] /\ local' = [local EXCEPT !.mtext = local'.mtext]
    BY <1>1 DEF QueuesLocals
  <2>2. local.mtext \in [Receivers -> Senders \cup {Old}]
    BY <1>1 DEF QueuesLocals
  <2>3. local'.mtext \in [Receivers -> Senders \cup {Old}]
    BY <1>4, <2>1, <2>2
  <2>4. local' \in QueuesLocals
    BY <1>1, <2>1, <2>3 DEF QueuesLocals
  <2> QED BY <2>1, <2>2, <2>4
<1>9. MqTypes'
  <2>1. got' \in [Receivers -> Seq(Kinds)]
    BY <1>1, <1>5, <1>7
  <2>2. os' = [os EXCEPT !.queue = Tail(os.queue)]
    BY <1>1
  <2>3. os' \in [queue : Seq(Notes), exists : BOOLEAN, number : Nat]
    BY <1>1, <1>2, <2>2 DEF MqTypes
  <2> QED BY <1>1, <1>8, <2>1, <2>3 DEF MqTypes, Kinds
<1>10. /\ Sorted(os'.queue, sent.queue) /\ Before(m, os'.queue, sent.queue)
       /\ \A k : Before(k, os.queue, sent.queue) =>
            /\ Before(k, os'.queue, sent.queue) /\ k # m
            /\ k.prio = m.prio => Earlier(sent.queue, k, m)
  BY <1>1, SortedTaken DEF MqOrder
<1>11. /\ \A q \in Receivers : \A i \in 1 .. Len(got[q]) : Before(got[q][i].message, os.queue, sent.queue)
       /\ \A q \in Receivers : TextOf(got[q], Len(got[q]), local.mtext[q])
  BY DEF MqOrder
<1>12. \A i \in 1 .. n + 1 : i \in 1 .. n \/ i = n + 1
  OBVIOUS
\* What r has now got, and what another receiver has.
<1>13. ASSUME NEW q \in Receivers, NEW i \in 1 .. Len(got'[q])
       PROVE  \/ i \in 1 .. Len(got[q]) /\ got'[q][i] = got[q][i]
              \/ q = r /\ i = n + 1 /\ got'[q][i] = e
  BY <1>5, <1>6, <1>7, <1>12, <1>13
<1>14. \A q \in Receivers : \A i \in 1 .. Len(got'[q]) : Before(got'[q][i].message, os'.queue, sent.queue)
  BY <1>4, <1>10, <1>11, <1>13
<1>15. ASSUME NEW p \in Receivers, NEW q \in Receivers, NEW i \in 1 .. Len(got'[p]), NEW j \in 1 .. Len(got'[q]),
              got'[p][i].message = got'[q][j].message
       PROVE  p = q /\ i = j
  <2>1. CASE i \in 1 .. Len(got[p]) /\ got'[p][i] = got[p][i]
    <3>1. CASE j \in 1 .. Len(got[q]) /\ got'[q][j] = got[q][j]
      BY <1>15, <2>1, <3>1 DEF MqOrder, MqGot
    <3>2. CASE got'[q][j] = e
      BY <1>4, <1>10, <1>11, <1>15, <2>1, <3>2
    <3> QED BY <1>13, <3>1, <3>2
  <2>2. CASE p = r /\ i = n + 1 /\ got'[p][i] = e
    <3>1. CASE j \in 1 .. Len(got[q]) /\ got'[q][j] = got[q][j]
      BY <1>4, <1>10, <1>11, <1>15, <2>2, <3>1
    <3>2. CASE q = r /\ j = n + 1
      BY <2>2, <3>2
    <3> QED BY <1>13, <3>1, <3>2
  <2> QED BY <1>13, <2>1, <2>2
<1>16. ASSUME NEW q \in Receivers, NEW i \in 1 .. Len(got'[q]), NEW j \in 1 .. Len(got'[q]), i < j,
              got'[q][i].message.prio = got'[q][j].message.prio
       PROVE  Earlier(sent.queue, got'[q][i].message, got'[q][j].message)
  <2>1. CASE j \in 1 .. Len(got[q]) /\ got'[q][j] = got[q][j]
    <3>1. i \in 1 .. Len(got[q]) /\ got'[q][i] = got[q][i]
      <4>1. CASE q = r
        BY <1>6, <1>7, <1>16, <2>1, <4>1
      <4>2. CASE q # r
        BY <1>5, <4>2
      <4> QED BY <4>1, <4>2
    <3> QED BY <1>16, <2>1, <3>1 DEF MqOrder, MqGot
  <2>2. CASE q = r /\ j = n + 1 /\ got'[q][j] = e
    <3>1. i \in 1 .. n
      BY <1>6, <1>7, <1>16, <2>2
    <3>2. Before(got[q][i].message, os.queue, sent.queue) /\ got'[q][i] = got[q][i]
      BY <1>6, <1>7, <1>11, <2>2, <3>1
    <3> QED BY <1>4, <1>10, <1>16, <2>2, <3>2
  <2> QED BY <1>13, <2>1, <2>2
<1>17. ASSUME NEW q \in Receivers, NEW k, NEW x, k <= Len(got[q]), TextOf(got[q], k, x), k \in Nat
       PROVE  TextOf(got'[q], k, x)
  <2>1. \A i \in 1 .. k : got'[q][i] = got[q][i]
    BY <1>5, <1>6, <1>7, <1>17
  <2> QED BY <1>17, <2>1 DEF TextOf
<1>18. TextOf(got'[r], n + 1, t)
  <2>1. CASE m.length = 0
    <3>1. TextOf(got[r], n, t)
      BY <1>6, <1>11, <2>1
    <3>2. t = Old \/ \E i \in 1 .. n : got'[r][i].message.text = t
      BY <1>7, <3>1 DEF TextOf
    <3>3. \A i \in 1 .. n : i \in 1 .. n + 1
      OBVIOUS
    <3> QED BY <3>2, <3>3 DEF TextOf
  <2>2. CASE m.length # 0
    <3>1. n + 1 \in 1 .. n + 1 /\ got'[r][n + 1].message.text = t
      BY <1>4, <1>7, <2>2
    <3> QED BY <3>1 DEF TextOf
  <2> QED BY <2>1, <2>2
<1>19. ASSUME NEW q \in Receivers, NEW j \in 1 .. Len(got'[q]) PROVE TextOf(got'[q], j, got'[q][j].text)
  <2>1. CASE j \in 1 .. Len(got[q]) /\ got'[q][j] = got[q][j]
    <3>1. TextOf(got[q], j, got[q][j].text) /\ j \in Nat /\ j <= Len(got[q])
      BY <2>1 DEF MqOrder, MqGot
    <3>2. TextOf(got'[q], j, got[q][j].text)
      BY <1>17, <3>1
    <3> QED BY <2>1, <3>2
  <2>2. CASE q = r /\ j = n + 1 /\ got'[q][j] = e
    BY <1>4, <1>18, <2>2
  <2> QED BY <1>13, <2>1, <2>2
<1>20. ASSUME NEW q \in Receivers PROVE TextOf(got'[q], Len(got'[q]), local'.mtext[q])
  <2>1. CASE q = r
    BY <1>7, <1>8, <1>18, <2>1
  <2>2. CASE q # r
    <3>1. Len(got[q]) \in Nat /\ Len(got[q]) <= Len(got[q])
      BY <1>1, LenProperties
    <3> QED BY <1>5, <1>8, <1>11, <1>17, <2>2, <3>1
  <2> QED BY <2>1, <2>2
<1>21. MqGot'
  BY <1>15, <1>16, <1>19 DEF MqGot
<1>22. \A i \in 1 .. Len(sent'.queue) : at'[sent'.queue[i].text] = "ended"
  BY DEF MqOrder
<1> QED BY <1>9, <1>10, <1>14, <1>20, <1>21, <1>22 DEF MqOrder

\* Every step of msend_posix.c and mreceive_posix.c keeps the order.
LEMMA MqOrderStep ==
  ASSUME QueuesInv, program = "mq", MqOrder, NEW p \in Queues!Actors, Queues!Step(p)
  PROVE  MqOrder'
<1>1. at \in [Queues!Actors -> QueuesPlaces] /\ Senders \cap Receivers = {} /\ MqTypes
  BY MCProgramsAssumption DEF QueuesInv, MqOrder
<1>2. ASSUME Queues!Create(p) PROVE MqOrder'
  <2>1. /\ at[p] = "start" /\ at' = [at EXCEPT ![p] = "receive"] /\ UNCHANGED <<sent, got>>
        /\ os' = (IF os.exists THEN os ELSE [queue |-> <<>>, exists |-> TRUE, number |-> os.number + 1])
        /\ local' = [local EXCEPT !.id[p] = os'.number]
    BY <1>2 DEF Queues!Create, Queues!Go, Queues!OpenQueue
  <2>2. "receive" \in QueuesPlaces /\ <<>> \in Seq(Notes) /\ os.number + 1 \in Nat
    BY <1>1, EmptySeq DEF QueuesPlaces, MqTypes
  <2>3. /\ os' \in [queue : Seq(Notes), exists : BOOLEAN, number : Nat]
        /\ os'.queue = os.queue \/ os'.queue = <<>>
    BY <1>1, <2>1, <2>2 DEF MqTypes
  <2>4. os'.number \in Nat
    BY <2>3
  <2> QED BY <1>1, <2>1, <2>2, <2>3, <2>4, MqOrderOpened
<1>3. ASSUME Queues!Find(p) PROVE MqOrder'
  <2>1. PICK to, n : /\ at[p] = "start" /\ at' = [at EXCEPT ![p] = to] /\ UNCHANGED <<os, sent, got>>
                     /\ local' = [local EXCEPT !.id[p] = n] /\ to \in {"send", "ended"} /\ n \in {0, os.number}
    BY <1>3 DEF Queues!Find, Queues!Go, Queues!OpenQueue
  <2>2. to \in QueuesPlaces /\ n \in Nat
    BY <1>1, <2>1 DEF QueuesPlaces, MqTypes
  <2>3. os' \in [queue : Seq(Notes), exists : BOOLEAN, number : Nat]
    BY <1>1, <2>1 DEF MqTypes
  <2> QED BY <1>1, <2>1, <2>2, <2>3, MqOrderOpened
<1>4. ASSUME p \in Senders, Queues!mq_send(p) PROVE MqOrder'
  <2>1. PICK prio \in Priorities, length \in Lengths \cap {0, 1} :
          LET m == [text |-> p, length |-> length, prio |-> prio]
          IN  /\ os' = [os EXCEPT !.queue = Queues!InsertAt(@, Queues!Behind(m), m)]
              /\ sent' = [sent EXCEPT !.queue = Append(@, m)]
              /\ at[p] = "send" /\ at' = [at EXCEPT ![p] = "ended"] /\ UNCHANGED <<local, got>>
    BY <1>4 DEF Queues!mq_send, Queues!Go
  <2>2. PICK m \in Notes : m = [text |-> p, length |-> length, prio |-> prio]
    BY <1>4 DEF Notes
  <2>3. m.text = p
    BY <2>2
  <2> QED BY <1>1, <1>4, <2>1, <2>2, <2>3, MqOrderSent
<1>5. ASSUME p \in Receivers, Queues!mq_receive(p) PROVE MqOrder'
  <2>1. PICK m, t :
          /\ m = Head(os.queue) /\ t = (IF m.length = 0 THEN local.mtext[p] ELSE m.text)
          /\ local' = [local EXCEPT !.mtext[p] = t]
          /\ got' = [got EXCEPT ![p] = Append(@, [message |-> m, text |-> t])]
    BY <1>5 DEF Queues!mq_receive
  <2>2. /\ os.queue # <<>> /\ at[p] = "receive" /\ at' = [at EXCEPT ![p] = "receive"]
        /\ os' = [os EXCEPT !.queue = Tail(@)] /\ sent' = sent
    BY <1>5 DEF Queues!mq_receive, Queues!Go
  <2>3. at' = at
    BY <1>1, <2>2
  <2> QED BY <1>5, <2>1, <2>2, <2>3, MqOrderReceived
<1> QED BY <1>1, <1>2, <1>3, <1>4, <1>5
        DEF Queues!Step, Queues!msend_posix, Queues!mreceive_posix, Queues!Actors

\* Hence the messages are received once, and by one receiver in the order of their priority.
LEMMA MqInOrder == MqOrder /\ program = "mq" => Queues!InOrder
<1> SUFFICES ASSUME MqOrder, program = "mq" PROVE Queues!InOrder
  OBVIOUS
<1>1. /\ sent.queue \in Seq(Notes) /\ DOMAIN sent.queue = 1 .. Len(sent.queue)
      /\ \A r \in Receivers : Len(got[r]) \in Nat /\ DOMAIN got[r] = 1 .. Len(got[r])
  BY LenProperties DEF MqOrder, MqTypes
<1>2. ASSUME NEW r \in Receivers, NEW q \in Receivers, NEW i \in DOMAIN got[r], NEW j \in DOMAIN got[q],
             got[r][i].message = got[q][j].message
      PROVE  r = q /\ i = j
  <2>1. i \in 1 .. Len(got[r]) /\ j \in 1 .. Len(got[q])
    BY <1>1
  <2> QED BY <1>2, <2>1 DEF MqOrder, MqGot
<1>3. ASSUME NEW r \in Receivers, NEW j \in DOMAIN got[r], NEW i \in 1 .. j - 1,
             got[r][i].message.prio = got[r][j].message.prio
      PROVE  \E m, n \in DOMAIN sent.queue :
               m < n /\ sent.queue[m] = got[r][i].message /\ sent.queue[n] = got[r][j].message
  <2>1. i \in 1 .. Len(got[r]) /\ j \in 1 .. Len(got[r]) /\ i < j
    BY <1>1
  <2>2. Earlier(sent.queue, got[r][i].message, got[r][j].message)
    BY <1>3, <2>1 DEF MqOrder, MqGot
  <2> QED BY <1>1, <2>2 DEF Earlier
<1>4. ASSUME NEW r \in Receivers, NEW j \in DOMAIN got[r]
      PROVE  got[r][j].text \in {Old} \cup {got[r][i].message.text : i \in 1 .. j}
  <2>1. j \in 1 .. Len(got[r])
    BY <1>1
  <2>2. TextOf(got[r], j, got[r][j].text)
    BY <2>1 DEF MqOrder, MqGot
  <2> QED BY <2>2 DEF TextOf
<1> QED BY <1>2, <1>3, <1>4 DEF Queues!InOrder

----------------------------------------------------------------------------
(* mpx-*.c                                                                 *)

\* Where main and its child may be, what the kernel has, and what main has.
InputPlaces ==
  {"open", "read", "fork", "wait", "scan", "start", "print", "loop", "pause", "woken", "none", "ended", "failed"}

InputKernels ==
  [writer : [Pipes -> BOOLEAN], openings : [Pipes -> Nat], due : [Pipes -> Nat], taken : [Pipes -> Nat],
   pending : SUBSET {"SIGIO", "SIGINT"}, file : {"fifo"}]

InputLocals ==
  [i : 0 .. 2, watch : SUBSET Pipes, ready : SUBSET Pipes, aio : [Pipes -> {"none", "reading", "astray", "done"}],
   buf : [Pipes -> Seq(Nat)], full : BOOLEAN, wiped : BOOLEAN, astray : BOOLEAN, sigio : BOOLEAN, quit : BOOLEAN,
   late : BOOLEAN]

\* The types of all that mpx-*.c reads and changes.
InputTypes ==
  /\ program \in Input!Programs /\ at \in [{"main", "child"} -> InputPlaces]
  /\ os \in InputKernels
  /\ local \in InputLocals
  /\ sent \in [Pipes -> Seq(Nat)]

\* Whether a FIFO that a writer has had open will not give more, unless to a second one.
Ends(k) == os.openings[k] > 1 \/ (os.openings[k] = 1 /\ ~os.writer[k])

\* What is read is something that was written, by somebody who has opened the FIFO.
FifoInv ==
  \A k \in Pipes : os.taken[k] <= Len(sent[k]) /\ (os.writer[k] => os.openings[k] > 0)

\* select and poll: a FIFO that was reported, and has not been looked at since, has data or
\* has had its end.
ReportsInv ==
  program \in {"mpx-select", "mpx-poll"} /\ at.main = "scan" =>
    \A k \in local.ready : local.i <= k => Input!More(k) \/ Ends(k)

\* Asynchronous reads: they are started when a writer has come to both FIFOs, and one that
\* ended with no data was at the end, as long as none has gone astray.
ReadsInv ==
  IF program \notin Input!Asynchronous THEN \A k \in Pipes : local.aio[k] = "none"
  ELSE
    /\ at.main = "open" /\ local.i = 1 => os.openings[0] > 0
    /\ at.main = "start" => \A k \in Pipes : os.openings[k] > 0
    /\ at.main = "print" => local.aio[local.i] = "done"
    /\ \A k \in Pipes : local.aio[k] # "none" => os.openings[k] > 0
    /\ \A k \in Pipes : local.aio[k] = "astray" => local.astray
    /\ \A k \in Pipes : ~local.astray /\ local.aio[k] = "done" /\ local.buf[k] = <<>> =>
         os.openings[k] > 1 \/ (~Input!More(k) /\ ~os.writer[k])

\* Where main is, and its child: of mpx-fork alone, and after the fork.
MainInv ==
  /\ at.main # "scan" => local.i \in Pipes
  /\ at.main = "start" => local.i = 0
  /\ program # "mpx-fork" => at.child = "none"
  /\ at.child = "none" \/ (at.child \in {"read", "ended"} /\ at.main \in {"read", "ended"})
  /\ at.main = "failed" => program # "mpx-fork"

\* What the multiplexing programs keep.
InputInv == InputTypes /\ FifoInv /\ ReportsInv /\ ReadsInv /\ MainInv /\ Input!FailsOnlyAtEnd

\* At first no FIFO has had a writer, and nothing is watched or read.
LEMMA InputStarts == Input!Init => InputInv
<1> SUFFICES ASSUME Input!Init PROVE InputInv
  OBVIOUS
<1>1. /\ program \in Input!Programs /\ at = [main |-> "open", child |-> "none"]
      /\ os = [writer |-> [k \in Pipes |-> FALSE], openings |-> [k \in Pipes |-> 0], due |-> [k \in Pipes |-> 0],
               taken |-> [k \in Pipes |-> 0], pending |-> {}, file |-> "fifo"]
      /\ local = [i |-> 0, watch |-> Pipes, ready |-> {}, aio |-> [k \in Pipes |-> "none"],
                  buf |-> [k \in Pipes |-> <<>>], full |-> FALSE, wiped |-> FALSE, astray |-> FALSE, sigio |-> FALSE,
                  quit |-> FALSE, late |-> FALSE]
      /\ sent = [k \in Pipes |-> <<>>]
  BY DEF Input!Init, Input!Empty
<1>2. at \in [{"main", "child"} -> InputPlaces] /\ at.main = "open" /\ at.child = "none"
  BY <1>1 DEF InputPlaces
<1>3. InputTypes
  BY <1>1, <1>2, MCProgramsAssumption DEF InputTypes, InputKernels, InputLocals
<1>4. FifoInv /\ ReportsInv /\ MainInv /\ Input!FailsOnlyAtEnd
  BY <1>1, <1>2, MCProgramsAssumption DEF FifoInv, ReportsInv, MainInv, Input!FailsOnlyAtEnd
<1>5. ReadsInv
  BY <1>1, <1>2 DEF ReadsInv
<1> QED BY <1>3, <1>4, <1>5 DEF InputInv

\* What a read returns: numbers, as long as there are any, and no more than there are.
LEMMA ChunkOfInput ==
  ASSUME InputTypes, FifoInv, NEW k \in Pipes
  PROVE  /\ Input!Chunk(k) \in Seq(Nat) /\ Len(Input!Chunk(k)) \in Nat
         /\ os.taken[k] + Len(Input!Chunk(k)) <= Len(sent[k])
         /\ Input!More(k) => Input!Chunk(k) # <<>>
<1> DEFINE last == Input!Least(os.taken[k] + Block, Len(sent[k]))
<1>1. os.taken[k] \in Nat /\ sent[k] \in Seq(Nat) /\ Len(sent[k]) \in Nat /\ os.taken[k] <= Len(sent[k])
  BY DEF InputTypes, InputKernels, FifoInv
<1>2. Block \in Nat \ {0} BY MCProgramsAssumption
<1>3. /\ last \in os.taken[k] .. Len(sent[k]) /\ os.taken[k] + 1 \in 1 .. Len(sent[k]) + 1
      /\ Input!More(k) => last > os.taken[k]
  <2>1. CASE os.taken[k] + Block < Len(sent[k])
    <3>1. last = os.taken[k] + Block BY <2>1 DEF Input!Least
    <3> HIDE DEF last
    <3>2. last \in Int /\ os.taken[k] < last /\ last < Len(sent[k]) BY <1>1, <1>2, <2>1, <3>1
    <3> QED BY <1>1, <3>2
  <2>2. CASE ~(os.taken[k] + Block < Len(sent[k]))
    <3>1. last = Len(sent[k]) BY <2>2 DEF Input!Least
    <3> HIDE DEF last
    <3> QED BY <1>1, <1>2, <2>2, <3>1 DEF Input!More
  <2> QED BY <2>1, <2>2
<1>4. Input!Chunk(k) \in Seq(Nat) /\ Len(Input!Chunk(k)) = last - os.taken[k]
  <2> HIDE DEF last
  <2>1. Input!Chunk(k) = SubSeq(sent[k], os.taken[k] + 1, last) BY DEF Input!Chunk, last
  <2>2. os.taken[k] + 1 \in Int /\ last \in Int /\ \A i \in os.taken[k] + 1 .. last : sent[k][i] \in Nat
    <3>1. last \in Int /\ last <= Len(sent[k]) /\ os.taken[k] + 1 >= 1 BY <1>1, <1>3
    <3>2. \A i \in 1 .. Len(sent[k]) : sent[k][i] \in Nat BY <1>1
    <3>3. \A i \in os.taken[k] + 1 .. last : i \in 1 .. Len(sent[k]) BY <1>1, <3>1
    <3> QED BY <1>1, <3>1, <3>2, <3>3
  <2>3. /\ SubSeq(sent[k], os.taken[k] + 1, last) \in Seq(Nat)
        /\ Len(SubSeq(sent[k], os.taken[k] + 1, last)) =
             IF os.taken[k] + 1 <= last THEN last - (os.taken[k] + 1) + 1 ELSE 0
    BY <2>2, SubSeqProperties
  <2>4. /\ Input!Chunk(k) \in Seq(Nat)
        /\ Len(Input!Chunk(k)) = IF os.taken[k] + 1 <= last THEN last - (os.taken[k] + 1) + 1 ELSE 0
    BY <2>1, <2>3, Zenon
  <2>5. (IF os.taken[k] + 1 <= last THEN last - (os.taken[k] + 1) + 1 ELSE 0) = last - os.taken[k] BY <1>1, <1>3
  <2> QED BY <2>4, <2>5
<1> HIDE DEF last
<1>5. Len(Input!Chunk(k)) \in Nat /\ os.taken[k] + Len(Input!Chunk(k)) <= Len(sent[k]) BY <1>1, <1>3, <1>4
<1>6. ASSUME Input!More(k) PROVE Input!Chunk(k) # <<>>
  <2>1. Len(Input!Chunk(k)) > 0 BY <1>1, <1>3, <1>4, <1>6
  <2> QED BY <2>1
<1> QED BY <1>4, <1>5, <1>6

\* What it leaves: the writers are where they were, and an end stays one.
LEMMA TakenFromInput ==
  ASSUME InputTypes, FifoInv, NEW k \in Pipes, sent' = sent, os' = Input!Take(k)
  PROVE  /\ os' \in InputKernels
         /\ os'.writer = os.writer /\ os'.openings = os.openings /\ os'.pending = os.pending
         /\ FifoInv'
         /\ \A q \in Pipes : (Input!More(q)' => Input!More(q)) /\ (q # k => (Input!More(q)' <=> Input!More(q)))
<1>1. Len(Input!Chunk(k)) \in Nat /\ os.taken[k] + Len(Input!Chunk(k)) <= Len(sent[k]) BY ChunkOfInput
<1>2. /\ os'.writer = os.writer /\ os'.openings = os.openings /\ os'.due = os.due /\ os'.pending = os.pending
      /\ os'.file = os.file /\ os'.taken = [os.taken EXCEPT ![k] = @ + Len(Input!Chunk(k))]
      /\ os' = [os EXCEPT !.taken = os'.taken]
  BY DEF Input!Take, InputTypes, InputKernels
<1>3. /\ os'.taken \in [Pipes -> Nat] /\ os'.taken[k] = os.taken[k] + Len(Input!Chunk(k))
      /\ \A q \in Pipes \ {k} : os'.taken[q] = os.taken[q]
  BY <1>1, <1>2 DEF InputTypes, InputKernels
<1>4. os' \in InputKernels
  BY <1>2, <1>3 DEF InputTypes, InputKernels
<1>5. FifoInv'
  BY <1>1, <1>2, <1>3 DEF FifoInv, InputTypes, InputKernels
<1>6. \A q \in Pipes : os.taken[q] \in Nat /\ Len(sent[q]) \in Nat BY DEF InputTypes, InputKernels
<1>7. \A q \in Pipes : (Input!More(q)' => Input!More(q)) /\ (q # k => (Input!More(q)' <=> Input!More(q)))
  BY <1>1, <1>3, <1>6 DEF Input!More
<1> QED BY <1>2, <1>4, <1>5, <1>7

\* A step of main, or of the child, that changes no FIFO.
LEMMA InputKept ==
  ASSUME InputInv, os'.writer = os.writer, os'.openings = os.openings, os'.taken = os.taken, sent' = sent
  PROVE  /\ FifoInv'
         /\ \A k \in Pipes : (Ends(k)' <=> Ends(k)) /\ (Input!More(k)' <=> Input!More(k))
BY DEF InputInv, FifoInv, Ends, Input!More

\* Writers come to a FIFO that is being read, write into it, and leave it.
LEMMA InputWriter ==
  ASSUME InputInv, Input!Writer
  PROVE  InputInv'
<1>0. /\ InputTypes /\ FifoInv /\ ReportsInv /\ ReadsInv /\ MainInv /\ Input!FailsOnlyAtEnd
      /\ program' = program /\ at' = at /\ local' = local
  BY DEF InputInv, Input!Writer, Input!WriterOpens, Input!WriterWrites, Input!WriterCloses
<1> PICK k \in Pipes : \/ Input!WriterOpens(k) /\ Input!Reading(k)
                       \/ Input!WriterWrites(k) /\ Input!Reading(k)
                       \/ Input!WriterCloses(k)
  BY DEF Input!Writer
<1>1. at.main # "failed" \/ Input!WriterCloses(k)
  BY <1>0 DEF MainInv, Input!Reading
<1>2. ASSUME NEW q \in Pipes
      PROVE  /\ os.writer[q] \in BOOLEAN /\ os.openings[q] \in Nat /\ os.due[q] \in Nat /\ os.taken[q] \in Nat
             /\ sent[q] \in Seq(Nat) /\ Len(sent[q]) \in Nat
  BY <1>0 DEF InputTypes, InputKernels
<1>3. /\ os' \in InputKernels
      /\ sent' \in [Pipes -> Seq(Nat)] /\ os'.taken = os.taken
      /\ \A q \in Pipes \ {k} : os'.writer[q] = os.writer[q] /\ os'.openings[q] = os.openings[q]
      /\ \/ /\ sent' = sent /\ ~os.writer[k] /\ os'.writer[k] /\ os'.openings[k] = os.openings[k] + 1
         \/ /\ Len(sent'[k]) = Len(sent[k]) + 1 /\ \A q \in Pipes \ {k} : sent'[q] = sent[q]
            /\ os'.writer = os.writer /\ os'.openings = os.openings /\ ~Input!WriterCloses(k)
         \/ sent' = sent /\ ~os'.writer[k] /\ os'.openings = os.openings
  <2>1. CASE Input!WriterOpens(k)
    <3>1. os' = [os EXCEPT !.writer[k] = TRUE, !.openings[k] = @ + 1] /\ sent' = sent /\ ~os.writer[k]
      BY <2>1 DEF Input!WriterOpens
    <3>2. /\ os'.writer = [os.writer EXCEPT ![k] = TRUE]
          /\ os'.openings = [os.openings EXCEPT ![k] = os.openings[k] + 1]
          /\ os' = [os EXCEPT !.writer = os'.writer, !.openings = os'.openings]
      BY <1>0, <3>1 DEF InputTypes, InputKernels
    <3>3. os'.writer \in [Pipes -> BOOLEAN] /\ os'.writer[k] /\ \A q \in Pipes \ {k} : os'.writer[q] = os.writer[q]
      BY <1>0, <3>2 DEF InputTypes, InputKernels
    <3>4. /\ os'.openings \in [Pipes -> Nat] /\ os'.openings[k] = os.openings[k] + 1
          /\ \A q \in Pipes \ {k} : os'.openings[q] = os.openings[q]
      BY <1>0, <1>2, <3>2 DEF InputTypes, InputKernels
    <3>5. /\ os' \in InputKernels
          /\ os'.taken = os.taken
      <4>1. os \in InputKernels BY <1>0 DEF InputTypes
      <4>2. os' = [writer |-> os'.writer, openings |-> os'.openings, due |-> os.due, taken |-> os.taken,
                   pending |-> os.pending, file |-> os.file]
        BY <3>2, <4>1 DEF InputKernels
      <4>3. /\ os.due \in [Pipes -> Nat] /\ os.taken \in [Pipes -> Nat] /\ os.file = "fifo"
            /\ os.pending \in SUBSET {"SIGIO", "SIGINT"}
        BY <4>1 DEF InputKernels
      <4> QED BY <3>3, <3>4, <4>2, <4>3 DEF InputKernels
    <3> QED BY <1>0, <3>1, <3>3, <3>4, <3>5 DEF InputTypes, InputKernels
  <2>2. CASE Input!WriterWrites(k)
    <3>1. /\ os' = [os EXCEPT !.due[k] = IF os.openings[k] = 1 THEN @ + 1 ELSE @] /\ os.writer[k]
          /\ sent' = [sent EXCEPT ![k] = Append(sent[k], Len(sent[k]) + 1)]
      BY <1>0, <2>2 DEF Input!WriterWrites, InputTypes, InputKernels
    <3>2. /\ os'.due = [os.due EXCEPT ![k] = IF os.openings[k] = 1 THEN os.due[k] + 1 ELSE os.due[k]]
          /\ os' = [os EXCEPT !.due = os'.due]
      BY <1>0, <3>1 DEF InputTypes, InputKernels
    <3>3. os'.due \in [Pipes -> Nat]
      BY <1>0, <1>2, <3>2 DEF InputTypes, InputKernels
    <3>4. /\ os' \in InputKernels
          /\ os'.taken = os.taken /\ os'.writer = os.writer /\ os'.openings = os.openings
      BY <1>0, <3>2, <3>3 DEF InputTypes, InputKernels
    <3>5. Append(sent[k], Len(sent[k]) + 1) \in Seq(Nat) /\ Len(Append(sent[k], Len(sent[k]) + 1)) = Len(sent[k]) + 1
      BY <1>2
    <3>6. /\ sent' \in [Pipes -> Seq(Nat)] /\ Len(sent'[k]) = Len(sent[k]) + 1
          /\ \A q \in Pipes \ {k} : sent'[q] = sent[q]
      BY <1>0, <3>1, <3>5 DEF InputTypes, InputKernels
    <3>7. ~Input!WriterCloses(k)
      <4>1. ASSUME Input!WriterCloses(k) PROVE FALSE
        <5>1. sent'[k] = sent[k] BY <4>1 DEF Input!WriterCloses
        <5> QED BY <1>2, <3>6, <5>1
      <4> QED BY <4>1
    <3> QED BY <3>4, <3>6, <3>7
  <2>3. CASE Input!WriterCloses(k)
    <3>1. os' = [os EXCEPT !.writer[k] = FALSE] /\ sent' = sent
      BY <2>3 DEF Input!WriterCloses
    <3>2. os'.writer = [os.writer EXCEPT ![k] = FALSE] /\ os' = [os EXCEPT !.writer = os'.writer]
      BY <1>0, <3>1 DEF InputTypes, InputKernels
    <3>3. os'.writer \in [Pipes -> BOOLEAN] /\ ~os'.writer[k] /\ \A q \in Pipes \ {k} : os'.writer[q] = os.writer[q]
      BY <1>0, <3>2 DEF InputTypes, InputKernels
    <3>4. /\ os' \in InputKernels
          /\ os'.taken = os.taken /\ os'.openings = os.openings
      BY <1>0, <3>2, <3>3 DEF InputTypes, InputKernels
    <3> QED BY <1>0, <3>1, <3>3, <3>4 DEF InputTypes, InputKernels
  <2> QED BY <2>1, <2>2, <2>3
<1>4. ASSUME NEW q \in Pipes
      PROVE  /\ os'.writer[q] \in BOOLEAN /\ os'.openings[q] \in Nat /\ Len(sent'[q]) \in Nat
             /\ os'.taken[q] = os.taken[q]
             /\ os.openings[q] <= os'.openings[q] /\ Len(sent[q]) <= Len(sent'[q])
             /\ \/ ~os.writer[q] /\ os'.openings[q] = os.openings[q] + 1 /\ sent'[q] = sent[q]
                \/ os.writer[q] /\ os'.writer[q] /\ os'.openings[q] = os.openings[q]
                \/ os'.openings[q] = os.openings[q] /\ sent'[q] = sent[q] /\ (os'.writer[q] => os.writer[q])
  <2>0. os'.writer[q] \in BOOLEAN /\ os'.openings[q] \in Nat /\ Len(sent'[q]) \in Nat
    BY <1>3 DEF InputKernels
  <2>1. CASE q = k
    <3>1. CASE sent' = sent /\ ~os.writer[k] /\ os'.writer[k] /\ os'.openings[k] = os.openings[k] + 1
      BY <1>2, <1>3, <2>0, <2>1, <3>1
    <3>2. CASE Input!WriterWrites(k)
      <4>1. os.writer[k] /\ ~(sent' = sent) BY <1>2, <1>3, <3>2 DEF Input!WriterWrites
      <4> QED BY <1>2, <1>3, <2>0, <2>1, <4>1
    <3>3. CASE sent' = sent /\ ~os'.writer[k] /\ os'.openings = os.openings
      BY <1>2, <1>3, <2>0, <2>1, <3>3
    <3>4. Input!WriterOpens(k) => sent' = sent BY DEF Input!WriterOpens
    <3>5. sent' = sent => Len(sent'[k]) # Len(sent[k]) + 1 BY <1>2
    <3> QED BY <1>3, <3>1, <3>2, <3>3, <3>4, <3>5
  <2>2. CASE q # k BY <1>2, <1>3, <2>0, <2>2
  <2> QED BY <2>1, <2>2
<1>5. InputTypes' /\ MainInv'
  BY <1>0, <1>3 DEF InputTypes, InputKernels, MainInv
<1>6. FifoInv'
  BY <1>0, <1>2, <1>4 DEF FifoInv
<1>7. \A q \in Pipes : Input!More(q) => Input!More(q)'
  BY <1>2, <1>4 DEF Input!More
<1>8. \A q \in Pipes : Ends(q) => Ends(q)'
  BY <1>0, <1>2, <1>4 DEF Ends
<1>9. ReportsInv'
  BY <1>0, <1>7, <1>8 DEF ReportsInv, InputTypes, InputLocals
<1>10. ReadsInv'
  <2>1. ASSUME NEW q \in Pipes, os.openings[q] > 1 \/ (~Input!More(q) /\ ~os.writer[q]), os.openings[q] > 0
        PROVE  os'.openings[q] > 1 \/ (~Input!More(q)' /\ ~os'.writer[q])
    BY <1>2, <1>4, <2>1 DEF Input!More
  <2>2. \A q \in Pipes : os.openings[q] > 0 => os'.openings[q] > 0 BY <1>2, <1>4
  <2> QED BY <1>0, <2>1, <2>2, MCProgramsAssumption DEF ReadsInv
<1>11. Input!FailsOnlyAtEnd'
  <2>1. CASE at.main = "failed"
    <3>1. sent' = sent /\ local.i \in Pipes BY <1>0, <1>1, <2>1 DEF Input!WriterCloses, MainInv
    <3> QED BY <1>0, <1>2, <1>4, <2>1, <3>1 DEF Input!FailsOnlyAtEnd, Input!More
  <2>2. CASE at.main # "failed" BY <1>0, <2>2 DEF Input!FailsOnlyAtEnd
  <2> QED BY <2>1, <2>2
<1> QED BY <1>5, <1>6, <1>9, <1>10, <1>11 DEF InputInv

\* The locals that the loops of main change.
LEMMA InputLoop ==
  ASSUME InputTypes, NEW i \in 0 .. 2, local' = [local EXCEPT !.i = i]
  PROVE  /\ local' \in InputLocals /\ local'.i = i /\ local'.ready = local.ready
         /\ local'.aio = local.aio /\ local'.buf = local.buf /\ local'.astray = local.astray
BY DEF InputTypes, InputLocals

\* What select or poll reported, and where the scan is.
LEMMA InputReported ==
  ASSUME InputTypes, NEW i \in 0 .. 2, NEW ready \in SUBSET Pipes, local' = [local EXCEPT !.ready = ready, !.i = i]
  PROVE  /\ local' \in InputLocals /\ local'.i = i /\ local'.ready = ready
         /\ local'.aio = local.aio /\ local'.buf = local.buf /\ local'.astray = local.astray
<1>1. local \in InputLocals BY DEF InputTypes
<1>2. local' = [i |-> i, watch |-> local.watch, ready |-> ready, aio |-> local.aio, buf |-> local.buf,
                full |-> local.full, wiped |-> local.wiped, astray |-> local.astray, sigio |-> local.sigio,
                quit |-> local.quit, late |-> local.late]
  BY <1>1 DEF InputLocals
<1>3. /\ local.aio \in [Pipes -> {"none", "reading", "astray", "done"}] /\ local.buf \in [Pipes -> Seq(Nat)]
      /\ local.full \in BOOLEAN /\ local.wiped \in BOOLEAN /\ local.sigio \in BOOLEAN /\ local.quit \in BOOLEAN
      /\ local.astray \in BOOLEAN /\ local.late \in BOOLEAN
      /\ local.watch \in SUBSET Pipes
  BY <1>1 DEF InputLocals
<1> QED BY <1>2, <1>3 DEF InputLocals

\* What is still watched, and where the scan is.
LEMMA InputWatched ==
  ASSUME InputTypes, NEW i \in 0 .. 2, NEW watch \in SUBSET Pipes, local' = [local EXCEPT !.watch = watch, !.i = i]
  PROVE  /\ local' \in InputLocals /\ local'.i = i /\ local'.ready = local.ready
         /\ local'.aio = local.aio /\ local'.buf = local.buf /\ local'.astray = local.astray
<1>1. local \in InputLocals BY DEF InputTypes
<1>2. local' = [i |-> i, watch |-> watch, ready |-> local.ready, aio |-> local.aio, buf |-> local.buf,
                full |-> local.full, wiped |-> local.wiped, astray |-> local.astray, sigio |-> local.sigio,
                quit |-> local.quit, late |-> local.late]
  BY <1>1 DEF InputLocals
<1>3. /\ local.aio \in [Pipes -> {"none", "reading", "astray", "done"}] /\ local.buf \in [Pipes -> Seq(Nat)]
      /\ local.full \in BOOLEAN /\ local.wiped \in BOOLEAN /\ local.sigio \in BOOLEAN /\ local.quit \in BOOLEAN
      /\ local.astray \in BOOLEAN /\ local.late \in BOOLEAN
      /\ local.ready \in SUBSET Pipes
  BY <1>1 DEF InputLocals
<1> QED BY <1>2, <1>3 DEF InputLocals

\* What the scan looks at are FIFOs.
LEMMA InputLooks == InputTypes => local.watch \in SUBSET Pipes /\ local.ready \in SUBSET Pipes
                    /\ local.i \in {0, 1, 2}
BY DEF InputTypes, InputLocals

\* Main opens the FIFOs; where opening waits for a writer, one has come.
LEMMA InputOpens ==
  ASSUME InputInv, NEW first \in {"read", "fork", "wait", "start"}, Input!OpenPipe(first),
         program \in Input!Asynchronous => first = "start", first = "start" => program \in Input!Asynchronous
  PROVE  InputInv'
<1>0. /\ InputTypes /\ FifoInv /\ ReportsInv /\ ReadsInv /\ MainInv /\ Input!FailsOnlyAtEnd
      /\ program' = program /\ os' = os /\ sent' = sent /\ at.main = "open"
  BY DEF InputInv, Input!OpenPipe, Input!Go
<1>1. /\ local.i \in {0, 1} /\ local' = [local EXCEPT !.i = 1 - local.i]
      /\ at' = [at EXCEPT !["main"] = IF local.i = 0 THEN "open" ELSE first]
  BY <1>0, MCProgramsAssumption DEF Input!OpenPipe, Input!Go, MainInv, InputTypes
<1>2. /\ local' \in InputLocals
      /\ local'.i = 1 - local.i /\ local'.aio = local.aio /\ local'.buf = local.buf /\ local'.astray = local.astray
  <2>1. 1 - local.i \in 0 .. 2 BY <1>1
  <2> QED BY <1>0, <1>1, <2>1, InputLoop
<1>3. /\ at' \in [{"main", "child"} -> InputPlaces] /\ at'.child = at.child
      /\ at'.main = IF local.i = 0 THEN "open" ELSE first
  BY <1>0, <1>1 DEF InputTypes, InputPlaces
<1>4. InputTypes' BY <1>0, <1>2, <1>3 DEF InputTypes
<1>5. FifoInv' /\ \A k \in Pipes : Input!More(k)' <=> Input!More(k) BY <1>0, InputKept
<1>6. MainInv'
  BY <1>0, <1>1, <1>2, <1>3, MCProgramsAssumption DEF MainInv
<1>7. ReportsInv' /\ Input!FailsOnlyAtEnd'
  BY <1>3 DEF ReportsInv, Input!FailsOnlyAtEnd
<1>8. ReadsInv'
  <2>1. ASSUME program \in Input!Asynchronous PROVE os.openings[local.i] > 0 /\ first = "start"
    BY <2>1 DEF Input!OpenPipe, Input!NonBlocking, Input!Asynchronous
  <2> QED BY <1>0, <1>1, <1>2, <1>3, <1>5, <2>1, MCProgramsAssumption DEF ReadsInv
<1> QED BY <1>4, <1>5, <1>6, <1>7, <1>8 DEF InputInv

\* A step of the programs that read without waiting for a report, and mpx-fork.
LEMMA InputReads ==
  ASSUME InputInv, program' = program, program \in {"mpx-blocks", "mpx-nonblock", "mpx-fork"},
         at' \in [{"main", "child"} -> {"read", "ended", "none"}], at'.main # "none",
         program # "mpx-fork" => at'.child = at.child, sent' = sent,
         local' = local \/ local' = [local EXCEPT !.i = 1 - @], at.main # "scan",
         os' = os \/ \E k \in Pipes : os' = Input!Take(k)
  PROVE  InputInv'
<1>0. InputTypes /\ FifoInv /\ MainInv /\ ReadsInv BY DEF InputInv
<1>1. /\ local' \in InputLocals
      /\ local'.i \in Pipes /\ local'.aio = local.aio
  <2>1. CASE local' = local BY <1>0, <2>1 DEF InputTypes, MainInv
  <2>2. CASE local' = [local EXCEPT !.i = 1 - @]
    <3>1. 1 - local.i \in Pipes /\ 1 - local.i \in 0 .. 2 BY <1>0, MCProgramsAssumption DEF MainInv
    <3>2. local' = [local EXCEPT !.i = 1 - local.i] BY <2>2
    <3> QED BY <1>0, <3>1, <3>2, InputLoop
  <2> QED BY <2>1, <2>2
<1>2. /\ os' \in InputKernels
      /\ FifoInv'
  <2>1. CASE os' = os BY <1>0, <2>1, InputKept DEF InputTypes
  <2>2. CASE \E k \in Pipes : os' = Input!Take(k) BY <1>0, <2>2, TakenFromInput
  <2> QED BY <2>1, <2>2
<1>3. InputTypes'
  BY <1>0, <1>1, <1>2 DEF InputTypes, InputPlaces
<1>4. at'.main \in {"read", "ended"} /\ at'.child \in {"none", "read", "ended"} OBVIOUS
<1>5. ReportsInv' /\ ReadsInv' /\ MainInv' /\ Input!FailsOnlyAtEnd'
  BY <1>0, <1>1, <1>4 DEF ReportsInv, ReadsInv, MainInv, Input!FailsOnlyAtEnd, Input!Asynchronous
<1> QED BY <1>2, <1>3, <1>5 DEF InputInv

\* select or poll returns: each FIFO it reports has data, or has had its end.
LEMMA InputWaits ==
  ASSUME InputInv, program' = program, program \in {"mpx-select", "mpx-poll"}, NEW reports \in SUBSET Pipes,
         \A k \in reports : Input!More(k) \/ Input!HungUp(k), Input!WaitFor(reports)
  PROVE  InputInv'
<1>0. /\ InputTypes /\ FifoInv /\ MainInv /\ ReadsInv /\ os' = os /\ sent' = sent /\ at.main = "wait"
      /\ at' \in [{"main", "child"} -> InputPlaces] /\ at'.main \in {"ended", "scan"} /\ at'.child = at.child
      /\ local' = [local EXCEPT !.ready = reports, !.i = 0] \/ (local' = local /\ at'.main = "ended")
  <2>1. InputTypes /\ FifoInv /\ MainInv /\ ReadsInv BY DEF InputInv
  <2>2. /\ at \in [{"main", "child"} -> InputPlaces] /\ os' = os /\ sent' = sent /\ at.main = "wait"
        /\ \/ at' = [at EXCEPT !["main"] = "ended"] /\ local' = local
           \/ at' = [at EXCEPT !["main"] = "scan"] /\ local' = [local EXCEPT !.ready = reports, !.i = 0]
    BY <2>1 DEF Input!WaitFor, Input!Go, InputTypes
  <2>3. CASE at' = [at EXCEPT !["main"] = "ended"] /\ local' = local
    <3>1. at' \in [{"main", "child"} -> InputPlaces] /\ at'.main = "ended" /\ at'.child = at.child
      BY <2>2, <2>3 DEF InputPlaces
    <3> QED BY <2>1, <2>2, <2>3, <3>1
  <2>4. CASE at' = [at EXCEPT !["main"] = "scan"] /\ local' = [local EXCEPT !.ready = reports, !.i = 0]
    <3>1. at' \in [{"main", "child"} -> InputPlaces] /\ at'.main = "scan" /\ at'.child = at.child
      BY <2>2, <2>4 DEF InputPlaces
    <3>2. at'.main \in {"ended", "scan"} BY <3>1
    <3> QED BY <2>1, <2>2, <2>4, <3>1, <3>2, Zenon
  <2> QED BY <2>2, <2>3, <2>4
<1>1. /\ local' \in InputLocals
      /\ local'.i \in Pipes /\ (at'.main = "scan" => local'.ready = reports) /\ local'.aio = local.aio
  <2>1. CASE local' = local /\ at'.main = "ended" BY <1>0, <2>1 DEF InputTypes, MainInv
  <2>2. CASE local' = [local EXCEPT !.ready = reports, !.i = 0]
    <3>1. 0 \in 0 .. 2 /\ 0 \in Pipes BY MCProgramsAssumption
    <3> QED BY <1>0, <2>2, <3>1, InputReported
  <2> QED BY <1>0, <2>1, <2>2
<1>2. InputTypes' BY <1>0, <1>1 DEF InputTypes
<1>3. FifoInv' /\ \A k \in Pipes : (Ends(k)' <=> Ends(k)) /\ (Input!More(k)' <=> Input!More(k)) BY <1>0, InputKept
<1>4. \A k \in Pipes : Input!HungUp(k) => Ends(k)
  <2>1. \A k \in Pipes : os.openings[k] \in Nat BY <1>0 DEF InputTypes, InputKernels
  <2> QED BY <2>1 DEF Input!HungUp, Ends
<1>5. ReportsInv' BY <1>0, <1>1, <1>3, <1>4 DEF ReportsInv
<1>6. ReadsInv' /\ MainInv' /\ Input!FailsOnlyAtEnd'
  BY <1>0, <1>1 DEF ReadsInv, MainInv, Input!FailsOnlyAtEnd, Input!Asynchronous
<1> QED BY <1>2, <1>3, <1>5, <1>6 DEF InputInv

\* The loop over the FIFOs fails at one that has come back after its end was reported.
LEMMA InputScans ==
  ASSUME InputInv, program' = program, program \in {"mpx-select", "mpx-poll"}, Input!Scan
  PROVE  InputInv'
<1>0. /\ InputTypes /\ FifoInv /\ MainInv /\ ReportsInv /\ ReadsInv /\ sent' = sent /\ at.main = "scan"
  BY DEF InputInv, Input!Scan, Input!Go, Input!ReadAndPrint
<1>a. /\ local.i \in Pipes \/ (local.i = 2 /\ local.i \notin local.ready)
      /\ local.watch \in SUBSET Pipes /\ local.ready \in SUBSET Pipes /\ local.i \in 0 .. 2
  BY <1>0, InputLooks, MCProgramsAssumption
<1>1. CASE /\ local.i = 2 /\ at' = [at EXCEPT !["main"] = "wait"] /\ os' = os
           /\ local' = [local EXCEPT !.ready = {}, !.i = 0]
  <2>1. /\ local' \in InputLocals
        /\ local'.i \in Pipes /\ local'.aio = local.aio
    <3>1. 0 \in 0 .. 2 /\ 0 \in Pipes /\ {} \in SUBSET Pipes BY MCProgramsAssumption
    <3> QED BY <1>0, <1>1, <1>a, <3>1, InputReported
  <2>a. at' \in [{"main", "child"} -> InputPlaces] /\ at'.main = "wait" /\ at'.child = at.child
    BY <1>0, <1>1 DEF InputTypes, InputPlaces
  <2>2. InputTypes' BY <1>0, <1>1, <2>1, <2>a DEF InputTypes
  <2>3. FifoInv' BY <1>0, <1>1, InputKept
  <2>4. ReportsInv' /\ ReadsInv' /\ MainInv' /\ Input!FailsOnlyAtEnd'
    BY <1>0, <2>1, <2>a DEF ReportsInv, ReadsInv, MainInv, Input!FailsOnlyAtEnd, Input!Asynchronous
  <2> QED BY <2>2, <2>3, <2>4 DEF InputInv
<1>2. ASSUME local.i \in Pipes, at' = [at EXCEPT !["main"] = "scan"], NEW watch \in SUBSET Pipes,
             \/ local' = [local EXCEPT !.watch = watch, !.i = local.i + 1]
             \/ local' = [local EXCEPT !.i = local.i + 1] /\ watch = local.watch,
             os' = os \/ os' = Input!Take(local.i)
      PROVE  InputInv'
  <2>1. /\ local' \in InputLocals
        /\ local'.i = local.i + 1 /\ local'.ready = local.ready /\ local'.aio = local.aio
    <3>1. local.i + 1 \in 0 .. 2 BY <1>2, MCProgramsAssumption
    <3>2. CASE local' = [local EXCEPT !.watch = watch, !.i = local.i + 1] BY <1>0, <1>a, <3>1, <3>2, InputWatched
    <3>3. CASE local' = [local EXCEPT !.i = local.i + 1] /\ watch = local.watch BY <1>0, <1>a, <3>1, <3>3, InputLoop
    <3> QED BY <1>2, <3>2, <3>3
  <2>a. at' \in [{"main", "child"} -> InputPlaces] /\ at'.main = "scan" /\ at'.child = at.child
    BY <1>0, <1>2 DEF InputTypes, InputPlaces
  <2>2. /\ os' \in InputKernels
        /\ os'.writer = os.writer /\ os'.openings = os.openings /\ FifoInv'
        /\ \A q \in Pipes \ {local.i} : Input!More(q)' <=> Input!More(q)
    <3>1. CASE os' = os BY <1>0, <3>1, InputKept DEF InputTypes
    <3>2. CASE os' = Input!Take(local.i) BY <1>0, <1>2, <3>2, TakenFromInput
    <3> QED BY <1>2, <3>1, <3>2
  <2>3. InputTypes' BY <1>0, <2>1, <2>2, <2>a DEF InputTypes
  <2>4. \A q \in Pipes : Ends(q)' <=> Ends(q) BY <2>2 DEF Ends
  <2>5. ReportsInv'
    <3>1. \A k \in local.ready : local'.i <= k => k \in Pipes /\ local.i <= k /\ k # local.i
      BY <1>2, <1>a, <2>1, MCProgramsAssumption
    <3>2. \A k \in local.ready : local.i <= k => Input!More(k) \/ Ends(k) BY <1>0 DEF ReportsInv
    <3> QED BY <2>1, <2>2, <2>4, <3>1, <3>2 DEF ReportsInv
  <2>6. ReadsInv' /\ MainInv' /\ Input!FailsOnlyAtEnd'
    BY <1>0, <2>1, <2>a DEF ReadsInv, MainInv, Input!FailsOnlyAtEnd, Input!Asynchronous
  <2> QED BY <2>2, <2>3, <2>5, <2>6 DEF InputInv
<1>3. CASE /\ Input!Reported(local.i) /\ Input!WouldBlock(local.i) /\ at' = [at EXCEPT !["main"] = "failed"]
           /\ UNCHANGED <<os, local>>
  <2>1. local.i \in Pipes /\ local.i \in local.ready BY <1>a, <1>3 DEF Input!Reported
  <2>2. Ends(local.i) BY <1>0, <1>3, <2>1, MCProgramsAssumption DEF ReportsInv, Input!WouldBlock
  <2>3. os.openings[local.i] > 1 BY <1>3, <2>2 DEF Ends, Input!WouldBlock
  <2>4. at' \in [{"main", "child"} -> InputPlaces] /\ at'.main = "failed" /\ at'.child = at.child
    BY <1>0, <1>3 DEF InputTypes, InputPlaces
  <2>5. InputTypes' BY <1>0, <1>3, <2>4 DEF InputTypes
  <2>6. FifoInv' BY <1>0, <1>3, InputKept
  <2>7. ReportsInv' /\ ReadsInv' /\ MainInv' /\ Input!FailsOnlyAtEnd'
    BY <1>0, <1>3, <2>1, <2>3, <2>4 DEF ReportsInv, ReadsInv, MainInv, Input!FailsOnlyAtEnd, Input!Asynchronous
  <2> QED BY <2>5, <2>6, <2>7 DEF InputInv
<1>4. CASE local.i < 2 /\ ~Input!Reported(local.i) /\ Input!Scan
  <2>1. local.i \in Pipes BY <1>4, <1>a
  <2>2. at' = [at EXCEPT !["main"] = "scan"] /\ os' = os /\ local' = [local EXCEPT !.i = local.i + 1]
    BY <1>4, <1>a DEF Input!Scan, Input!Go
  <2> QED BY <1>2, <1>a, <2>1, <2>2
<1>5. CASE Input!Reported(local.i) /\ Input!Scan
  <2>1. local.i \in Pipes /\ local.i # 2 /\ local.watch \ {local.i} \in SUBSET Pipes
    BY <1>5, <1>a, MCProgramsAssumption DEF Input!Reported
  <2>2. CASE Input!Go("main", "scan", "scan") /\ Input!ReadAndPrint(local.i) /\ local' = [local EXCEPT !.i = @ + 1]
    <3>1. at' = [at EXCEPT !["main"] = "scan"] /\ os' = Input!Take(local.i)
          /\ local' = [local EXCEPT !.i = local.i + 1]
      BY <2>2 DEF Input!Go, Input!ReadAndPrint
    <3> QED BY <1>2, <1>a, <2>1, <3>1
  <2>3. CASE /\ Input!Go("main", "scan", "scan") /\ UNCHANGED os
             /\ local' = [local EXCEPT !.watch = @ \ {local.i}, !.i = @ + 1]
    <3>1. /\ at' = [at EXCEPT !["main"] = "scan"] /\ os' = os
          /\ local' = [local EXCEPT !.watch = local.watch \ {local.i}, !.i = local.i + 1]
      BY <2>3 DEF Input!Go
    <3> QED BY <1>2, <1>a, <2>1, <3>1
  <2>4. CASE Input!WouldBlock(local.i) /\ Input!Go("main", "scan", "failed") /\ UNCHANGED <<os, local>>
    BY <1>3, <1>5, <2>4 DEF Input!Go
  <2> QED BY <1>5, <2>1, <2>2, <2>3, <2>4 DEF Input!Scan
<1>6. CASE local.i = 2 /\ ~Input!Reported(local.i) /\ Input!Scan
  BY <1>1, <1>6 DEF Input!Scan, Input!Go
<1> QED
  BY <1>4, <1>5, <1>6, <1>a, MCProgramsAssumption

\* The first asynchronous reads are started when both FIFOs are open.
LEMMA InputInitReads ==
  ASSUME InputInv, program' = program, program \in Input!Asynchronous, NEW next \in {"scan", "loop"},
         Input!InitReads(next)
  PROVE  InputInv'
<1>0. /\ InputTypes /\ FifoInv /\ MainInv /\ ReadsInv /\ os' = os /\ sent' = sent /\ at.main = "start"
      /\ at' = [at EXCEPT !["main"] = next] /\ local' = [local EXCEPT !.aio = [k \in Pipes |-> "reading"]]
  BY DEF InputInv, Input!InitReads, Input!Go
<1>1. at' \in [{"main", "child"} -> InputPlaces] /\ at'.main = next /\ at'.child = at.child
  BY <1>0 DEF InputTypes, InputPlaces
<1>2. local \in InputLocals BY <1>0 DEF InputTypes
<1>3. local' \in InputLocals /\ local'.i = local.i /\ local'.aio = [k \in Pipes |-> "reading"]
  BY <1>0, <1>2 DEF InputLocals
<1>4. InputTypes' BY <1>0, <1>1, <1>3 DEF InputTypes
<1>5. FifoInv' BY <1>0, InputKept
<1>6. ReportsInv' /\ MainInv' /\ Input!FailsOnlyAtEnd'
  BY <1>0, <1>1, <1>3 DEF ReportsInv, MainInv, Input!FailsOnlyAtEnd, Input!Asynchronous
<1>7. ReadsInv'
  <2>1. \A k \in Pipes : os.openings[k] > 0 BY <1>0 DEF ReadsInv
  <2>2. \A k \in Pipes : local'.aio[k] = "reading" BY <1>3
  <2> QED BY <1>0, <1>1, <2>1, <2>2, MCProgramsAssumption DEF ReadsInv
<1> QED BY <1>4, <1>5, <1>6, <1>7 DEF InputInv

\* An asynchronous read that ends with no data was at the end of its FIFO.
LEMMA InputAioRead ==
  ASSUME InputInv, program' = program, NEW k \in Pipes, Input!AioRead(k)
  PROVE  InputInv'
<1>0. /\ InputTypes /\ FifoInv /\ MainInv /\ ReportsInv /\ ReadsInv /\ Input!FailsOnlyAtEnd
      /\ sent' = sent /\ at' = at /\ local.aio[k] = "reading" /\ ~Input!WouldBlock(k)
  BY DEF InputInv, Input!AioRead
<1> DEFINE after == IF Input!More(k) THEN Input!Take(k) ELSE os
<1>1. \E wiped \in BOOLEAN :
        local' = [local EXCEPT !.aio[k] = "done", !.buf[k] = Input!Chunk(k), !.wiped = wiped]
  <2>1. local.wiped \in BOOLEAN BY <1>0 DEF InputTypes, InputLocals
  <2> QED BY <2>1 DEF Input!AioRead
<1>2. PICK wiped \in BOOLEAN :
        local' = [local EXCEPT !.aio[k] = "done", !.buf[k] = Input!Chunk(k), !.wiped = wiped]
  BY <1>1
<1>3. local \in InputLocals /\ Input!Chunk(k) \in Seq(Nat) /\ (Input!More(k) => Input!Chunk(k) # <<>>)
  BY <1>0, ChunkOfInput DEF InputTypes
<1>4. /\ local'.aio = [local.aio EXCEPT ![k] = "done"] /\ local'.buf = [local.buf EXCEPT ![k] = Input!Chunk(k)]
      /\ local' = [i |-> local.i, watch |-> local.watch, ready |-> local.ready, aio |-> local'.aio,
           buf |-> local'.buf,
                   full |-> local.full, wiped |-> wiped, astray |-> local.astray, sigio |-> local.sigio,
                   quit |-> local.quit, late |-> local.late]
  BY <1>2, <1>3 DEF InputLocals
<1>5. /\ local'.aio \in [Pipes -> {"none", "reading", "astray", "done"}] /\ local'.buf \in [Pipes -> Seq(Nat)]
      /\ \A q \in Pipes \ {k} : local'.aio[q] = local.aio[q] /\ local'.buf[q] = local.buf[q]
      /\ local'.aio[k] = "done" /\ local'.buf[k] = Input!Chunk(k)
  BY <1>3, <1>4 DEF InputLocals
<1>6. local' \in InputLocals /\ local'.i = local.i /\ local'.ready = local.ready /\ local'.astray = local.astray
  <2>1. /\ local.i \in 0 .. 2 /\ local.watch \in SUBSET Pipes /\ local.ready \in SUBSET Pipes
        /\ local.full \in BOOLEAN /\ local.sigio \in BOOLEAN /\ local.quit \in BOOLEAN
        /\ local.astray \in BOOLEAN /\ local.late \in BOOLEAN
    BY <1>3 DEF InputLocals
  <2> QED BY <1>4, <1>5, <2>1 DEF InputLocals
<1>7. /\ after \in InputKernels /\ after.writer = os.writer /\ after.openings = os.openings
      /\ \A q \in Pipes : after.taken[q] >= os.taken[q] /\ after.taken[q] <= Len(sent[q])
  <2>1. Len(Input!Chunk(k)) \in Nat /\ os.taken[k] + Len(Input!Chunk(k)) <= Len(sent[k]) BY <1>0, ChunkOfInput
  <2>2. os \in InputKernels /\ \A q \in Pipes : os.taken[q] \in Nat /\ Len(sent[q]) \in Nat
        /\ os.taken[q] <= Len(sent[q])
    BY <1>0 DEF InputTypes, InputKernels, FifoInv
  <2>3. CASE ~Input!More(k) BY <2>2, <2>3
  <2>4. CASE Input!More(k)
    <3>1. after = [os EXCEPT !.taken[k] = @ + Len(Input!Chunk(k))] BY <2>4 DEF Input!Take
    <3>2. after.taken = [os.taken EXCEPT ![k] = os.taken[k] + Len(Input!Chunk(k))]
          /\ after = [os EXCEPT !.taken = after.taken]
      BY <2>2, <3>1 DEF InputKernels
    <3>a. os.taken \in [Pipes -> Nat] /\ os.taken[k] + Len(Input!Chunk(k)) \in Nat
      BY <2>1, <2>2 DEF InputKernels
    <3> HIDE DEF after
    <3>3. /\ after.taken \in [Pipes -> Nat] /\ after.taken[k] = os.taken[k] + Len(Input!Chunk(k))
          /\ \A q \in Pipes \ {k} : after.taken[q] = os.taken[q]
      BY <3>2, <3>a
    <3>4. after \in InputKernels /\ after.writer = os.writer /\ after.openings = os.openings
      BY <2>2, <3>2, <3>3 DEF InputKernels
    <3> QED BY <2>1, <2>2, <3>3, <3>4
  <2> QED BY <2>3, <2>4
<1>8. /\ os' \in InputKernels /\ os'.writer = os.writer /\ os'.openings = os.openings
      /\ \A q \in Pipes : os'.taken[q] >= os.taken[q] /\ os'.taken[q] <= Len(sent[q])
      /\ ~Input!More(k) => os'.taken[k] = os.taken[k]
  <2>1. os' = (IF program = "mpx-aiosig" THEN [after EXCEPT !.pending = @ \cup {"SIGIO"}] ELSE after)
    BY DEF Input!AioRead
  <2>2. ~Input!More(k) => after = os OBVIOUS
  <2> HIDE DEF after
  <2> QED BY <1>7, <2>1, <2>2 DEF InputKernels
<1>9. InputTypes' BY <1>0, <1>6, <1>8 DEF InputTypes
<1>10. FifoInv' /\ MainInv' /\ ReportsInv'
  <2>1. FifoInv' BY <1>0, <1>8 DEF FifoInv
  <2>2. MainInv' BY <1>0, <1>6 DEF MainInv
  <2>3. ReportsInv'
    <3>1. CASE program \in Input!Asynchronous BY <3>1 DEF ReportsInv, Input!Asynchronous
    <3>2. CASE program \notin Input!Asynchronous
      <4>1. FALSE BY <1>0, <3>2 DEF ReadsInv
      <4> QED BY <4>1
    <3> QED BY <3>1, <3>2
  <2> QED BY <2>1, <2>2, <2>3
<1>11. \A q \in Pipes : Input!More(q)' => Input!More(q)
  <2>1. \A q \in Pipes : os.taken[q] \in Nat /\ os'.taken[q] \in Nat /\ Len(sent[q]) \in Nat
    BY <1>0, <1>8 DEF InputTypes, InputKernels
  <2> QED BY <1>0, <1>8, <2>1 DEF Input!More
<1>12. program \in Input!Asynchronous BY <1>0 DEF ReadsInv
<1>13. ReadsInv'
  <2>1. ASSUME NEW q \in Pipes, q # k
        PROVE  /\ local'.aio[q] = local.aio[q] /\ local'.buf[q] = local.buf[q]
               /\ os'.writer[q] = os.writer[q] /\ os'.openings[q] = os.openings[q]
    BY <1>5, <1>8, <2>1
  <2>2. os'.openings[k] > 0 BY <1>0, <1>8, <1>12 DEF ReadsInv
  <2>3. local'.buf[k] = <<>> => ~Input!More(k)' /\ ~os'.writer[k]
    <3>1. local'.buf[k] = <<>> => ~Input!More(k) BY <1>3, <1>5
    <3>2. ~Input!More(k) => ~os.writer[k] BY <1>0 DEF Input!WouldBlock
    <3> QED BY <1>8, <1>11, <3>1, <3>2
  <2>4. \A q \in Pipes : local'.aio[q] # "none" => os'.openings[q] > 0
    BY <1>0, <1>12, <2>1, <2>2 DEF ReadsInv
  <2>5. \A q \in Pipes : ~local'.astray /\ local'.aio[q] = "done" /\ local'.buf[q] = <<>> =>
          os'.openings[q] > 1 \/ (~Input!More(q)' /\ ~os'.writer[q])
    BY <1>0, <1>6, <1>11, <1>12, <2>1, <2>3 DEF ReadsInv
  <2>8. \A q \in Pipes : local'.aio[q] = "astray" => local'.astray
    BY <1>0, <1>5, <1>6, <1>12, <2>1 DEF ReadsInv
  <2>6. at'.main = "print" => local'.aio[local'.i] = "done"
    <3>1. at.main = "print" => local.i \in Pipes /\ local.aio[local.i] = "done" BY <1>0, <1>12 DEF MainInv, ReadsInv
    <3> QED BY <1>0, <1>5, <1>6, <3>1
  <2>7. /\ at'.main = "open" /\ local'.i = 1 => os'.openings[0] > 0
        /\ at'.main = "start" => \A q \in Pipes : os'.openings[q] > 0
    BY <1>0, <1>6, <1>8, <1>12 DEF ReadsInv
  <2> QED BY <1>0, <1>12, <2>4, <2>5, <2>6, <2>7, <2>8 DEF ReadsInv
<1>14. Input!FailsOnlyAtEnd'
  <2>1. ASSUME at.main = "failed" PROVE local.i \in Pipes BY <1>0, <2>1 DEF MainInv
  <2> QED BY <1>0, <1>6, <1>8, <1>11, <2>1 DEF Input!FailsOnlyAtEnd
<1> QED BY <1>9, <1>10, <1>13, <1>14 DEF InputInv

\* A step of main that changes its locals alone, and not what the reads have brought.
LEMMA InputMoves ==
  ASSUME InputInv, program' = program, os'.writer = os.writer, os'.openings = os.openings, os'.taken = os.taken,
         os' \in InputKernels, sent' = sent, program \in Input!Asynchronous,
         NEW to \in InputPlaces \ {"open", "start", "failed"}, at' = [at EXCEPT !["main"] = to],
         local' \in InputLocals, to # "scan" => local'.i \in Pipes, to = "print" => local'.aio[local'.i] = "done",
         \A k \in Pipes :
           /\ local'.aio[k] # "none" => local.aio[k] # "none"
           /\ local'.aio[k] = "done" => local.aio[k] = "done" /\ local'.buf[k] = local.buf[k]
           /\ local'.aio[k] = "astray" => local.aio[k] = "astray" \/ local'.astray,
         local.astray => local'.astray
  PROVE  InputInv'
<1>0. InputTypes /\ FifoInv /\ MainInv /\ ReadsInv BY DEF InputInv
<1>1. at' \in [{"main", "child"} -> InputPlaces] /\ at'.main = to /\ at'.child = at.child
  BY <1>0 DEF InputTypes, InputPlaces
<1>2. InputTypes' BY <1>0, <1>1 DEF InputTypes
<1>3. FifoInv' /\ \A k \in Pipes : Input!More(k)' <=> Input!More(k) BY InputKept
<1>4. ReportsInv' /\ MainInv' /\ Input!FailsOnlyAtEnd'
  BY <1>0, <1>1 DEF ReportsInv, MainInv, Input!FailsOnlyAtEnd, Input!Asynchronous
<1>5. ReadsInv'
  <2>0. \A k \in Pipes :
          /\ local.aio[k] # "none" => os.openings[k] > 0
          /\ local.aio[k] = "astray" => local.astray
          /\ ~local.astray /\ local.aio[k] = "done" /\ local.buf[k] = <<>> =>
               os.openings[k] > 1 \/ (~Input!More(k) /\ ~os.writer[k])
    BY <1>0 DEF ReadsInv
  <2>1. \A k \in Pipes : local'.aio[k] # "none" => os'.openings[k] > 0 BY <2>0
  <2>2. \A k \in Pipes : ~local'.astray /\ local'.aio[k] = "done" /\ local'.buf[k] = <<>> =>
          os'.openings[k] > 1 \/ (~Input!More(k)' /\ ~os'.writer[k])
    BY <1>3, <2>0
  <2>5. \A k \in Pipes : local'.aio[k] = "astray" => local'.astray BY <2>0
  <2>3. at'.main # "open" /\ at'.main # "start" BY <1>1
  <2>4. at'.main = "print" => local'.aio[local'.i] = "done" BY <1>1
  <2> QED BY <2>1, <2>2, <2>3, <2>4, <2>5 DEF ReadsInv
<1> QED BY <1>2, <1>3, <1>4, <1>5 DEF InputInv

\* Check fails at a read that has ended with no data.
LEMMA InputChecks ==
  ASSUME InputInv, program' = program, program \in Input!Asynchronous, NEW end \in {"scan", "loop"}, Input!Check(end)
  PROVE  InputInv'
<1>0. /\ InputTypes /\ FifoInv /\ MainInv /\ ReadsInv /\ os' = os /\ sent' = sent /\ at.main = "scan"
      /\ local \in InputLocals /\ os \in InputKernels
  BY DEF InputInv, InputTypes, Input!Check, Input!Go
<1>a. 0 \in 0 .. 2 /\ 0 \in Pipes BY MCProgramsAssumption
<1>1. CASE local' = [local EXCEPT !.i = 0] /\ at' = [at EXCEPT !["main"] = end]
  <2>1. /\ local' \in InputLocals /\ local'.i = 0 /\ local'.aio = local.aio /\ local'.buf = local.buf
        /\ local'.astray = local.astray
    BY <1>0, <1>1, <1>a, InputLoop
  <2>2. end \in InputPlaces \ {"open", "start", "failed"} BY DEF InputPlaces
  <2> QED BY <1>0, <1>1, <1>a, <2>1, <2>2, InputMoves
<1>2. CASE local.i < 2 /\ local' = [local EXCEPT !.i = @ + 1] /\ at' = [at EXCEPT !["main"] = "scan"]
  <2>1. local.i + 1 \in 0 .. 2 /\ local' = [local EXCEPT !.i = local.i + 1] BY <1>0, <1>2, InputLooks
  <2>2. local' \in InputLocals /\ local'.aio = local.aio /\ local'.buf = local.buf /\ local'.astray = local.astray
    BY <1>0, <2>1, InputLoop
  <2>3. "scan" \in InputPlaces \ {"open", "start", "failed"} BY DEF InputPlaces
  <2> QED BY <1>0, <1>2, <2>2, <2>3, InputMoves
<1>3. ASSUME local.i < 2, at' = [at EXCEPT !["main"] = "print"], local.aio[local.i] = "done",
             NEW full \in BOOLEAN, NEW wiped \in BOOLEAN, NEW cbs \in Input!Spoilt(local.aio),
             local' = [local EXCEPT !.full = full, !.wiped = wiped, !.aio = cbs,
                                    !.astray = local.astray \/ cbs # local.aio]
      PROVE  InputInv'
  <2>1. local.i \in Pipes BY <1>0, <1>3, InputLooks, MCProgramsAssumption
  <2>2. /\ cbs \in [Pipes -> {"none", "reading", "astray", "done"}]
        /\ cbs # local.aio => \A k \in Pipes : cbs[k] = local.aio[k] \/ (cbs[k] = "astray" /\ local.aio[k] = "reading")
        /\ cbs[local.i] = local.aio[local.i]
    BY <1>0, <1>3, <1>a, MCProgramsAssumption DEF Input!Spoilt, InputLocals
  <2>3. PICK astray \in BOOLEAN : astray = (local.astray \/ cbs # local.aio) BY <1>0 DEF InputLocals
  <2>4. local' = [i |-> local.i, watch |-> local.watch, ready |-> local.ready, aio |-> cbs, buf |-> local.buf,
                  full |-> full, wiped |-> wiped, astray |-> astray, sigio |-> local.sigio,
                  quit |-> local.quit, late |-> local.late]
    BY <1>0, <1>3, <2>3 DEF InputLocals
  <2>5. /\ local' \in InputLocals /\ local'.i = local.i /\ local'.aio = cbs /\ local'.buf = local.buf
        /\ local'.astray = astray
    BY <1>0, <2>2, <2>4 DEF InputLocals
  <2>6. "print" \in InputPlaces \ {"open", "start", "failed"} BY DEF InputPlaces
  <2>7. \A k \in Pipes :
          /\ local'.aio[k] # "none" => local.aio[k] # "none"
          /\ local'.aio[k] = "done" => local.aio[k] = "done" /\ local'.buf[k] = local.buf[k]
          /\ local'.aio[k] = "astray" => local.aio[k] = "astray" \/ local'.astray
    BY <2>2, <2>3, <2>5
  <2>8. local'.i \in Pipes /\ local'.aio[local'.i] = "done" /\ (local.astray => local'.astray)
    BY <1>3, <2>1, <2>2, <2>3, <2>5
  <2> QED BY <1>0, <1>3, <2>5, <2>6, <2>7, <2>8, InputMoves
<1>4. CASE /\ local.i < 2 /\ local.aio[local.i] = "done" /\ local.buf[local.i] = <<>>
           /\ at' = [at EXCEPT !["main"] = "failed"] /\ UNCHANGED local
  <2>1. local.i \in Pipes BY <1>0, <1>4, InputLooks, MCProgramsAssumption
  <2>2. at' \in [{"main", "child"} -> InputPlaces] /\ at'.main = "failed" /\ at'.child = at.child
    BY <1>0, <1>4 DEF InputTypes, InputPlaces
  <2>3. InputTypes' BY <1>0, <1>4, <2>2 DEF InputTypes
  <2>4. FifoInv' /\ \A k \in Pipes : Input!More(k)' <=> Input!More(k) BY <1>0, InputKept
  <2>5. ReportsInv' /\ MainInv'
    BY <1>0, <1>4, <2>1, <2>2 DEF ReportsInv, MainInv, Input!Asynchronous
  <2>6. ReadsInv' BY <1>0, <1>4, <2>2, <2>4 DEF ReadsInv
  <2>7. local.astray \/ os.openings[local.i] > 1 \/ ~Input!More(local.i) BY <1>0, <1>4, <2>1 DEF ReadsInv
  <2>8. Input!FailsOnlyAtEnd' BY <1>0, <1>4, <2>1, <2>4, <2>7 DEF Input!FailsOnlyAtEnd
  <2> QED BY <2>3, <2>4, <2>5, <2>6, <2>8 DEF InputInv
<1>5. CASE /\ local.i < 2 /\ Input!Go("main", "scan", "print") /\ local.aio[local.i] = "done"
           /\ LET fills == local.i = 0 /\ Len(local.buf[0]) = Block
              IN  \E cbs \in Input!Spoilt(local.aio) :
                    local' = [local EXCEPT !.full = @ \/ fills, !.wiped = @ \/ fills,
                                           !.aio = cbs, !.astray = @ \/ cbs # local.aio]
  <2> DEFINE fills == local.i = 0 /\ Len(local.buf[0]) = Block
  <2>1. PICK cbs \in Input!Spoilt(local.aio) :
          local' = [local EXCEPT !.full = local.full \/ fills, !.wiped = local.wiped \/ fills, !.aio = cbs,
                                 !.astray = local.astray \/ cbs # local.aio]
    BY <1>5
  <2>2. PICK full \in BOOLEAN, wiped \in BOOLEAN : full = (local.full \/ fills) /\ wiped = (local.wiped \/ fills)
    OBVIOUS
  <2> HIDE DEF fills
  <2>3. local' = [local EXCEPT !.full = full, !.wiped = wiped, !.aio = cbs, !.astray = local.astray \/ cbs # local.aio]
    BY <2>1, <2>2, Zenon
  <2> QED BY <1>3, <1>5, <2>3 DEF Input!Go
<1> QED BY <1>1, <1>2, <1>4, <1>5 DEF Input!Check, Input!Go

\* What was read is shown, and the next read started.
LEMMA InputShows ==
  ASSUME InputInv, program' = program, program \in Input!Asynchronous, Input!ShowBuffer
  PROVE  InputInv'
<1>0. /\ InputTypes /\ MainInv /\ ReadsInv /\ os' = os /\ sent' = sent /\ at.main = "print"
      /\ at' = [at EXCEPT !["main"] = "scan"]
      /\ local' = [local EXCEPT !.aio = [local.aio EXCEPT ![local.i] = "reading"], !.i = local.i + 1]
  <2>1. InputTypes /\ MainInv /\ ReadsInv BY DEF InputInv
  <2>2. local' = [local EXCEPT !.aio[local.i] = "reading", !.i = @ + 1] BY DEF Input!ShowBuffer
  <2> QED BY <2>1, <2>2 DEF Input!ShowBuffer, Input!Go, InputTypes, InputLocals
<1>1. local.i \in Pipes /\ local.i + 1 \in 0 .. 2 /\ local.aio[local.i] = "done"
  BY <1>0, MCProgramsAssumption DEF MainInv, ReadsInv
<1>2. local \in InputLocals /\ os \in InputKernels BY <1>0 DEF InputTypes
<1>3. /\ local'.aio = [local.aio EXCEPT ![local.i] = "reading"]
      /\ local' = [i |-> local.i + 1, watch |-> local.watch, ready |-> local.ready, aio |-> local'.aio,
           buf |-> local.buf,
                   full |-> local.full, wiped |-> local.wiped, astray |-> local.astray, sigio |-> local.sigio,
                quit |-> local.quit, late |-> local.late]
  BY <1>0, <1>2 DEF InputLocals
<1>4. /\ local'.aio \in [Pipes -> {"none", "reading", "astray", "done"}] /\ local'.aio[local.i] = "reading"
      /\ \A k \in Pipes \ {local.i} : local'.aio[k] = local.aio[k]
  BY <1>1, <1>2, <1>3 DEF InputLocals
<1>5. local' \in InputLocals /\ local'.buf = local.buf /\ local'.astray = local.astray
  <2>1. /\ local.watch \in SUBSET Pipes /\ local.ready \in SUBSET Pipes /\ local.buf \in [Pipes -> Seq(Nat)]
        /\ local.full \in BOOLEAN /\ local.wiped \in BOOLEAN /\ local.sigio \in BOOLEAN /\ local.quit \in BOOLEAN
        /\ local.astray \in BOOLEAN /\ local.late \in BOOLEAN
    BY <1>2 DEF InputLocals
  <2>2. local'.buf = local.buf /\ local'.astray = local.astray BY <1>3
  <2>3. local'.aio \in [Pipes -> {"none", "reading", "astray", "done"}] BY <1>4
  <2>4. PICK i \in 0 .. 2 : local' = [local EXCEPT !.aio = local'.aio, !.i = i] BY <1>0, <1>1, <1>3
  <2>5. \A aio \in [Pipes -> {"none", "reading", "astray", "done"}] : [local EXCEPT !.aio = aio, !.i = i] \in InputLocals
    BY <1>2 DEF InputLocals
  <2>6. [local EXCEPT !.aio = local'.aio, !.i = i] \in InputLocals BY <2>3, <2>5
  <2>7. local' \in InputLocals BY <2>6, <2>4, Zenon
  <2> QED BY <2>2, <2>7
<1>6. \A k \in Pipes : /\ local'.aio[k] # "none" => local.aio[k] # "none"
                       /\ local'.aio[k] = "done" => local.aio[k] = "done"
                       /\ local'.aio[k] = "astray" => local.aio[k] = "astray"
  BY <1>1, <1>4
<1>7. "scan" \in InputPlaces \ {"open", "start", "failed"} BY DEF InputPlaces
<1> QED BY <1>0, <1>2, <1>5, <1>6, <1>7, InputMoves

\* A step that moves nobody and leaves what the invariant is about.
LEMMA InputSame ==
  ASSUME InputInv, program' = program, at' = at, os'.writer = os.writer, os'.openings = os.openings,
         os'.taken = os.taken,
         os' \in InputKernels, sent' = sent, local' \in InputLocals,
         local'.i = local.i, local'.ready = local.ready, local'.aio = local.aio, local'.buf = local.buf,
         local'.astray = local.astray
  PROVE  InputInv'
<1>1. \A k \in Pipes : (Input!More(k)' <=> Input!More(k)) /\ (Ends(k)' <=> Ends(k)) /\ FifoInv'
  BY InputKept
<1>2. MainInv => (at.main = "failed" => local.i \in Pipes) BY DEF MainInv
<1>3. InputTypes' BY DEF InputInv, InputTypes
<1>4. ReportsInv'
  <2>1. ReportsInv /\ local.ready \subseteq Pipes BY DEF InputInv, InputTypes, InputLocals
  <2> QED BY <1>1, <2>1 DEF ReportsInv
<1>5. ReadsInv' BY <1>1 DEF InputInv, ReadsInv
<1>6. MainInv' BY DEF InputInv, MainInv
<1>7. Input!FailsOnlyAtEnd' BY <1>1, <1>2 DEF InputInv, Input!FailsOnlyAtEnd
<1>8. FifoInv' BY InputKept
<1> QED BY <1>3, <1>4, <1>5, <1>6, <1>7, <1>8 DEF InputInv

\* mpx-aiosig.c waits for a signal, and is woken or killed.
LEMMA InputWakes ==
  ASSUME InputInv, program' = program, program = "mpx-aiosig",
         Input!Pause \/ Input!Woken \/ Input!Interrupt \/ Input!sig_int
  PROVE  InputInv'
<1>0. /\ InputTypes /\ MainInv /\ program \in Input!Asynchronous /\ local \in InputLocals /\ os \in InputKernels
      /\ \A k \in Pipes : local.aio[k] = local.aio[k]
  BY DEF InputInv, InputTypes, Input!Asynchronous
<1>1. ASSUME NEW to \in {"pause", "ended", "scan", "loop"}, at.main # "scan", at' = [at EXCEPT !["main"] = to],
             UNCHANGED <<os, local, sent>>
      PROVE  InputInv'
  <2>1. to \in InputPlaces \ {"open", "start", "failed"} BY <1>1 DEF InputPlaces
  <2>2. local'.i \in Pipes /\ to # "print" BY <1>0, <1>1 DEF MainInv
  <2> QED BY <1>0, <1>1, <2>1, <2>2, InputMoves
<1>2. ASSUME NEW pending \in SUBSET {"SIGIO", "SIGINT"}, os' = [os EXCEPT !.pending = pending], sent' = sent,
             at' = at \/ (at.main = "pause" /\ at' = [at EXCEPT !["main"] = "woken"]),
             NEW quit \in BOOLEAN, NEW sigio \in BOOLEAN, NEW late \in BOOLEAN,
             local' = [local EXCEPT !.quit = quit, !.sigio = sigio, !.late = late]
      PROVE  InputInv'
  <2>1. /\ os' \in InputKernels /\ os'.writer = os.writer /\ os'.openings = os.openings /\ os'.taken = os.taken
    BY <1>0, <1>2 DEF InputKernels
  <2>2. /\ local' \in InputLocals /\ local'.i = local.i /\ local'.ready = local.ready
        /\ local'.aio = local.aio /\ local'.buf = local.buf /\ local'.astray = local.astray
    BY <1>0, <1>2 DEF InputLocals
  <2>3. CASE at' = at BY <1>2, <2>1, <2>2, <2>3, InputSame
  <2>4. CASE at.main = "pause" /\ at' = [at EXCEPT !["main"] = "woken"]
    <3>1. "woken" \in InputPlaces \ {"open", "start", "failed"} BY DEF InputPlaces
    <3>2. local'.i \in Pipes BY <1>0, <2>2, <2>4 DEF MainInv
    <3> QED BY <1>0, <1>2, <2>1, <2>2, <2>4, <3>1, <3>2, InputMoves
  <2> QED BY <1>2, <2>3, <2>4
<1>3. CASE Input!Pause
  BY <1>1, <1>3 DEF Input!Pause, Input!Go
<1>4. CASE Input!Woken
  <2>1. CASE local.quit BY <1>1, <1>4, <2>1 DEF Input!Woken, Input!Go
  <2>2. CASE ~local.quit /\ local.sigio BY <1>1, <1>4, <2>2 DEF Input!Woken, Input!Go
  <2>3. CASE ~local.quit /\ ~local.sigio BY <1>1, <1>4, <2>3 DEF Input!Woken, Input!Go
  <2> QED BY <2>1, <2>2, <2>3
<1>5. CASE Input!Interrupt
  <2>1. CASE \E early \in {"open", "start"} : Input!Go("main", early, "ended") /\ UNCHANGED os
    BY <1>1, <1>5, <2>1 DEF Input!Interrupt, Input!Go
  <2>2. CASE os' = [os EXCEPT !.pending = @ \cup {"SIGINT"}] /\ UNCHANGED at
    <3>1. os.pending \cup {"SIGINT"} \in SUBSET {"SIGIO", "SIGINT"} BY <1>0 DEF InputKernels
    <3>2. PICK quit \in BOOLEAN, sigio \in BOOLEAN, late \in BOOLEAN :
            quit = local.quit /\ sigio = local.sigio /\ late = local.late
      BY <1>0 DEF InputLocals
    <3>3. local' = [local EXCEPT !.quit = quit, !.sigio = sigio, !.late = late]
      BY <1>0, <1>5, <3>2 DEF Input!Interrupt, InputLocals
    <3> QED BY <1>2, <1>5, <2>2, <3>1, <3>3 DEF Input!Interrupt
  <2> QED BY <1>5, <2>1, <2>2 DEF Input!Interrupt
<1>6. CASE Input!sig_int
  <2>1. PICK s \in os.pending :
          /\ os' = [os EXCEPT !.pending = @ \ {s}]
          /\ local' = [local EXCEPT !.quit = local.quit \/ s = "SIGINT", !.sigio = local.sigio \/ s = "SIGIO",
                                    !.late = at.main \notin {"pause", "woken"}]
    BY <1>6 DEF Input!sig_int
  <2>a. PICK quit \in BOOLEAN, sigio \in BOOLEAN, late \in BOOLEAN :
          /\ quit = (local.quit \/ s = "SIGINT") /\ sigio = (local.sigio \/ s = "SIGIO")
          /\ late = (at.main \notin {"pause", "woken"})
    BY <1>0 DEF InputLocals
  <2>b. local' = [local EXCEPT !.quit = quit, !.sigio = sigio, !.late = late] BY <2>1, <2>a
  <2>2. os.pending \ {s} \in SUBSET {"SIGIO", "SIGINT"} BY <1>0 DEF InputKernels
  <2>3. at' = at \/ (at.main = "pause" /\ at' = [at EXCEPT !["main"] = "woken"]) BY <1>6 DEF Input!sig_int
  <2> QED BY <1>2, <1>6, <2>1, <2>2, <2>3, <2>b DEF Input!sig_int
<1> QED BY <1>3, <1>4, <1>5, <1>6

\* What a read that went astray does, to what main has and to the kernel.
LEMMA AstrayReads ==
  ASSUME InputInv, Input!AstrayRead
  PROVE  /\ os' \in InputKernels /\ os'.writer = os.writer /\ os'.openings = os.openings /\ os'.taken = os.taken
         /\ local' \in InputLocals /\ local'.i = local.i /\ local'.ready = local.ready
         /\ local.astray /\ local'.astray /\ program \in Input!Asynchronous /\ local.aio[0] = "astray"
         /\ local'.aio[0] = "done" /\ local'.aio[1] = local.aio[1]
<1>1. /\ local \in InputLocals /\ os \in InputKernels /\ local.aio[0] = "astray" /\ 0 \in Pipes /\ 1 \in Pipes /\ 0 # 1
      /\ ReadsInv
  BY MCProgramsAssumption DEF InputInv, InputTypes, Input!AstrayRead
<1>2. program \in Input!Asynchronous /\ local.astray
  BY <1>1 DEF ReadsInv
<1>3. PICK text \in {<<>>, <<0>>} : local' = [local EXCEPT !.aio[0] = "done", !.buf[0] = text]
  BY DEF Input!AstrayRead
<1>4. text \in Seq(Nat)
  <2>1. <<>> \in Seq(Nat) BY EmptySeq
  <2>2. <<0>> \in Seq(Nat) OBVIOUS
  <2> QED BY <1>3, <2>1, <2>2
<1>5. /\ local'.aio = [local.aio EXCEPT ![0] = "done"] /\ local'.buf = [local.buf EXCEPT ![0] = text]
      /\ local' = [local EXCEPT !.aio = local'.aio, !.buf = local'.buf]
  BY <1>1, <1>3 DEF InputLocals
<1>6. /\ local'.aio \in [Pipes -> {"none", "reading", "astray", "done"}] /\ local'.buf \in [Pipes -> Seq(Nat)]
      /\ local'.aio[0] = "done" /\ local'.aio[1] = local.aio[1]
  BY <1>1, <1>4, <1>5 DEF InputLocals
<1>7. /\ local' \in InputLocals /\ local'.i = local.i /\ local'.ready = local.ready /\ local'.astray = local.astray
  BY <1>1, <1>5, <1>6 DEF InputLocals
<1>8. /\ os' \in InputKernels /\ os'.writer = os.writer /\ os'.openings = os.openings /\ os'.taken = os.taken
  <2>1. os' = (IF program = "mpx-aiosig" THEN [os EXCEPT !.pending = @ \cup {"SIGIO"}] ELSE os)
    BY DEF Input!AstrayRead
  <2> QED BY <1>1, <2>1 DEF InputKernels
<1> QED BY <1>1, <1>2, <1>6, <1>7, <1>8

\* It keeps what the multiplexing programs keep.
LEMMA InputAstray ==
  ASSUME InputInv, program' = program, Input!AstrayRead
  PROVE  InputInv'
<1>0. /\ InputTypes /\ MainInv /\ ReadsInv /\ Input!FailsOnlyAtEnd /\ sent' = sent /\ at' = at
      /\ Pipes = {0, 1}
  BY MCProgramsAssumption DEF InputInv, Input!AstrayRead
<1>1. /\ os' \in InputKernels /\ os'.writer = os.writer /\ os'.openings = os.openings /\ os'.taken = os.taken
      /\ local' \in InputLocals /\ local'.i = local.i /\ local'.ready = local.ready
      /\ local'.astray /\ program \in Input!Asynchronous /\ local.aio[0] = "astray"
      /\ local'.aio[0] = "done" /\ local'.aio[1] = local.aio[1]
  BY AstrayReads
<1>2. InputTypes' BY <1>0, <1>1 DEF InputTypes
<1>3. FifoInv' BY <1>0, <1>1, InputKept
<1>4. MainInv' /\ ReportsInv'
  BY <1>0, <1>1 DEF MainInv, ReportsInv, Input!Asynchronous
<1>5. ReadsInv'
  <2>1. \A k \in Pipes : local'.aio[k] # "none" => local.aio[k] # "none" BY <1>0, <1>1
  <2>2. at.main = "print" => local'.aio[local.i] = "done"
    <3>1. at.main = "print" => local.i \in Pipes /\ local.aio[local.i] = "done"
      BY <1>0, <1>1 DEF MainInv, ReadsInv
    <3> QED BY <1>0, <1>1, <3>1
  <2> QED BY <1>0, <1>1, <2>1, <2>2 DEF ReadsInv
<1>6. Input!FailsOnlyAtEnd' BY <1>0, <1>1 DEF Input!FailsOnlyAtEnd
<1> QED BY <1>2, <1>3, <1>4, <1>5, <1>6 DEF InputInv

\* The programs that read what comes, or wait for it in read.
LEMMA InputReaders ==
  ASSUME InputInv, program' = program,
         \/ program = "mpx-blocks" /\ Input!mpx_blocks
         \/ program = "mpx-nonblock" /\ Input!mpx_nonblock
         \/ program = "mpx-fork" /\ (Input!mpx_fork("main") \/ Input!mpx_fork("child"))
  PROVE  InputInv'
<1>0. /\ InputTypes /\ MainInv /\ at \in [{"main", "child"} -> InputPlaces]
      /\ program \in {"mpx-blocks", "mpx-nonblock", "mpx-fork"} /\ program \notin Input!Asynchronous
  BY DEF InputInv, InputTypes, Input!Asynchronous
<1>1. ASSUME NEW first \in {"read", "fork"}, Input!OpenPipe(first) PROVE InputInv'
  BY <1>0, <1>1, InputOpens
<1>2. ASSUME NEW p \in {"main", "child"}, NEW to \in {"read", "ended"}, at[p] = "read", at' = [at EXCEPT ![p] = to],
             p = "child" => program = "mpx-fork",
             sent' = sent, local' = local \/ local' = [local EXCEPT !.i = 1 - @],
             os' = os \/ \E k \in Pipes : os' = Input!Take(k)
      PROVE  InputInv'
  <2>1. at.main \in {"read", "ended"} /\ at.child \in {"none", "read", "ended"}
    BY <1>0, <1>2 DEF MainInv
  <2>2. /\ at' \in [{"main", "child"} -> {"read", "ended", "none"}] /\ at'.main # "none" /\ at.main # "scan"
        /\ program # "mpx-fork" => at'.child = at.child
    BY <1>0, <1>2, <2>1
  <2> QED BY <1>0, <1>2, <2>2, InputReads
<1>3. CASE program = "mpx-blocks" /\ Input!mpx_blocks
  <2>1. local.i \in Pipes \/ at.main # "read" BY <1>0 DEF MainInv
  <2>2. CASE Input!Go("main", "read", "read") /\ Input!ReadAndPrint(local.i) /\ Input!Other
    BY <1>2, <2>1, <2>2 DEF Input!Go, Input!ReadAndPrint, Input!Other
  <2>3. CASE Input!Go("main", "read", "ended") /\ UNCHANGED <<program, os, local, sent, got>>
    BY <1>2, <2>3 DEF Input!Go
  <2> QED BY <1>1, <1>3, <2>2, <2>3 DEF Input!mpx_blocks
<1>4. CASE program = "mpx-nonblock" /\ Input!mpx_nonblock
  <2>1. local.i \in Pipes \/ at.main # "read" BY <1>0 DEF MainInv
  <2>2. CASE Input!Go("main", "read", "read") /\ Input!ReadAndPrint(local.i) /\ Input!Other
    BY <1>2, <2>1, <2>2 DEF Input!Go, Input!ReadAndPrint, Input!Other
  <2>3. CASE Input!Go("main", "read", "read") /\ UNCHANGED <<program, os, sent, got>> /\ Input!Other
    BY <1>2, <2>3 DEF Input!Go, Input!Other
  <2> QED BY <1>1, <1>4, <2>2, <2>3 DEF Input!mpx_nonblock
<1>5. ASSUME program = "mpx-fork", NEW p \in {"main", "child"}, Input!mpx_fork(p) PROVE InputInv'
  <2>1. Input!myfd(p) \in Pipes BY <1>5, MCProgramsAssumption DEF Input!myfd
  <2>2. CASE Input!OpenPipe("fork") BY <1>1, <2>2
  <2>3. CASE Input!Fork
    <3>1. /\ at' = [main |-> "read", child |-> "read"] /\ local' = local /\ os' = os /\ sent' = sent
          /\ at.main = "fork"
      BY <2>3 DEF Input!Fork
    <3>2. at' \in [{"main", "child"} -> {"read", "ended", "none"}] /\ at'.main # "none" /\ at.main # "scan"
      BY <3>1
    <3> QED BY <1>0, <1>5, <3>1, <3>2, InputReads
  <2>4. CASE Input!Go(p, "read", "read") /\ Input!ReadAndPrint(Input!myfd(p)) /\ UNCHANGED local
    BY <1>2, <1>5, <2>1, <2>4 DEF Input!Go, Input!ReadAndPrint
  <2>5. CASE Input!Go(p, "read", "ended") /\ UNCHANGED <<program, os, local, sent, got>>
    BY <1>2, <1>5, <2>5 DEF Input!Go
  <2> QED BY <1>5, <2>2, <2>3, <2>4, <2>5 DEF Input!mpx_fork
<1> QED BY <1>3, <1>4, <1>5

\* Every step of mpx-*.c: of a writer, of main, of its child, of an asynchronous read or a signal.
LEMMA InputStep == InputInv /\ [Input!Next]_vars => InputInv'
<1> SUFFICES ASSUME InputInv, [Input!Next]_vars PROVE InputInv'
  OBVIOUS
<1>0. InputTypes /\ MainInv /\ program \in Input!Programs BY DEF InputInv, InputTypes
<1>a. 0 \in Pipes /\ 1 \in Pipes BY MCProgramsAssumption
<1>1. CASE UNCHANGED vars
  BY <1>1 DEF vars, InputInv, InputTypes, FifoInv, ReportsInv, ReadsInv, MainInv, Ends, Input!FailsOnlyAtEnd,
              Input!More
<1>2. ASSUME Input!Next PROVE program' = program BY <1>2, InputStays
<1>3. CASE Input!Writer BY <1>3, InputWriter
<1>4. CASE Input!Interrupt
  <2>1. program' = program /\ program = "mpx-aiosig" BY <1>4 DEF Input!Interrupt
  <2> QED BY <1>4, <2>1, InputWakes
<1>5. ASSUME program' = program, Input!Main PROVE InputInv'
  <2>1. CASE program = "mpx-blocks" /\ Input!mpx_blocks BY <1>5, <2>1, InputReaders
  <2>2. CASE program = "mpx-nonblock" /\ Input!mpx_nonblock BY <1>5, <2>2, InputReaders
  <2>3. CASE program = "mpx-fork" /\ Input!mpx_fork("main") BY <1>5, <2>3, InputReaders
  <2>4. CASE program = "mpx-select" /\ Input!mpx_select
    <3>1. CASE Input!OpenPipe("wait") BY <1>5, <2>4, <3>1, InputOpens DEF Input!Asynchronous
    <3>2. CASE Input!WaitFor(Input!SelectReports)
      <4>1. /\ Input!SelectReports \in SUBSET Pipes
            /\ \A k \in Input!SelectReports : Input!More(k) \/ Input!HungUp(k)
        BY <1>0, InputLooks DEF Input!SelectReports
      <4> QED BY <1>5, <2>4, <3>2, <4>1, InputWaits
    <3>3. CASE Input!Scan BY <1>5, <2>4, <3>3, InputScans
    <3> QED BY <2>4, <3>1, <3>2, <3>3 DEF Input!mpx_select
  <2>5. CASE program = "mpx-poll" /\ Input!mpx_poll
    <3>1. CASE Input!OpenPipe("wait") BY <1>5, <2>5, <3>1, InputOpens DEF Input!Asynchronous
    <3>2. CASE Input!WaitFor(Input!PollReports)
      <4>1. /\ Input!PollReports \in SUBSET Pipes
            /\ \A k \in Input!PollReports : Input!More(k) \/ Input!HungUp(k)
        BY DEF Input!PollReports
      <4> QED BY <1>5, <2>5, <3>2, <4>1, InputWaits
    <3>3. CASE Input!Scan BY <1>5, <2>5, <3>3, InputScans
    <3> QED BY <2>5, <3>1, <3>2, <3>3 DEF Input!mpx_poll
  <2>6. CASE program = "mpx-aio" /\ Input!mpx_aio
    <3>1. program \in Input!Asynchronous BY <2>6 DEF Input!Asynchronous
    <3> QED BY <1>5, <2>6, <3>1, InputOpens, InputInitReads, InputChecks, InputShows DEF Input!mpx_aio
  <2>7. CASE program = "mpx-aiosig" /\ Input!mpx_aiosig
    <3>1. program \in Input!Asynchronous BY <2>7 DEF Input!Asynchronous
    <3> QED BY <1>5, <2>7, <3>1, InputOpens, InputInitReads, InputChecks, InputShows, InputWakes DEF Input!mpx_aiosig
  <2> QED BY <1>5, <2>1, <2>2, <2>3, <2>4, <2>5, <2>6, <2>7 DEF Input!Main
<1>6. ASSUME program' = program, program = "mpx-fork", Input!mpx_fork("child") PROVE InputInv'
  BY <1>6, InputReaders
<1>7. ASSUME program' = program, NEW p \in {"aio 0", "aio 1"}, Input!AioRead(IF p = "aio 0" THEN 0 ELSE 1)
      PROVE  InputInv'
  <2>2. CASE p = "aio 0" BY <1>7, <1>a, <2>2, InputAioRead
  <2>3. CASE p = "aio 1" BY <1>7, <1>a, <2>3, InputAioRead
  <2> QED BY <1>7, <2>2, <2>3
<1>8. ASSUME program' = program, program = "mpx-aiosig", Input!sig_int PROVE InputInv'
  BY <1>8, InputWakes
<1>9. CASE program' = program /\ Input!AstrayRead BY <1>9, InputAstray
<1> QED BY <1>1, <1>2, <1>3, <1>4, <1>5, <1>6, <1>7, <1>8, <1>9 DEF Input!Next, Input!Step

\* What has been taken from FIFO k has been printed, but for what is in its buffer.
Shown(k) ==
  /\ Counts(got[k])
  /\ IF local.aio[k] = "done"
     THEN /\ Len(got[k]) + Len(local.buf[k]) = os.taken[k]
          /\ \A n \in 1 .. Len(local.buf[k]) : local.buf[k][n] = Len(got[k]) + n
     ELSE Len(got[k]) = os.taken[k]

\* What is read is printed, or in the buffer of an asynchronous read that has ended; no
\* buffer was spoiled as long as none was filled and no read has gone astray.
InputOrder ==
  /\ got \in [Pipes -> Seq(Nat)]
  /\ \A k \in Pipes : Counts(sent[k])
  /\ program \notin Input!Asynchronous => \A k \in Pipes : Counts(got[k]) /\ Len(got[k]) = os.taken[k]
  /\ program \in Input!Asynchronous /\ ~local.full /\ ~local.astray =>
       /\ ~local.wiped
       /\ at.main \in {"open", "start"} => \A k \in Pipes : local.aio[k] = "none"
       /\ at.main = "print" /\ local.i = 0 => Len(local.buf[0]) # Block
       /\ \A k \in Pipes : Shown(k)

\* At first nothing is written.
LEMMA InputOrderStarts == Input!Init => InputOrder
<1> SUFFICES ASSUME Input!Init PROVE InputOrder
  OBVIOUS
<1>1. /\ sent = [k \in Pipes |-> <<>>] /\ got = [k \in Pipes |-> <<>>] /\ at.main = "open"
      /\ local.aio = [k \in Pipes |-> "none"] /\ local.wiped = FALSE
      /\ os.taken = [k \in Pipes |-> 0]
  BY DEF Input!Init, Input!Empty
<1>2. \A k \in Pipes : got[k] = <<>> /\ sent[k] = <<>> /\ local.aio[k] = "none" /\ os.taken[k] = 0
  BY <1>1
<1>3. got \in [Pipes -> Seq(Nat)] BY <1>1, EmptySeq
<1>4. Len(<<>>) = 0 /\ Counts(<<>>) BY DEF Counts
<1> QED BY <1>1, <1>2, <1>3, <1>4 DEF InputOrder, Shown

\* The next chunk of FIFO k goes on where the last one ended.
LEMMA ChunkGoesOn ==
  ASSUME InputInv, InputOrder, NEW k \in Pipes
  PROVE  /\ Input!Chunk(k) \in Seq(Nat) /\ Len(Input!Chunk(k)) \in Nat
         /\ \A n \in 1 .. Len(Input!Chunk(k)) : Input!Chunk(k)[n] = os.taken[k] + n
         /\ ~Input!More(k) => Len(Input!Chunk(k)) = 0
<1> DEFINE last == Input!Least(os.taken[k] + Block, Len(sent[k]))
<1>1. /\ os.taken[k] \in Nat /\ sent[k] \in Seq(Nat) /\ Len(sent[k]) \in Nat /\ os.taken[k] <= Len(sent[k])
      /\ Counts(sent[k]) /\ Block \in Nat \ {0}
  <2>1. /\ os.taken[k] \in Nat /\ sent[k] \in Seq(Nat) /\ os.taken[k] <= Len(sent[k]) /\ Counts(sent[k])
    BY DEF InputInv, InputTypes, InputKernels, FifoInv, InputOrder
  <2>2. Block \in Nat \ {0} BY MCProgramsAssumption
  <2> QED BY <2>1, <2>2, LenProperties
<1>2. last \in os.taken[k] .. Len(sent[k])
  BY <1>1 DEF Input!Least
<1>3. Input!Chunk(k) = SubSeq(sent[k], os.taken[k] + 1, last)
  BY DEF Input!Chunk
<1>4. ~Input!More(k) => last = os.taken[k]
  BY <1>1, <1>2 DEF Input!More
<1> HIDE DEF last
<1>5. /\ SubSeq(sent[k], os.taken[k] + 1, last) \in Seq(Nat)
      /\ Len(SubSeq(sent[k], os.taken[k] + 1, last)) = last - os.taken[k]
      /\ \A n \in 1 .. last - os.taken[k] : SubSeq(sent[k], os.taken[k] + 1, last)[n] = os.taken[k] + n
  BY <1>1, <1>2, CountsOn
<1>6. last - os.taken[k] \in Nat /\ (~Input!More(k) => last - os.taken[k] = 0)
  BY <1>1, <1>2, <1>4
<1> QED BY <1>3, <1>5, <1>6

\* Where nothing is read or printed of a FIFO, nothing is lost.
LEMMA ShownStays ==
  ASSUME NEW k \in Pipes, Shown(k), got'[k] = got[k], os'.taken[k] = os.taken[k],
         local'.aio[k] = local.aio[k], local'.buf[k] = local.buf[k]
  PROVE  Shown(k)'
BY DEF Shown, Counts

\* What a step does to the FIFOs where it reads: taken is so much more.
LEMMA InputTaken ==
  ASSUME InputTypes, NEW k \in Pipes, os'.taken = Input!Take(k).taken, Len(Input!Chunk(k)) \in Nat
  PROVE  /\ os'.taken[k] = os.taken[k] + Len(Input!Chunk(k))
         /\ \A q \in Pipes \ {k} : os'.taken[q] = os.taken[q]
BY DEF InputTypes, InputKernels, Input!Take

\* Reading and printing at once.
LEMMA InputOrderReads ==
  ASSUME InputInv, InputOrder, program' = program, program \notin Input!Asynchronous, NEW k \in Pipes,
         Input!ReadAndPrint(k)
  PROVE  InputOrder'
<1>1. /\ InputTypes /\ sent' = sent /\ os'.taken = Input!Take(k).taken /\ got' = [got EXCEPT ![k] = @ \o Input!Chunk(k)]
      /\ got \in [Pipes -> Seq(Nat)] /\ \A q \in Pipes : Counts(sent[q]) /\ Counts(got[q]) /\ Len(got[q]) = os.taken[q]
  BY DEF Input!ReadAndPrint, InputInv, InputOrder
<1>2. /\ Input!Chunk(k) \in Seq(Nat) /\ Len(Input!Chunk(k)) \in Nat
      /\ \A n \in 1 .. Len(Input!Chunk(k)) : Input!Chunk(k)[n] = Len(got[k]) + n
  BY <1>1, ChunkGoesOn
<1>3. /\ got[k] \o Input!Chunk(k) \in Seq(Nat) /\ Counts(got[k] \o Input!Chunk(k))
      /\ Len(got[k] \o Input!Chunk(k)) = Len(got[k]) + Len(Input!Chunk(k))
  BY <1>1, <1>2, CountsConcat
<1>4. /\ got' \in [Pipes -> Seq(Nat)] /\ got'[k] = got[k] \o Input!Chunk(k)
      /\ \A q \in Pipes \ {k} : got'[q] = got[q]
  BY <1>1, <1>3
<1>5. /\ os'.taken[k] = os.taken[k] + Len(Input!Chunk(k))
      /\ \A q \in Pipes \ {k} : os'.taken[q] = os.taken[q]
  BY <1>1, <1>2, InputTaken
<1>6. \A q \in Pipes : Counts(got'[q]) /\ Len(got'[q]) = os'.taken[q]
  BY <1>1, <1>3, <1>4, <1>5
<1>7. \A q \in Pipes : Counts(sent'[q])
  BY <1>1
<1> QED BY <1>4, <1>6, <1>7 DEF InputOrder, Shown, Counts

\* A step of a program that reads and prints at once, but neither now.
LEMMA InputOrderAside ==
  ASSUME InputOrder, program' = program, program \notin Input!Asynchronous, sent' = sent, got' = got,
         os'.taken = os.taken
  PROVE  InputOrder'
BY DEF InputOrder, Shown, Counts

\* A step of a program on asynchronous reads that neither reads nor prints.
LEMMA InputOrderWaits ==
  ASSUME InputOrder, program' = program, program \in Input!Asynchronous, sent' = sent, got' = got,
         os'.taken = os.taken, local'.aio = local.aio, local'.buf = local.buf,
         local'.full = local.full, local'.wiped = local.wiped, local'.astray = local.astray,
         at'.main = "print" /\ local'.i = 0 => at.main = "print" /\ local.i = 0,
         at'.main \in {"open", "start"} => at.main \in {"open", "start"}
  PROVE  InputOrder'
BY DEF InputOrder, Shown, Counts

\* A writer writes the next number.
LEMMA InputOrderWritten ==
  ASSUME InputInv, InputOrder, program' = program, Input!Writer
  PROVE  InputOrder'
<1>1. InputTypes /\ local' = local /\ at' = at /\ got' = got
  BY DEF InputInv, Input!Writer, Input!WriterOpens, Input!WriterWrites, Input!WriterCloses
<1>2. os'.taken = os.taken
  BY <1>1 DEF InputTypes, InputKernels, Input!Writer, Input!WriterOpens, Input!WriterWrites, Input!WriterCloses
<1>3. sent' = sent \/ \E k \in Pipes : sent' = [sent EXCEPT ![k] = Append(@, Len(@) + 1)]
  BY DEF Input!Writer, Input!WriterOpens, Input!WriterWrites, Input!WriterCloses
<1>4. \A k \in Pipes : sent[k] \in Seq(Nat) /\ Counts(sent[k])
  BY <1>1 DEF InputTypes, InputOrder
<1>5. \A k \in Pipes : Counts(Append(sent[k], Len(sent[k]) + 1))
  BY <1>4, CountsAppend
<1>6. \A k \in Pipes : Counts(sent'[k])
  BY <1>1, <1>3, <1>4, <1>5 DEF InputTypes
<1> QED BY <1>1, <1>2, <1>6 DEF InputOrder, Shown, Counts

\* An asynchronous read fills the buffer of its FIFO with what comes next.
LEMMA InputOrderAio ==
  ASSUME InputInv, InputOrder, program' = program, NEW k \in Pipes, Input!AioRead(k)
  PROVE  InputOrder'
<1>1. /\ InputTypes /\ sent' = sent /\ got' = got /\ at' = at /\ local.aio[k] = "reading"
      /\ program \in Input!Asynchronous
      /\ local' = [local EXCEPT !.aio[k] = "done", !.buf[k] = Input!Chunk(k),
                                !.wiped = IF k = 1 /\ Input!More(k) THEN FALSE ELSE @]
  BY DEF InputInv, ReadsInv, Input!AioRead
<1>2. local \in InputLocals BY <1>1 DEF InputTypes
<1>3. /\ local'.aio = [local.aio EXCEPT ![k] = "done"] /\ local'.buf = [local.buf EXCEPT ![k] = Input!Chunk(k)]
      /\ local'.full = local.full /\ local'.i = local.i /\ (local'.wiped => local.wiped)
      /\ local'.astray = local.astray
  BY <1>1, <1>2 DEF InputLocals
<1>4. /\ local'.aio[k] = "done" /\ local'.buf[k] = Input!Chunk(k)
      /\ \A q \in Pipes \ {k} : local'.aio[q] = local.aio[q] /\ local'.buf[q] = local.buf[q]
  BY <1>2, <1>3 DEF InputLocals
<1>5. /\ Input!Chunk(k) \in Seq(Nat) /\ Len(Input!Chunk(k)) \in Nat
      /\ \A n \in 1 .. Len(Input!Chunk(k)) : Input!Chunk(k)[n] = os.taken[k] + n
      /\ ~Input!More(k) => Len(Input!Chunk(k)) = 0
  BY ChunkGoesOn
<1>6. /\ os'.taken[k] = os.taken[k] + Len(Input!Chunk(k))
      /\ \A q \in Pipes \ {k} : os'.taken[q] = os.taken[q]
  <2>1. CASE Input!More(k)
    <3>1. os'.taken = Input!Take(k).taken
      BY <1>1, <2>1 DEF Input!AioRead, Input!Take, InputTypes, InputKernels
    <3> QED BY <1>1, <1>5, <3>1, InputTaken
  <2>2. CASE ~Input!More(k)
    <3>1. os'.taken = os.taken
      BY <1>1, <2>2 DEF Input!AioRead, InputTypes, InputKernels
    <3> QED BY <1>1, <1>5, <2>2, <3>1 DEF InputTypes, InputKernels
  <2> QED BY <2>1, <2>2
<1>7. ASSUME ~local'.full, ~local'.astray
      PROVE  /\ ~local'.wiped /\ at'.main \notin {"open", "start"}
             /\ at'.main = "print" /\ local'.i = 0 => Len(local'.buf[0]) # Block
             /\ \A q \in Pipes : Shown(q)'
  <2>1. ~local.full /\ ~local.astray BY <1>3, <1>7
  <2>2. ~local'.wiped /\ at'.main \notin {"open", "start"} BY <1>1, <1>3, <2>1 DEF InputOrder
  <2>3. at.main = "print" => local.aio[local.i] = "done"
    BY <1>1 DEF InputInv, ReadsInv
  <2>4. at'.main = "print" /\ local'.i = 0 => Len(local'.buf[0]) # Block
    BY <1>1, <1>3, <1>4, <2>1, <2>3, MCProgramsAssumption DEF InputOrder
  <2>5. Len(got[k]) = os.taken[k] /\ Counts(got[k]) /\ \A q \in Pipes : Shown(q)
    BY <1>1, <2>1 DEF InputOrder, Shown
  <2>6. /\ Len(got'[k]) + Len(local'.buf[k]) = os'.taken[k] /\ Counts(got[k])'
        /\ \A n \in 1 .. Len(local'.buf[k]) : local'.buf[k][n] = Len(got'[k]) + n
    BY <1>1, <1>4, <1>5, <1>6, <2>5 DEF Counts
  <2>7. Shown(k)'
    BY <1>4, <2>6 DEF Shown
  <2>8. \A q \in Pipes \ {k} : Shown(q)'
    <3> TAKE q \in Pipes \ {k}
    <3>1. /\ local'.aio[q] = local.aio[q] /\ local'.buf[q] = local.buf[q] /\ os'.taken[q] = os.taken[q]
          /\ got'[q] = got[q] /\ Shown(q)
      BY <1>1, <1>4, <1>6, <2>5
    <3> QED BY <3>1, ShownStays
  <2> QED BY <2>2, <2>4, <2>7, <2>8
<1> QED BY <1>1, <1>7 DEF InputOrder, Shown, Counts

\* The first reads are started with nothing read.
LEMMA InputOrderInit ==
  ASSUME InputInv, InputOrder, program' = program, program \in Input!Asynchronous, NEW next \in {"scan", "loop"},
         Input!InitReads(next)
  PROVE  InputOrder'
<1>1. /\ InputTypes /\ sent' = sent /\ got' = got /\ os' = os /\ at.main = "start" /\ at'.main = next
      /\ local' = [local EXCEPT !.aio = [k \in Pipes |-> "reading"]]
  BY DEF InputInv, InputTypes, Input!InitReads, Input!Go
<1>2. local \in InputLocals BY <1>1 DEF InputTypes
<1>3. /\ local'.full = local.full /\ local'.wiped = local.wiped /\ local'.astray = local.astray
      /\ \A k \in Pipes : local'.aio[k] = "reading"
  BY <1>1, <1>2 DEF InputLocals
<1> QED BY <1>1, <1>3 DEF InputOrder, Shown, Counts

\* A buffer that was not filled is shown as it is, after what was shown before.
LEMMA InputOrderShows ==
  ASSUME InputInv, InputOrder, program' = program, program \in Input!Asynchronous, Input!ShowBuffer
  PROVE  InputOrder'
<1>1. /\ InputTypes /\ MainInv /\ ReadsInv /\ os' = os /\ sent' = sent /\ at.main = "print" /\ at'.main = "scan"
      /\ local' = [local EXCEPT !.aio[local.i] = "reading", !.i = @ + 1]
  BY DEF InputInv, InputTypes, Input!ShowBuffer, Input!Go
<1>2. local \in InputLocals /\ local.i \in Pipes /\ local.aio[local.i] = "done"
  BY <1>1 DEF InputTypes, MainInv, ReadsInv
<1>a. PICK i \in Pipes : i = local.i
  BY <1>2
<1>3. /\ local'.aio = [local.aio EXCEPT ![i] = "reading"] /\ local'.buf = local.buf
      /\ local'.full = local.full /\ local'.wiped = local.wiped /\ local'.astray = local.astray
  BY <1>1, <1>2, <1>a DEF InputLocals
<1>4. /\ local'.aio[i] = "reading" /\ \A k \in Pipes \ {i} : local'.aio[k] = local.aio[k]
      /\ \A k \in Pipes : local.buf[k] \in Seq(Nat) /\ got[k] \in Seq(Nat)
      /\ got \in [Pipes -> Seq(Nat)]
  BY <1>2, <1>3, <1>a DEF InputLocals, InputOrder
<1>5. PICK text \in Seq(Nat) : got' = [got EXCEPT ![i] = @ \o text] /\ (~local.full /\ ~local.astray => text = local.buf[i])
  <2>1. <<>> \in Seq(Nat) /\ local.buf[0] \in Seq(Nat) /\ local.buf[1] \in Seq(Nat)
    BY <1>4, MCProgramsAssumption, EmptySeq
  <2>2. local.buf[0] \o local.buf[1] \in Seq(Nat)
    BY <2>1, ConcatProperties
  <2>3. ~local.full /\ ~local.astray => ~local.wiped /\ (local.i = 0 => Len(local.buf[0]) # Block)
    BY <1>1, <1>a DEF InputOrder
  <2> DEFINE text == IF i = 1 /\ local.wiped THEN <<>>
                     ELSE IF i = 0 /\ Len(local.buf[0]) = Block /\ ~local.wiped THEN local.buf[0] \o local.buf[1]
                     ELSE local.buf[i]
  <2>4. got' = [got EXCEPT ![i] = @ \o text]
    BY <1>a DEF Input!ShowBuffer
  <2>5. text \in Seq(Nat)
    BY <1>2, <1>4, <2>1, <2>2
  <2>6. ~local.full /\ ~local.astray => text = local.buf[i]
    BY <1>a, <2>3
  <2> QED BY <2>4, <2>5, <2>6
<1>6. got[i] \o text \in Seq(Nat)
  BY <1>2, <1>4, ConcatProperties
<1>7. /\ got' \in [Pipes -> Seq(Nat)] /\ got'[i] = got[i] \o text /\ \A k \in Pipes \ {i} : got'[k] = got[k]
  BY <1>2, <1>4, <1>5, <1>6
<1>8. ASSUME ~local.full, ~local.astray
      PROVE  /\ ~local'.wiped
             /\ \A k \in Pipes : Shown(k)'
  <2>1. /\ ~local.wiped /\ Counts(got[i]) /\ Len(got[i]) + Len(local.buf[i]) = os.taken[i]
        /\ \A n \in 1 .. Len(local.buf[i]) : local.buf[i][n] = Len(got[i]) + n
    BY <1>1, <1>2, <1>a, <1>8 DEF InputOrder, Shown
  <2>2. Counts(got[i] \o local.buf[i]) /\ Len(got[i] \o local.buf[i]) = Len(got[i]) + Len(local.buf[i])
    BY <1>2, <1>4, <2>1, CountsConcat
  <2>3. got'[i] = got[i] \o local.buf[i]
    BY <1>5, <1>7, <1>8
  <2>4. Shown(i)'
    <3>1. Counts(got[i])' /\ Len(got'[i]) = os'.taken[i]
      BY <1>1, <2>1, <2>2, <2>3 DEF Counts
    <3> QED BY <1>4, <3>1 DEF Shown
  <2>5. \A k \in Pipes : Shown(k)
    BY <1>8 DEF InputOrder
  <2>6. \A k \in Pipes \ {i} : Shown(k)'
    <3> TAKE k \in Pipes \ {i}
    <3>1. /\ local'.aio[k] = local.aio[k] /\ local'.buf[k] = local.buf[k] /\ os'.taken[k] = os.taken[k]
          /\ got'[k] = got[k] /\ Shown(k)
      BY <1>1, <1>3, <1>4, <1>7, <2>5
    <3> QED BY <3>1, ShownStays
  <2> QED BY <1>2, <1>3, <2>1, <2>4, <2>6
<1> QED BY <1>1, <1>3, <1>7, <1>8 DEF InputOrder, Counts

\* Check goes on to print a buffer that is full only where it says so.
LEMMA InputOrderChecks ==
  ASSUME InputInv, InputOrder, program' = program, program \in Input!Asynchronous, NEW end \in {"scan", "loop"},
         Input!Check(end)
  PROVE  InputOrder'
<1>1. /\ InputTypes /\ os' = os /\ sent' = sent /\ got' = got /\ local \in InputLocals /\ at.main = "scan"
  BY DEF InputInv, InputTypes, Input!Check, Input!Go
<1>2. CASE \/ at'.main # "print" /\ at'.main \notin {"open", "start"}
              /\ (local' = local \/ \E i \in 0 .. 3 : local' = [local EXCEPT !.i = i])
  <2>1. /\ local'.aio = local.aio /\ local'.buf = local.buf /\ local'.astray = local.astray
        /\ local'.full = local.full /\ local'.wiped = local.wiped
    BY <1>1, <1>2 DEF InputLocals
  <2> QED BY <1>1, <1>2, <2>1, InputOrderWaits
<1>3. ASSUME at'.main = "print", NEW cbs,
             LET fills == local.i = 0 /\ Len(local.buf[0]) = Block
             IN  local' = [local EXCEPT !.full = @ \/ fills, !.wiped = @ \/ fills,
                                        !.aio = cbs, !.astray = @ \/ cbs # local.aio]
      PROVE  InputOrder'
  <2> DEFINE fills == local.i = 0 /\ Len(local.buf[0]) = Block
  <2>1. /\ local'.aio = cbs /\ local'.buf = local.buf /\ local'.i = local.i
        /\ local'.full = (local.full \/ fills) /\ local'.wiped = (local.wiped \/ fills)
        /\ local'.astray = (local.astray \/ cbs # local.aio)
    BY <1>1, <1>3 DEF InputLocals
  <2>2. ~local'.full /\ ~local'.astray =>
          ~local.full /\ ~local.astray /\ ~fills /\ ~local'.wiped /\ local'.aio = local.aio
    BY <2>1 DEF InputOrder
  <2> QED BY <1>1, <1>3, <2>1, <2>2 DEF InputOrder, Shown, Counts
<1>4. \/ at'.main # "print" /\ at'.main \notin {"open", "start"}
         /\ (local' = local \/ \E i \in 0 .. 3 : local' = [local EXCEPT !.i = i])
      \/ /\ at'.main = "print"
         /\ LET fills == local.i = 0 /\ Len(local.buf[0]) = Block
            IN  \E cbs \in Input!Spoilt(local.aio) :
                  local' = [local EXCEPT !.full = @ \/ fills, !.wiped = @ \/ fills,
                                         !.aio = cbs, !.astray = @ \/ cbs # local.aio]
  <2>1. local.i \in 0 .. 2 /\ local.i + 1 \in 0 .. 3 /\ 0 \in 0 .. 3 BY <1>1 DEF InputLocals
  <2>2. ASSUME NEW to, Input!Go("main", "scan", to) PROVE at'.main = to
    BY <1>1, <2>2 DEF Input!Go, InputTypes
  <2>3. CASE Input!Go("main", "scan", end) /\ local' = [local EXCEPT !.i = 0]
    BY <2>1, <2>2, <2>3
  <2>4. CASE Input!Go("main", "scan", "scan") /\ local' = [local EXCEPT !.i = @ + 1]
    <3>1. local' = [local EXCEPT !.i = local.i + 1] /\ at'.main = "scan" BY <2>2, <2>4
    <3> QED BY <2>1, <3>1
  <2>5. CASE Input!Go("main", "scan", "failed") /\ UNCHANGED local
    BY <2>2, <2>5
  <2>6. CASE /\ Input!Go("main", "scan", "print")
             /\ LET fills == local.i = 0 /\ Len(local.buf[0]) = Block
                IN  \E cbs \in Input!Spoilt(local.aio) :
                      local' = [local EXCEPT !.full = @ \/ fills, !.wiped = @ \/ fills,
                                             !.aio = cbs, !.astray = @ \/ cbs # local.aio]
    BY <2>2, <2>6
  <2> QED BY <2>3, <2>4, <2>5, <2>6 DEF Input!Check
<1> QED BY <1>2, <1>3, <1>4

\* main opens a FIFO, of whichever program.
LEMMA InputOrderOpens ==
  ASSUME InputInv, InputOrder, program' = program, NEW first, Input!OpenPipe(first), first # "print"
  PROVE  InputOrder'
<1>1. /\ InputTypes /\ os' = os /\ sent' = sent /\ got' = got /\ local \in InputLocals /\ at.main = "open"
      /\ at'.main # "print" /\ local' = [local EXCEPT !.i = 1 - @]
  BY DEF InputInv, InputTypes, Input!OpenPipe, Input!Go
<1>2. /\ local'.aio = local.aio /\ local'.buf = local.buf /\ local'.astray = local.astray
      /\ local'.full = local.full /\ local'.wiped = local.wiped
  BY <1>1 DEF InputLocals
<1> QED BY <1>1, <1>2, InputOrderAside, InputOrderWaits

\* The programs that read and print at once do so in order.
LEMMA InputOrderReaders ==
  ASSUME InputInv, InputOrder, program' = program,
         \/ program = "mpx-blocks" /\ Input!mpx_blocks
         \/ program = "mpx-nonblock" /\ Input!mpx_nonblock
         \/ program = "mpx-fork" /\ (Input!mpx_fork("main") \/ Input!mpx_fork("child"))
         \/ program = "mpx-select" /\ Input!mpx_select
         \/ program = "mpx-poll" /\ Input!mpx_poll
  PROVE  InputOrder'
<1>1. program \notin Input!Asynchronous BY DEF Input!Asynchronous
<1>2. local.i \in 0 .. 2 /\ local.ready \subseteq Pipes BY DEF InputInv, InputTypes, InputLocals
<1>3. \/ \E k \in Pipes : Input!ReadAndPrint(k)
      \/ os' = os /\ sent' = sent /\ got' = got
  <2>1. 0 \in Pipes /\ 1 \in Pipes BY MCProgramsAssumption
  <2>2. at.main # "scan" => local.i \in Pipes BY DEF InputInv, MainInv
  <2>3. CASE program = "mpx-blocks" /\ Input!mpx_blocks
    BY <2>2, <2>3 DEF Input!mpx_blocks, Input!OpenPipe, Input!Go
  <2>4. CASE program = "mpx-nonblock" /\ Input!mpx_nonblock
    BY <2>2, <2>4 DEF Input!mpx_nonblock, Input!OpenPipe, Input!Go
  <2>5. CASE program = "mpx-fork" /\ (Input!mpx_fork("main") \/ Input!mpx_fork("child"))
    BY <2>1, <2>5 DEF Input!mpx_fork, Input!OpenPipe, Input!Fork, Input!myfd
  <2>6. Input!Scan => (\E k \in Pipes : Input!ReadAndPrint(k)) \/ (os' = os /\ sent' = sent /\ got' = got)
    BY <1>2 DEF Input!Scan, Input!Reported
  <2>7. CASE (program = "mpx-select" /\ Input!mpx_select) \/ (program = "mpx-poll" /\ Input!mpx_poll)
    BY <2>6, <2>7 DEF Input!mpx_select, Input!mpx_poll, Input!OpenPipe, Input!WaitFor
  <2> QED BY <2>3, <2>4, <2>5, <2>7
<1> QED BY <1>1, <1>3, InputOrderReads, InputOrderAside

\* mpx-aiosig.c is signalled, and main waits for it, or goes on.
LEMMA InputOrderWakes ==
  ASSUME InputInv, InputOrder, program' = program, program = "mpx-aiosig",
         Input!Pause \/ Input!Woken \/ Input!Interrupt \/ Input!sig_int
  PROVE  InputOrder'
<1>1. /\ InputTypes /\ os \in InputKernels /\ local \in InputLocals /\ sent' = sent /\ got' = got
      /\ program \in Input!Asynchronous
  BY DEF InputInv, InputTypes, Input!Pause, Input!Woken, Input!Interrupt, Input!sig_int, Input!Asynchronous
<1>2. os'.taken = os.taken
  BY <1>1 DEF InputKernels, Input!Pause, Input!Woken, Input!Interrupt, Input!sig_int
<1>3. /\ local'.aio = local.aio /\ local'.buf = local.buf /\ local'.i = local.i
      /\ local'.full = local.full /\ local'.wiped = local.wiped /\ local'.astray = local.astray
  <2>1. CASE Input!Pause \/ Input!Woken \/ Input!Interrupt
    BY <2>1 DEF Input!Pause, Input!Woken, Input!Interrupt
  <2>2. CASE Input!sig_int
    <3>1. PICK s \in os.pending :
            local' = [local EXCEPT !.quit = local.quit \/ s = "SIGINT", !.sigio = local.sigio \/ s = "SIGIO",
                                   !.late = at.main \notin {"pause", "woken"}]
      BY <2>2 DEF Input!sig_int
    <3> QED BY <1>1, <3>1 DEF InputLocals
  <2> QED BY <2>1, <2>2
<1>4. at'.main = at.main \/ at'.main \notin {"open", "start", "print"}
  BY <1>1 DEF InputTypes, Input!Pause, Input!Woken, Input!Interrupt, Input!sig_int, Input!Go
<1> QED BY <1>1, <1>2, <1>3, <1>4, InputOrderWaits

\* Every step of mpx-*.c keeps the order.
LEMMA InputOrderStep == InputInv /\ InputOrder /\ [Input!Next]_vars => InputOrder'
<1> SUFFICES ASSUME InputInv, InputOrder, [Input!Next]_vars PROVE InputOrder'
  OBVIOUS
<1>0. program \in Input!Programs /\ 0 \in Pipes /\ 1 \in Pipes
  BY MCProgramsAssumption DEF InputInv, InputTypes
<1>1. CASE UNCHANGED vars
  BY <1>1 DEF vars, InputOrder, Shown, Counts
<1>2. ASSUME Input!Next PROVE program' = program BY <1>2, InputStays
<1>3. CASE program' = program /\ Input!Writer BY <1>3, InputOrderWritten
<1>4. CASE program' = program /\ Input!Interrupt
  BY <1>4, InputOrderWakes DEF Input!Interrupt
<1>5. ASSUME program' = program, Input!Main PROVE InputOrder'
  <2>1. CASE \/ program = "mpx-blocks" /\ Input!mpx_blocks
             \/ program = "mpx-nonblock" /\ Input!mpx_nonblock
             \/ program = "mpx-fork" /\ Input!mpx_fork("main")
             \/ program = "mpx-select" /\ Input!mpx_select
             \/ program = "mpx-poll" /\ Input!mpx_poll
    BY <1>5, <2>1, InputOrderReaders
  <2>2. CASE program = "mpx-aio" /\ Input!mpx_aio
    <3>1. program \in Input!Asynchronous BY <2>2 DEF Input!Asynchronous
    <3> QED BY <1>5, <2>2, <3>1, InputOrderOpens, InputOrderInit, InputOrderChecks, InputOrderShows DEF Input!mpx_aio
  <2>3. CASE program = "mpx-aiosig" /\ Input!mpx_aiosig
    <3>1. program \in Input!Asynchronous BY <2>3 DEF Input!Asynchronous
    <3> QED BY <1>5, <2>3, <3>1, InputOrderOpens, InputOrderInit, InputOrderChecks, InputOrderShows, InputOrderWakes
            DEF Input!mpx_aiosig
  <2> QED BY <1>5, <2>1, <2>2, <2>3 DEF Input!Main
<1>6. CASE program' = program /\ program = "mpx-fork" /\ Input!mpx_fork("child")
  BY <1>6, InputOrderReaders
<1>7. ASSUME program' = program, NEW p \in {"aio 0", "aio 1"}, Input!AioRead(IF p = "aio 0" THEN 0 ELSE 1)
      PROVE  InputOrder'
  <2>1. CASE p = "aio 0" BY <1>7, <1>0, <2>1, InputOrderAio
  <2>2. CASE p = "aio 1" BY <1>7, <1>0, <2>2, InputOrderAio
  <2> QED BY <1>7, <2>1, <2>2
<1>8. CASE program' = program /\ program = "mpx-aiosig" /\ Input!sig_int
  BY <1>8, InputOrderWakes
<1>9. CASE program' = program /\ Input!AstrayRead
  <2>1. local'.astray /\ program \in Input!Asynchronous BY <1>9, AstrayReads
  <2>2. sent' = sent /\ got' = got BY <1>9 DEF Input!AstrayRead
  <2> QED BY <1>9, <2>1, <2>2 DEF InputOrder, Counts
<1> QED BY <1>1, <1>2, <1>3, <1>4, <1>5, <1>6, <1>7, <1>8, <1>9 DEF Input!Next, Input!Step

\* Hence what is printed is a prefix of what was written.
LEMMA InputInOrder == InputInv /\ InputOrder => Input!InOrder
<1> SUFFICES ASSUME InputInv, InputOrder, ~local.full, ~local.astray, NEW k \in Pipes
             PROVE  Input!IsPrefix(got[k], sent[k])
  BY DEF Input!InOrder
<1>1. /\ sent[k] \in Seq(Nat) /\ got[k] \in Seq(Nat) /\ Counts(sent[k]) /\ Counts(got[k])
      /\ os.taken[k] \in Nat /\ os.taken[k] <= Len(sent[k])
  <2>1. sent[k] \in Seq(Nat) /\ got[k] \in Seq(Nat) /\ Counts(sent[k]) /\ Counts(got[k])
    BY DEF InputInv, InputTypes, InputOrder, Shown
  <2>2. os.taken[k] \in Nat /\ os.taken[k] <= Len(sent[k])
    BY DEF InputInv, InputTypes, InputKernels, FifoInv
  <2> QED BY <2>1, <2>2
<1>2. Len(got[k]) <= os.taken[k]
  <2>1. Len(got[k]) \in Nat /\ Len(local.buf[k]) \in Nat
    BY <1>1, LenProperties DEF InputInv, InputTypes, InputLocals
  <2>2. Len(got[k]) = os.taken[k] \/ Len(got[k]) + Len(local.buf[k]) = os.taken[k]
    BY DEF InputOrder, Shown
  <2>3. \A m, n, all \in Nat : m = all \/ m + n = all => m <= all
    OBVIOUS
  <2> QED BY <1>1, <2>1, <2>2, <2>3, Zenon
<1>3. Len(got[k]) \in Nat /\ Len(sent[k]) \in Nat /\ Len(got[k]) <= Len(sent[k])
  BY <1>1, <1>2, LenProperties
<1>4. \A n \in 1 .. Len(got[k]) : got[k][n] = sent[k][n]
  BY <1>1, <1>3 DEF Counts
<1> QED BY <1>1, <1>3, <1>4, PrefixBySame DEF Input!IsPrefix

----------------------------------------------------------------------------
(* The program that runs                                                   *)

\* The program that runs keeps its own invariant.
ProgramInv ==
  /\ program \in Input!Programs => InputInv
  /\ program \in Service!Programs => ServiceInv
  /\ program \in Queues!Programs => QueuesInv
  /\ program \in Hax!Programs => HaxInv
  /\ program \in Lock!Programs => LockInv
  /\ program \in Sockets!Programs => SocketsInv

\* And what it makes of its input is in order.
OrderInv ==
  /\ program \in Input!Programs => InputOrder
  /\ program \in Service!Programs => ServiceOrder
  /\ program \in Signals!Programs => SignalOrder
  /\ program = "msg" => MsgOrder
  /\ program = "mq" => MqOrder
  /\ program \in Sockets!Programs => SocketOrder
  /\ program \in Bench!Programs => BenchOrder

\* Where a run starts the program that runs has what it keeps.
LEMMA ProgramStarts == Init => ProgramInv
BY OneStart, InputStarts, ServiceStarts, QueuesStart, HaxStarts, LockStarts, SocketsStart DEF ProgramInv

\* And each of its steps keeps it.
LEMMA ProgramSteps == ProgramInv /\ [Next]_vars => ProgramInv'
BY OneProgram, InputStep, ServiceStep, QueuesStep, HaxStep, LockStep, SocketsStep DEF ProgramInv

\* At first nothing is out of order.
LEMMA OrderStarts == Init => OrderInv
<1>1. program \in {"msg", "mq"} => program \in Queues!Programs
  BY DEF Queues!Programs
<1> QED
  BY <1>1, OneStart, InputOrderStarts, ServiceOrderStarts, SignalOrderStarts, MsgOrderStarts, MqOrderStarts,
     SocketOrderStarts, BenchOrderStarts DEF OrderInv

\* The order of the message queues depends on the state only.
LEMMA QueuesOrderStays ==
  ASSUME UNCHANGED vars
  PROVE  (MsgOrder => MsgOrder') /\ (MqOrder => MqOrder')
<1>1. /\ program' = program /\ at' = at /\ os' = os /\ local' = local /\ sent' = sent /\ got' = got
  BY DEF vars
<1>2. \A r \in Receivers : GotFirst(r) => GotFirst(r)'
  BY <1>1 DEF GotFirst
<1>3. (MsgOrder => MsgOrder')
  BY <1>1, <1>2 DEF MsgOrder, Queues!Removals
<1>4. MqTypes => MqTypes'
  BY <1>1 DEF MqTypes
<1>5. ASSUME MqGot PROVE MqGot'
  <2>1. \A r, q \in Receivers : \A i \in 1 .. Len(got'[r]), j \in 1 .. Len(got'[q]) :
          got'[r][i].message = got'[q][j].message => r = q /\ i = j
    BY <1>1, <1>5 DEF MqGot
  <2>2. \A r \in Receivers : \A i, j \in 1 .. Len(got'[r]) :
          i < j /\ got'[r][i].message.prio = got'[r][j].message.prio =>
            Earlier(sent'.queue, got'[r][i].message, got'[r][j].message)
    BY <1>1, <1>5 DEF MqGot
  <2>3. \A r \in Receivers : \A j \in 1 .. Len(got'[r]) : TextOf(got'[r], j, got'[r][j].text)
    BY <1>1, <1>5 DEF MqGot
  <2> QED BY <2>1, <2>2, <2>3 DEF MqGot
<1>6. ASSUME MqOrder PROVE MqOrder'
  <2>1. MqTypes' /\ MqGot'
    BY <1>4, <1>5, <1>6 DEF MqOrder
  <2>2. Sorted(os'.queue, sent'.queue)
    BY <1>1, <1>6 DEF MqOrder
  <2>3. /\ \A i \in 1 .. Len(sent'.queue) : at'[sent'.queue[i].text] = "ended"
        /\ \A r \in Receivers : \A i \in 1 .. Len(got'[r]) : Before(got'[r][i].message, os'.queue, sent'.queue)
    BY <1>1, <1>6 DEF MqOrder
  <2>4. \A r \in Receivers : TextOf(got'[r], Len(got'[r]), local'.mtext[r])
    BY <1>1, <1>6 DEF MqOrder
  <2> QED BY <2>1, <2>2, <2>3, <2>4 DEF MqOrder
<1> QED BY <1>3, <1>6

\* Each step of the program that runs keeps its order.
LEMMA OrderSteps == ProgramInv /\ OrderInv /\ [Next]_vars => OrderInv'
<1> SUFFICES ASSUME ProgramInv, OrderInv, [Next]_vars PROVE OrderInv'
  OBVIOUS
<1>1. /\ program' = program
      /\ program \in {"msg", "mq"} => QueuesInv /\ [Queues!Next]_vars
  BY OneProgram DEF ProgramInv, Queues!Programs
<1>2. ASSUME program = "msg" PROVE MsgOrder'
  <2>1. MsgOrder /\ QueuesInv /\ [Queues!Next]_vars
    BY <1>1, <1>2 DEF OrderInv
  <2>2. CASE UNCHANGED vars
    BY <2>1, <2>2, QueuesOrderStays
  <2>3. CASE Queues!Next
    <3>1. PICK p \in Queues!Actors : Queues!Step(p)
      BY <2>3 DEF Queues!Next
    <3> QED BY <1>1, <1>2, <2>1, <3>1, MsgOrderStep
  <2> QED BY <2>1, <2>2, <2>3
<1>3. ASSUME program = "mq" PROVE MqOrder'
  <2>1. MqOrder /\ QueuesInv /\ [Queues!Next]_vars
    BY <1>1, <1>3 DEF OrderInv
  <2>2. CASE UNCHANGED vars
    BY <2>1, <2>2, QueuesOrderStays
  <2>3. CASE Queues!Next
    <3>1. PICK p \in Queues!Actors : Queues!Step(p)
      BY <2>3 DEF Queues!Next
    <3> QED BY <1>3, <2>1, <3>1, MqOrderStep
  <2> QED BY <2>1, <2>2, <2>3
<1>4. /\ program \in Input!Programs => InputOrder'
      /\ program \in Service!Programs => ServiceOrder'
      /\ program \in Signals!Programs => SignalOrder'
      /\ program \in Sockets!Programs => SocketOrder'
      /\ program \in Bench!Programs => BenchOrder'
  BY OneProgram, InputOrderStep, ServiceOrderStep, SignalOrderStep, SocketOrderStep, BenchOrderStep
     DEF OrderInv, ProgramInv
<1> QED BY <1>1, <1>2, <1>3, <1>4 DEF OrderInv

\* What the programs keep, whichever of them runs (the models of mpx-*.c, daemon.c, the
\* message queues, shared_posix_hax.c, lock.c and userver.c).
THEOREM ProgramsKeepTheirs == Spec => []ProgramInv
BY ProgramStarts, ProgramSteps, PTL DEF Spec

\* One writer of a locked file at a time, and one owner of a shared buffer while its
\* semaphores were initialised once (fcntl in lock.c, sem_wait in shared_posix_hax.c): for
\* any number of processes, locks, posts and kills.
THEOREM OneAtATime == Spec => []Exclusive
<1>1. ProgramInv => Exclusive
  BY LockHeldOnce, HaxOwnedOnce DEF ProgramInv, Exclusive
<1> QED BY <1>1, ProgramsKeepTheirs, PTL

\* No program gives up, or fails an assertion, without a reason from outside: the end of
\* a FIFO (mpx-*.c), a name that is no FIFO (daemon.c), a queue that another receiver has
\* removed (code_l7), a peer that was killed or has left.
THEOREM FailuresHaveReasons == Spec => []FailuresExplained
<1>1. InputInv => Input!FailsOnlyAtEnd BY DEF InputInv
<1>2. ServiceInv => Service!FailsOnlyWithoutFifo BY DEF ServiceInv
<1>3. QueuesInv => Queues!AbortsExplained BY DEF QueuesInv
<1>4. HaxInv => Hax!AbortsExplained BY DEF HaxInv
<1>5. SocketsInv => Sockets!AbortsExplained BY DEF SocketsInv
<1>6. ProgramInv => FailuresExplained
  BY <1>1, <1>2, <1>3, <1>4, <1>5 DEF ProgramInv, FailuresExplained
<1> QED BY <1>6, ProgramsKeepTheirs, PTL

\* What a program makes of its input is its input, in its order: nothing is invented,
\* doubled or overtaken on its way through FIFOs and asynchronous reads (mpx-*.c,
\* daemon.c), signals (signal-good.c, signal-better.c, service.c), the queues of code_l7,
\* the connections of userver.c or the files of as1_testbench.c, but for the buffers that
\* mpx-*.c overruns and the outputs that as1_testbench.c does not get.
THEOREM EverythingInOrder == Spec => []InOrder
<1>1. ProgramInv /\ OrderInv => InOrder
  <2> SUFFICES ASSUME ProgramInv, OrderInv PROVE InOrder
    OBVIOUS
  <2>1. program \in Queues!Programs => Queues!InOrder
    BY MsgInOrder, MqInOrder DEF ProgramInv, OrderInv, Queues!Programs
  <2> QED
    BY <2>1, InputInOrder, ServiceInOrder, SignalsInOrder, SocketsInOrder, BenchInOrder
       DEF ProgramInv, OrderInv, InOrder
<1>2. Spec => []OrderInv
  BY OrderStarts, OrderSteps, ProgramsKeepTheirs, PTL DEF Spec
<1> QED BY <1>1, <1>2, ProgramsKeepTheirs, PTL
=============================================================================
