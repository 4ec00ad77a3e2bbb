------------------------------ MODULE LoopProofs ------------------------------
(***************************************************************************)
(* What most programs of MCPrograms keep, for any number of processes and  *)
(* signals: lock.c, shared_posix_hax.c, userver.c with uclient.c,          *)
(* daemon.c, the signal loops, and the testbench.  Each has an invariant   *)
(* that its own steps keep.  ProgramProofs has those of the message queues *)
(* and of mpx-*.c, and the theorems.                                       *)
(***************************************************************************)
EXTENDS MCPrograms, SequenceTheorems, TLAPS

----------------------------------------------------------------------------
(* One program at a time                                                   *)

\* No step of mpx-*.c makes the run one of another program.
LEMMA InputStays == Input!Next => program' = program
BY DEF Input!Next, Input!Writer, Input!Interrupt, Input!Step, Input!Main, Input!WriterOpens, Input!WriterWrites,
       Input!WriterCloses, Input!ReadAndPrint, Input!OpenPipe, Input!mpx_blocks, Input!mpx_nonblock, Input!Fork,
       Input!mpx_fork, Input!WaitFor, Input!Scan, Input!mpx_select, Input!mpx_poll, Input!InitReads,
       Input!AioRead, Input!AstrayRead, Input!Check, Input!ShowBuffer, Input!mpx_aio, Input!Woken, Input!Pause, Input!mpx_aiosig,
       Input!sig_int

\* No step of daemon.c does.
LEMMA ServiceStays == Service!Next => program' = program
BY DEF Service!Next, Service!Writer, Service!FifoRemoved, Service!Step, Service!WriterOpens, Service!WriterWrites,
       Service!WriterCloses, Service!ReadAndPrint, Service!Steps, Service!Fork, Service!setsid, Service!closeall,
       Service!mkfifo, Service!stat, Service!open, Service!process

\* No step of the signal loops does.
LEMMA SignalsStays == Signals!Next => program' = program
BY DEF Signals!Next, Signals!Kill, Signals!Step, Signals!Main, Signals!Deliver, Signals!DefaultAction,
       Signals!Install, Signals!Steps, Signals!SignalHandler, Signals!signal, Signals!GoodHandler,
       Signals!signal_good, Signals!PipeHandler, Signals!ReadSignal, Signals!signal_better, Signals!service,
       Signals!signalfd, Signals!sig_quit, Signals!signal_block

\* No step of a sender or a receiver of messages does.
LEMMA QueuesStays == Queues!Next => program' = program
BY DEF Queues!Next, Queues!Step, Queues!Create, Queues!Find, Queues!mq_send, Queues!mq_receive, Queues!msgsnd,
       Queues!msgrcv, Queues!msgctl, Queues!msend_posix, Queues!mreceive_posix, Queues!msend_sysv,
       Queues!mreceive_sysv

\* No step of shared_posix_hax.c does.
LEMMA HaxStays == Hax!Next => program' = program
BY DEF Hax!Next, Hax!Steps, Hax!sem_wait, Hax!sem_post, Hax!Create, Hax!ftruncate, Hax!sem_init, Hax!loop,
       Hax!sigdelete, Hax!delete, Hax!server, Hax!Find, Hax!Choose, Hax!clientwrite, Hax!client, Hax!Kill

\* No step of lock.c does.
LEMMA LockStays == Lock!Next => program' = program
BY DEF Lock!Next, Lock!setlkw, Lock!getlock, Lock!unlock, Lock!main, Lock!Kill

\* No step of the forking server does.
LEMMA NetStays == Net!Next => program' = program
BY DEF Net!Next, Net!Step, Net!Connect, Net!HangUp, Net!accept, Net!fork, Net!close, Net!server, Net!Ends,
       Net!child, Net!Deliver, Net!waitpid, Net!sigchld_handler

\* No step of userver.c or of its client does.
LEMMA SocketsStays == Sockets!Next => program' = program
BY DEF Sockets!Next, Sockets!Steps, Sockets!unlink, Sockets!bind, Sockets!listen, Sockets!accept, Sockets!copydata,
       Sockets!server, Sockets!connect, Sockets!Type, Sockets!write, Sockets!client, Sockets!Kill

\* No step of the testbench does.
LEMMA BenchStays == Bench!Next => program' = program
BY DEF Bench!Next, Bench!Step, Bench!test, Bench!child, Bench!Begin, Bench!generate_random_file, Bench!Fork,
       Bench!Wait, Bench!compare_file, Bench!Unlink, Bench!NextTest, Bench!OpenInput, Bench!OpenOutput,
       Bench!ExecFails, Bench!Copy, Bench!Exit

\* Every step is one of the program that runs, or none.
LEMMA OneProgram ==
  ASSUME [Next]_vars
  PROVE  /\ program' = program
         /\ program \in Input!Programs => [Input!Next]_vars
         /\ program \in Service!Programs => [Service!Next]_vars
         /\ program \in Signals!Programs => [Signals!Next]_vars
         /\ program \in Queues!Programs => [Queues!Next]_vars
         /\ program \in Hax!Programs => [Hax!Next]_vars
         /\ program \in Lock!Programs => [Lock!Next]_vars
         /\ program \in Sockets!Programs => [Sockets!Next]_vars
         /\ program \in Bench!Programs => [Bench!Next]_vars
<1>1. program' = program
  BY InputStays, ServiceStays, SignalsStays, QueuesStays, HaxStays, LockStays, NetStays, SocketsStays, BenchStays
     DEF Next, InputNext, ServiceNext, SignalsNext, QueuesNext, HaxNext, LockNext, NetNext, SocketsNext,
         BenchNext, vars
<1> QED
  BY <1>1 DEF Next, InputNext, ServiceNext, SignalsNext, QueuesNext, HaxNext, LockNext, NetNext, SocketsNext,
              BenchNext,
              Input!Programs, Service!Programs, Signals!Programs, Queues!Programs, Hax!Programs, Lock!Programs,
              Net!Programs, Sockets!Programs, Bench!Programs

\* Where a run starts is where its program starts.
LEMMA OneStart ==
  ASSUME Init
  PROVE  /\ program \in Input!Programs => Input!Init
         /\ program \in Service!Programs => Service!Init
         /\ program \in Signals!Programs => Signals!Init
         /\ program \in Queues!Programs => Queues!Init
         /\ program \in Hax!Programs => Hax!Init
         /\ program \in Lock!Programs => Lock!Init
         /\ program \in Sockets!Programs => Sockets!Init
         /\ program \in Bench!Programs => Bench!Init
<1>1. /\ Input!Init => program \in Input!Programs
      /\ Service!Init => program \in Service!Programs
      /\ Signals!Init => program \in Signals!Programs
      /\ Queues!Init => program \in Queues!Programs
      /\ Hax!Init => program \in Hax!Programs
      /\ Lock!Init => program \in Lock!Programs
      /\ Net!Init => program \in Net!Programs
      /\ Sockets!Init => program \in Sockets!Programs
      /\ Bench!Init => program \in Bench!Programs
  BY DEF Input!Init, Service!Init, Signals!Init, Queues!Init, Hax!Init, Lock!Init, Net!Init, Sockets!Init, Bench!Init
<1> QED
  BY <1>1 DEF Init, Input!Programs, Service!Programs, Signals!Programs, Queues!Programs, Hax!Programs, Lock!Programs,
              Net!Programs, Sockets!Programs, Bench!Programs

----------------------------------------------------------------------------
(* Sequences and counts                                                    *)

\* The first, second, ... element of s is the number 1, 2, ...
Counts(s) == \A n \in 1 .. Len(s) : s[n] = n

\* A sequence whose elements are the first ones of another is a prefix of it.
LEMMA PrefixBySame ==
  ASSUME NEW S, NEW s \in Seq(S), NEW t \in Seq(S), Len(s) <= Len(t), \A n \in 1 .. Len(s) : s[n] = t[n]
  PROVE  SubSeq(s, 1, Len(s)) = SubSeq(t, 1, Len(s))
<1>1. Len(s) \in Nat /\ \A n \in 1 .. Len(s) : s[n] \in S /\ t[n] \in S
  BY ElementOfSeq, LenProperties
<1>2. /\ SubSeq(s, 1, Len(s)) \in Seq(S) /\ Len(SubSeq(s, 1, Len(s))) = Len(s)
      /\ \A n \in 1 .. Len(s) : SubSeq(s, 1, Len(s))[n] = s[n]
  BY <1>1, SubSeqFull
<1>3. /\ SubSeq(t, 1, Len(s)) \in Seq(S)
      /\ Len(SubSeq(t, 1, Len(s))) = IF 1 <= Len(s) THEN Len(s) - 1 + 1 ELSE 0
      /\ \A n \in 1 .. Len(s) - 1 + 1 : SubSeq(t, 1, Len(s))[n] = t[1 + n - 1]
  BY <1>1, SubSeqProperties
<1>4. Len(SubSeq(t, 1, Len(s))) = Len(s) /\ \A n \in 1 .. Len(s) : SubSeq(t, 1, Len(s))[n] = t[n]
  BY <1>1, <1>3
<1> QED BY <1>2, <1>3, <1>4, SeqEqual

\* A part of a sequence that counts goes on counting.
LEMMA CountsOn ==
  ASSUME NEW s \in Seq(Nat), Counts(s), NEW t \in Nat, NEW u \in t .. Len(s)
  PROVE  /\ SubSeq(s, t + 1, u) \in Seq(Nat) /\ Len(SubSeq(s, t + 1, u)) = u - t
         /\ \A n \in 1 .. u - t : SubSeq(s, t + 1, u)[n] = t + n
<1>1. Len(s) \in Nat /\ u \in Nat /\ \A n \in t + 1 .. u : s[n] = n
  BY LenProperties DEF Counts
<1>2. \A n \in t + 1 .. u : s[n] \in Nat
  BY <1>1
<1>3. /\ SubSeq(s, t + 1, u) \in Seq(Nat)
      /\ Len(SubSeq(s, t + 1, u)) = IF t + 1 <= u THEN u - (t + 1) + 1 ELSE 0
      /\ \A n \in 1 .. u - (t + 1) + 1 : SubSeq(s, t + 1, u)[n] = s[t + 1 + n - 1]
  BY <1>1, <1>2, SubSeqProperties
<1> QED BY <1>1, <1>3

\* A sequence that counts does so with its continuation.
LEMMA CountsConcat ==
  ASSUME NEW s \in Seq(Nat), Counts(s), NEW c \in Seq(Nat), \A n \in 1 .. Len(c) : c[n] = Len(s) + n
  PROVE  s \o c \in Seq(Nat) /\ Len(s \o c) = Len(s) + Len(c) /\ Counts(s \o c)
<1>1. Len(s) \in Nat /\ Len(c) \in Nat BY LenProperties
<1>2. /\ s \o c \in Seq(Nat) /\ Len(s \o c) = Len(s) + Len(c)
      /\ \A i \in 1 .. Len(s) + Len(c) : (s \o c)[i] = IF i <= Len(s) THEN s[i] ELSE c[i - Len(s)]
  BY ConcatProperties
<1>3. \A i \in 1 .. Len(s) + Len(c) : (s \o c)[i] = i
  BY <1>1, <1>2 DEF Counts
<1> QED BY <1>2, <1>3 DEF Counts

\* So does one with its next number.
LEMMA CountsAppend ==
  ASSUME NEW s \in Seq(Nat), Counts(s)
  PROVE  /\ Append(s, Len(s) + 1) \in Seq(Nat) /\ Len(Append(s, Len(s) + 1)) = Len(s) + 1
         /\ Counts(Append(s, Len(s) + 1))
<1>1. Len(s) \in Nat /\ Len(s) + 1 \in Nat BY LenProperties
<1> QED BY <1>1, AppendProperties DEF Counts

\* A sequence and one more element.
LEMMA OneMore ==
  ASSUME NEW S, NEW s \in Seq(S), NEW e \in S
  PROVE  /\ Append(s, e) \in Seq(S) /\ Len(s) \in Nat /\ Len(Append(s, e)) = Len(s) + 1
         /\ \A i \in 1 .. Len(s) : Append(s, e)[i] = s[i]
         /\ Append(s, e)[Len(s) + 1] = e
BY AppendProperties, LenProperties

----------------------------------------------------------------------------
(* lock.c                                                                  *)

\* Where a process that locks may be.
LockPlaces == {"read lock", "reading", "write lock", "writing", "ended", "killed"}

\* What each process says it has it has, and a writer has it alone.
LockInv ==
  /\ at \in [Lockers -> LockPlaces]
  /\ os \in [lock : [Lockers -> {"none", "read", "write"}], refusals : Nat]
  /\ \A p \in Lockers : at[p] = "reading" => os.lock[p] = "read"
  /\ \A p \in Lockers : at[p] = "writing" => os.lock[p] = "write"
  /\ \A p, q \in Lockers : os.lock[p] = "write" /\ p # q => os.lock[q] = "none"

\* At first nobody has a lock.
LEMMA LockStarts == Lock!Init => LockInv
<1> SUFFICES ASSUME Lock!Init PROVE LockInv
  OBVIOUS
<1>1. /\ at = [p \in Lockers |-> "read lock"]
      /\ os = [lock |-> [p \in Lockers |-> "none"], refusals |-> 0]
  BY DEF Lock!Init
<1>2. at \in [Lockers -> LockPlaces] /\ os \in [lock : [Lockers -> {"none", "read", "write"}], refusals : Nat]
  BY <1>1 DEF LockPlaces
<1>3. \A p \in Lockers : at[p] = "read lock" /\ os.lock[p] = "none"
  BY <1>1
<1> QED BY <1>1, <1>2, <1>3 DEF LockInv

\* The kernel grants a lock only where it conflicts with none.
LEMMA LockGranted ==
  ASSUME LockInv, NEW p \in Lockers, NEW type \in {"read", "write"}, NEW from, NEW to \in LockPlaces,
         (to = "reading" => type = "read") /\ (to = "writing" => type = "write"),
         Lock!getlock(p, type, from, to)
  PROVE  LockInv'
<1>1. CASE at' = [at EXCEPT ![p] = to] /\ os' = [os EXCEPT !.lock[p] = type] /\ ~Lock!Conflict(p, type)
  BY <1>1 DEF LockInv, Lock!Conflict
<1>2. CASE at' = at /\ os' = os
  BY <1>2 DEF LockInv
<1>3. CASE at' = at /\ os' = [os EXCEPT !.refusals = @ + 1]
  BY <1>3 DEF LockInv
<1> QED BY <1>1, <1>2, <1>3 DEF Lock!getlock, Lock!setlkw, Lock!Go

\* Who goes where no lock is needed may give its own back.
LEMMA LockReleased ==
  ASSUME LockInv, NEW p \in Lockers, NEW from, NEW to \in LockPlaces, to \notin {"reading", "writing"},
         Lock!unlock(p, from, to)
  PROVE  LockInv'
BY DEF LockInv, Lock!unlock, Lock!Go

\* A process asks for a lock, gets it or is refused, gives it back, or is killed.
LEMMA LockStep == LockInv /\ [Lock!Next]_vars => LockInv'
<1> SUFFICES ASSUME LockInv, [Lock!Next]_vars PROVE LockInv'
  OBVIOUS
<1>1. CASE UNCHANGED vars
  BY <1>1 DEF LockInv, vars
<1>2. CASE \E p \in Lockers : Lock!main(p) \/ Lock!Kill(p)
  <2> PICK p \in Lockers : Lock!main(p) \/ Lock!Kill(p) BY <1>2
  <2>1. CASE Lock!getlock(p, "read", "read lock", "reading")
    BY <2>1, LockGranted DEF LockPlaces
  <2>2. CASE Lock!getlock(p, "write", "write lock", "writing")
    BY <2>2, LockGranted DEF LockPlaces
  <2>3. CASE Lock!unlock(p, "reading", "write lock") \/ Lock!unlock(p, "writing", "ended")
             \/ Lock!unlock(p, at[p], "killed")
    BY <2>3, LockReleased DEF LockPlaces
  <2> QED BY <2>1, <2>2, <2>3 DEF Lock!main, Lock!Kill
<1> QED BY <1>1, <1>2 DEF Lock!Next

\* Hence a writer of the file is alone (F_SETLKW and F_GETLK in lock.c).
LEMMA LockHeldOnce == LockInv => Lock!Exclusive
BY DEF LockInv, Lock!Exclusive

----------------------------------------------------------------------------
(* shared_posix_hax.c                                                      *)

\* The places of a process that has the segment, and of a server that will.
HaxServerPlaces == {"start", "ftruncate", "init empty", "init full", "arm", "wait", "print", "post", "delete",
  "ended",
                    "aborted", "killed"}
HaxClientPlaces == {"start", "menu", "wait", "enter", "post", "ended", "aborted", "killed"}
\* The segments and their semaphores, and who has the name.
HaxObjects ==
  [named : Servers \cup {"none"}, sized : [Servers -> BOOLEAN], empty : [Servers -> Nat], full : [Servers -> Nat],
   inits : [Servers -> Nat], wiped : [Servers -> BOOLEAN], sends : Nat]

\* The places and the objects; whoever has begun, and goes on, has a segment.
HaxTyped ==
  /\ at \in [Hax!Actors -> HaxServerPlaces \cup HaxClientPlaces]
  /\ \A s \in Servers : at[s] \in HaxServerPlaces
  /\ \A c \in Clients : at[c] \in HaxClientPlaces
  /\ os \in HaxObjects
  /\ local \in [segment : [Hax!Actors -> Servers \cup {"none"}]]
  /\ \A p \in Hax!Actors : at[p] \notin {"start", "aborted", "killed", "ended"} => Hax!Segment(p) \in Servers

\* The one turn of a segment: with nobody before its semaphores have values, then in one of
\* them or with one process, or lost.
HaxTurn(o) ==
  /\ os.inits[o] = 0 => os.empty[o] = 0 /\ os.full[o] = 0
  /\ os.inits[o] = 0 => \A p \in Hax!Actors : Hax!Holds(p) => Hax!Segment(p) # o
  /\ os.empty[o] + os.full[o] <= 1
  /\ \A p \in Hax!Actors : Hax!Holds(p) /\ Hax!Segment(p) = o => os.empty[o] = 0 /\ os.full[o] = 0
  /\ \A p, q \in Hax!Actors : Hax!Holds(p) /\ Hax!Holds(q) /\ Hax!Segment(p) = o /\ Hax!Segment(q) = o => p = q
\* It is one turn while the semaphores of a segment were initialised at most once.
HaxTurns == \A o \in Servers : os.inits[o] < 2 => HaxTurn(o)

\* The name is there, or a server has left and removed it.
HaxNamed == (\A s \in Servers : at[s] = "start") \/ os.named # "none" \/ \E t \in Servers : at[t] = "ended"

\* What the servers and clients of shared_posix_hax.c keep.
HaxInv == HaxTyped /\ HaxTurns /\ HaxNamed /\ Hax!AbortsExplained

\* At first there is no segment and no process has begun.
LEMMA HaxStarts == Hax!Init => HaxInv
<1> SUFFICES ASSUME Hax!Init PROVE HaxInv
  OBVIOUS
<1>1. /\ at = [p \in Hax!Actors |-> "start"]
      /\ os = [named |-> "none", sized |-> [o \in Servers |-> FALSE],
               empty |-> [o \in Servers |-> 0], full |-> [o \in Servers |-> 0],
               inits |-> [o \in Servers |-> 0], wiped |-> [o \in Servers |-> FALSE], sends |-> 0]
      /\ local = [segment |-> [p \in Hax!Actors |-> "none"]]
  BY DEF Hax!Init
<1>2. HaxTyped
  BY <1>1 DEF HaxTyped, HaxObjects, HaxServerPlaces, HaxClientPlaces, Hax!Actors
<1>3. HaxTurns
  BY <1>1 DEF HaxTurns, HaxTurn, Hax!Holds
<1> QED BY <1>1, <1>2, <1>3 DEF HaxInv, HaxNamed, Hax!AbortsExplained, Hax!Actors

\* A process goes on, with its segment, and takes or gives no turn.
HaxGoes(p, to) ==
  /\ p \in Hax!Actors /\ at' = [at EXCEPT ![p] = to]
  /\ p \in Servers => to \in HaxServerPlaces
  /\ p \in Clients => to \in HaxClientPlaces

\* Neither the places of servers that end nor the name are a matter of the semaphores.
LEMMA HaxNamesStay ==
  ASSUME HaxInv, NEW p \in Hax!Actors, NEW to, HaxGoes(p, to), os'.named = os.named,
         at[p] \notin {"ended", "aborted"}, p \in Servers => to # "aborted" /\ at[p] # "start"
  PROVE  HaxNamed' /\ Hax!AbortsExplained'
<1>1. \A t \in Servers : at[t] = "ended" => at'[t] = "ended"
  BY DEF HaxGoes, HaxInv, HaxTyped, Hax!Actors
<1>2. HaxNamed'
  BY <1>1 DEF HaxInv, HaxTyped, HaxNamed, HaxGoes, Hax!Actors
<1>3. \A t \in Servers : at'[t] = "aborted" => at[t] = "aborted"
  BY DEF HaxGoes, HaxInv, HaxTyped, Hax!Actors
<1> QED BY <1>1, <1>2, <1>3 DEF HaxInv, Hax!AbortsExplained

\* A process that has its segment keeps it as it goes on.
LEMMA HaxTypedGoes ==
  ASSUME HaxTyped, NEW p \in Hax!Actors, NEW to, HaxGoes(p, to), os' \in HaxObjects, local' = local,
         at[p] \notin {"start", "aborted", "killed", "ended"}
  PROVE  HaxTyped'
BY DEF HaxTyped, HaxGoes, Hax!Segment, Hax!Actors

\* A step that takes no turn.
LEMMA HaxTurnsAside ==
  ASSUME HaxInv, NEW p \in Hax!Actors, NEW to, HaxGoes(p, to), to \in {"enter", "print", "post"} => Hax!Holds(p),
         os'.empty = os.empty, os'.full = os.full, os'.inits = os.inits, local' = local
  PROVE  HaxTurns'
<1>1. \A q \in Hax!Actors : (Hax!Holds(q))' => Hax!Holds(q)
  BY DEF HaxGoes, Hax!Holds, HaxInv, HaxTyped
<1>2. \A q \in Hax!Actors : (Hax!Segment(q))' = Hax!Segment(q)
  BY DEF Hax!Segment
<1>3. \A o \in Servers : HaxTurn(o) => HaxTurn(o)'
  BY <1>1, <1>2 DEF HaxTurn
<1> QED BY <1>3 DEF HaxTurns, HaxInv

\* A process that opens the segment is not yet its owner.
LEMMA HaxTurnsMap ==
  ASSUME HaxInv, NEW p \in Hax!Actors, NEW to, HaxGoes(p, to), at[p] = "start", to \notin {"enter", "print", "post"},
         os'.empty = os.empty, os'.full = os.full, os'.inits = os.inits, NEW o, Hax!Map(p, o)
  PROVE  HaxTurns'
<1>1. \A q \in Hax!Actors : (Hax!Holds(q))' => Hax!Holds(q) /\ q # p
  BY DEF HaxGoes, Hax!Holds, HaxInv, HaxTyped
<1>2. \A q \in Hax!Actors \ {p} : (Hax!Segment(q))' = Hax!Segment(q)
  BY DEF Hax!Segment, Hax!Map, HaxInv, HaxTyped
<1>3. \A s \in Servers : HaxTurn(s) => HaxTurn(s)'
  BY <1>1, <1>2 DEF HaxTurn
<1> QED BY <1>3 DEF HaxTurns, HaxInv

\* sem_wait takes the turn from a semaphore, sem_post gives it to one.
LEMMA HaxTurnsWait ==
  ASSUME HaxInv, NEW p \in Hax!Actors, NEW to, HaxGoes(p, to), NEW o \in Servers, Hax!Segment(p) = o,
         NEW sem \in {"empty", "full"}, Hax!sem_wait(p, sem)
  PROVE  HaxTurns' /\ os' \in HaxObjects /\ os'.named = os.named
<1>1. /\ os[sem][o] > 0 /\ os' = [os EXCEPT ![sem] = [os[sem] EXCEPT ![o] = os[sem][o] - 1]] /\ local' = local
  BY DEF Hax!sem_wait
<1>2. os \in HaxObjects /\ o \in Servers /\ local \in [segment : [Hax!Actors -> Servers \cup {"none"}]]
  BY DEF HaxInv, HaxTyped
<1>3. os' \in HaxObjects /\ os'.named = os.named /\ os'.inits = os.inits
  BY <1>1, <1>2 DEF HaxObjects
<1>4. \A s \in Servers \ {o} : os'.empty[s] = os.empty[s] /\ os'.full[s] = os.full[s]
  BY <1>1, <1>2 DEF HaxObjects
<1>5. HaxTurn(o) /\ os.inits[o] < 2 => os'.empty[o] = 0 /\ os'.full[o] = 0 /\ os.inits[o] # 0
  BY <1>1, <1>2 DEF HaxObjects, HaxTurn
<1>6. \A q \in Hax!Actors : (Hax!Segment(q))' = Hax!Segment(q)
  BY <1>1 DEF Hax!Segment
<1>7. \A q \in Hax!Actors \ {p} : (Hax!Holds(q))' => Hax!Holds(q)
  BY DEF HaxGoes, Hax!Holds, HaxInv, HaxTyped
<1>8. HaxTurn(o) /\ os.inits[o] < 2 => \A q \in Hax!Actors : Hax!Holds(q) => Hax!Segment(q) # o
  BY <1>1, <1>2 DEF HaxObjects, HaxTurn
<1>9. \A s \in Servers \ {o} : HaxTurn(s) => HaxTurn(s)'
  BY <1>3, <1>4, <1>6, <1>7 DEF HaxTurn
<1>10. HaxTurn(o) /\ os.inits[o] < 2 => HaxTurn(o)'
  BY <1>3, <1>5, <1>6, <1>7, <1>8 DEF HaxTurn
<1> QED BY <1>3, <1>9, <1>10 DEF HaxTurns, HaxInv

\* sem_post gives the turn that the process had to one of the semaphores.
LEMMA HaxTurnsPost ==
  ASSUME HaxInv, NEW p \in Hax!Actors, NEW to, HaxGoes(p, to), NEW o \in Servers, Hax!Segment(p) = o, Hax!Holds(p),
         to \notin {"enter", "print", "post"}, NEW sem \in {"empty", "full"}, Hax!sem_post(p, sem)
  PROVE  HaxTurns' /\ os' \in HaxObjects /\ os'.named = os.named
<1>1. /\ os' = [os EXCEPT ![sem] = [os[sem] EXCEPT ![o] = os[sem][o] + 1]] /\ local' = local
  BY DEF Hax!sem_post
<1>2. os \in HaxObjects /\ o \in Servers /\ local \in [segment : [Hax!Actors -> Servers \cup {"none"}]]
  BY DEF HaxInv, HaxTyped
<1>3. os' \in HaxObjects /\ os'.named = os.named /\ os'.inits = os.inits
  BY <1>1, <1>2 DEF HaxObjects
<1>4. \A s \in Servers \ {o} : os'.empty[s] = os.empty[s] /\ os'.full[s] = os.full[s]
  BY <1>1, <1>2 DEF HaxObjects
<1>5. HaxTurn(o) => os'.empty[o] + os'.full[o] = 1 /\ os.inits[o] # 0
  BY <1>1, <1>2 DEF HaxObjects, HaxTurn
<1>6. \A q \in Hax!Actors : (Hax!Segment(q))' = Hax!Segment(q)
  BY <1>1 DEF Hax!Segment
<1>7. \A q \in Hax!Actors : (Hax!Holds(q))' => Hax!Holds(q) /\ q # p
  BY DEF HaxGoes, Hax!Holds, HaxInv, HaxTyped
<1>8. HaxTurn(o) => \A q \in Hax!Actors : (Hax!Holds(q))' => Hax!Segment(q) # o
  BY <1>7 DEF HaxTurn
<1>9. \A s \in Servers \ {o} : HaxTurn(s) => HaxTurn(s)'
  BY <1>3, <1>4, <1>6, <1>7 DEF HaxTurn
<1>10. HaxTurn(o) => HaxTurn(o)'
  BY <1>3, <1>5, <1>6, <1>8 DEF HaxTurn
<1> QED BY <1>3, <1>9, <1>10 DEF HaxTurns, HaxInv

\* The first initialisation makes the turn; the second sem_init of a server may lose it.
LEMMA HaxTurnsInit ==
  ASSUME HaxInv, NEW p \in Hax!Actors, NEW to, HaxGoes(p, to), to \notin {"enter", "print", "post"}, local' = local,
         NEW o \in Servers, NEW lost \in BOOLEAN,
         \/ os' = [os EXCEPT !.empty[o] = 1, !.inits[o] = @ + 1]
         \/ os' = [os EXCEPT !.full[o] = 0, !.wiped[o] = lost]
  PROVE  HaxTurns' /\ os' \in HaxObjects /\ os'.named = os.named
<1>1. os \in HaxObjects
  BY DEF HaxInv, HaxTyped
<1>2. os' \in HaxObjects /\ os'.named = os.named
  <2>1. CASE os' = [os EXCEPT !.empty[o] = 1, !.inits[o] = @ + 1]
    <3>1. [os.empty EXCEPT ![o] = 1] \in [Servers -> Nat]
      BY <1>1 DEF HaxObjects
    <3>2. [os.inits EXCEPT ![o] = @ + 1] \in [Servers -> Nat]
      BY <1>1 DEF HaxObjects
    <3> QED BY <1>1, <2>1, <3>1, <3>2 DEF HaxObjects
  <2>2. CASE os' = [os EXCEPT !.full[o] = 0, !.wiped[o] = lost]
    BY <1>1, <2>2 DEF HaxObjects
  <2> QED BY <2>1, <2>2
<1>3. \A s \in Servers \ {o} : os'.empty[s] = os.empty[s] /\ os'.full[s] = os.full[s] /\ os'.inits[s] = os.inits[s]
  <2>1. CASE os' = [os EXCEPT !.empty[o] = 1, !.inits[o] = @ + 1]
    <3>1. /\ os'.empty = [os.empty EXCEPT ![o] = 1] /\ os'.full = os.full
          /\ os'.inits = [os.inits EXCEPT ![o] = os.inits[o] + 1]
      BY <1>1, <2>1 DEF HaxObjects
    <3>2. os.empty \in [Servers -> Nat] /\ os.inits \in [Servers -> Nat] BY <1>1 DEF HaxObjects
    <3> QED BY <3>1, <3>2
  <2>2. CASE os' = [os EXCEPT !.full[o] = 0, !.wiped[o] = lost]
    <3>1. os'.empty = os.empty /\ os'.full = [os.full EXCEPT ![o] = 0] /\ os'.inits = os.inits
      BY <1>1, <2>2 DEF HaxObjects
    <3>2. os.full \in [Servers -> Nat] BY <1>1 DEF HaxObjects
    <3> QED BY <3>1, <3>2
  <2> QED BY <2>1, <2>2
<1>4. \A q \in Hax!Actors : (Hax!Segment(q))' = Hax!Segment(q)
  BY DEF Hax!Segment
<1>5. \A q \in Hax!Actors : (Hax!Holds(q))' => Hax!Holds(q)
  BY DEF HaxGoes, Hax!Holds, HaxInv, HaxTyped
<1>6. \A s \in Servers \ {o} : HaxTurn(s) => HaxTurn(s)'
  BY <1>3, <1>4, <1>5 DEF HaxTurn
<1>7. os'.inits[o] < 2 => HaxTurn(o)'
  <2>1. CASE os' = [os EXCEPT !.empty[o] = 1, !.inits[o] = @ + 1]
    <3>1. os'.empty[o] = 1 /\ os'.full[o] = os.full[o] /\ os'.inits[o] = os.inits[o] + 1 /\ os.inits[o] \in Nat
      BY <1>1, <2>1 DEF HaxObjects
    <3>2. os'.inits[o] < 2 => os.inits[o] = 0 /\ HaxTurn(o)
      BY <3>1 DEF HaxInv, HaxTurns
    <3> QED BY <1>4, <1>5, <3>1, <3>2 DEF HaxTurn
  <2>2. CASE os' = [os EXCEPT !.full[o] = 0, !.wiped[o] = lost]
    <3>1. /\ os'.empty[o] = os.empty[o] /\ os'.full[o] = 0 /\ os'.inits[o] = os.inits[o]
          /\ os.empty[o] \in Nat /\ os.full[o] \in Nat
      BY <1>1, <2>2 DEF HaxObjects
    <3>2. os'.inits[o] < 2 => HaxTurn(o)
      BY <3>1 DEF HaxInv, HaxTurns
    <3> QED BY <1>4, <1>5, <3>1, <3>2 DEF HaxTurn
  <2> QED BY <2>1, <2>2
<1> QED BY <1>2, <1>3, <1>6, <1>7 DEF HaxTurns, HaxInv

\* Every step of a server, its removal of the name on a signal included.
LEMMA HaxServerStep ==
  ASSUME HaxInv, NEW s \in Servers, Hax!server(s) \/ Hax!sigdelete(s)
  PROVE  HaxInv'
<1> s \in Hax!Actors /\ s \notin Clients /\ HaxInv /\ os \in HaxObjects /\ HaxTyped
  BY MCProgramsAssumption DEF Hax!Actors, HaxInv, HaxTyped
<1> USE DEF HaxServerPlaces
<1>1. CASE Hax!Create(s)
  <2>1. /\ at[s] = "start" /\ HaxGoes(s, "ftruncate") /\ os'.named \in Servers
        /\ os' = (IF os.named = "none" THEN [os EXCEPT !.named = s] ELSE os) /\ Hax!Map(s, os'.named)
    BY <1>1 DEF Hax!Create, Hax!Go, HaxGoes, HaxObjects
  <2>2. HaxTurns' /\ os' \in HaxObjects
    BY <2>1, HaxTurnsMap DEF HaxObjects
  <2>3. HaxTyped'
    BY <2>1, <2>2 DEF HaxTyped, HaxGoes, Hax!Segment, Hax!Actors, Hax!Map
  <2>4. HaxNamed' /\ Hax!AbortsExplained'
    BY <2>1, MCProgramsAssumption DEF HaxInv, HaxTyped, HaxNamed, Hax!AbortsExplained, HaxGoes, Hax!Actors
  <2> QED BY <2>2, <2>3, <2>4 DEF HaxInv
<1>2. CASE Hax!delete(s)
  <2>1. /\ at[s] = "delete" /\ HaxGoes(s, IF os.named = "none" THEN "aborted" ELSE "ended")
        /\ os' = [os EXCEPT !.named = "none"] /\ local' = local
    BY <1>2 DEF Hax!delete, Hax!Go, HaxGoes
  <2>2. HaxTurns' /\ os' \in HaxObjects
    BY <2>1, HaxTurnsAside DEF HaxObjects
  <2>3. HaxTyped'
    BY <2>1, <2>2, HaxTypedGoes
  <2>4. (os.named = "none" => \E t \in Servers \ {s} : at[t] = "ended") /\ at[s] # "ended"
    BY <2>1 DEF HaxInv, HaxNamed
  <2>5. \A t \in Servers \ {s} : at'[t] = at[t]
    BY <2>1 DEF HaxGoes, HaxTyped, Hax!Actors
  <2>6. at'[s] = IF os.named = "none" THEN "aborted" ELSE "ended"
    BY <2>1 DEF HaxGoes, HaxTyped
  <2>7. HaxNamed'
    BY <2>4, <2>5, <2>6 DEF HaxNamed
  <2>8. Hax!AbortsExplained'
    BY <2>4, <2>5, <2>6 DEF HaxInv, Hax!AbortsExplained
  <2> QED BY <2>2, <2>3, <2>7, <2>8 DEF HaxInv
<1>3. CASE Hax!ftruncate(s) \/ Hax!sigdelete(s) \/ (Hax!Go(s, "arm", "wait") /\ Hax!Steps)
           \/ (Hax!Go(s, "print", "post") /\ Hax!Steps)
  <2>1. PICK to \in {"init empty", "delete", "wait", "post"} :
          /\ at[s] \in {"ftruncate", "arm", "wait", "print", "post"} /\ HaxGoes(s, to)
          /\ (to = "post" => at[s] = "print") /\ local' = local
          /\ os' = os \/ os' = [os EXCEPT !.sized[Hax!Segment(s)] = TRUE]
    BY <1>3 DEF Hax!ftruncate, Hax!sigdelete, Hax!Steps, Hax!Go, HaxGoes
  <2>2. /\ os' \in HaxObjects /\ os'.empty = os.empty /\ os'.full = os.full /\ os'.inits = os.inits
        /\ os'.named = os.named
    <3>1. [os.sized EXCEPT ![Hax!Segment(s)] = TRUE] \in [Servers -> BOOLEAN]
      BY DEF HaxObjects
    <3> QED BY <2>1, <3>1 DEF HaxObjects
  <2>3. HaxTyped' BY <2>1, <2>2, HaxTypedGoes
  <2>4. HaxTurns' BY <2>1, <2>2, HaxTurnsAside DEF Hax!Holds
  <2>5. HaxNamed' /\ Hax!AbortsExplained' BY <2>1, <2>2, HaxNamesStay
  <2> QED BY <2>3, <2>4, <2>5 DEF HaxInv
<1>4. CASE Hax!sem_init(s)
  <2>1. PICK to \in {"init full", "arm"} :
          /\ at[s] \in {"init empty", "init full"} /\ HaxGoes(s, to) /\ local' = local
          /\ \/ os' = [os EXCEPT !.empty[Hax!Segment(s)] = 1, !.inits[Hax!Segment(s)] = @ + 1]
             \/ os' = [os EXCEPT !.full[Hax!Segment(s)] = 0,
                                 !.wiped[Hax!Segment(s)] = @ \/ os.full[Hax!Segment(s)] > 0]
    BY <1>4 DEF Hax!sem_init, Hax!Go, HaxGoes
  <2>2. Hax!Segment(s) \in Servers BY <2>1 DEF HaxTyped
  <2>a. PICK lost \in BOOLEAN : lost = (os.wiped[Hax!Segment(s)] \/ os.full[Hax!Segment(s)] > 0)
    OBVIOUS
  <2>b. \/ os' = [os EXCEPT !.empty[Hax!Segment(s)] = 1, !.inits[Hax!Segment(s)] = @ + 1]
        \/ os' = [os EXCEPT !.full[Hax!Segment(s)] = 0, !.wiped[Hax!Segment(s)] = lost]
    BY <2>1, <2>a
  <2>3. HaxTurns' /\ os' \in HaxObjects /\ os'.named = os.named
    BY <2>1, <2>2, <2>b, HaxTurnsInit
  <2>4. HaxTyped' BY <2>1, <2>3, HaxTypedGoes
  <2>5. HaxNamed' /\ Hax!AbortsExplained' BY <2>1, <2>3, HaxNamesStay
  <2> QED BY <2>3, <2>4, <2>5 DEF HaxInv
<1>5. CASE Hax!Go(s, "wait", "print") /\ Hax!sem_wait(s, "full")
  <2>1. at[s] = "wait" /\ HaxGoes(s, "print") /\ local' = local
    BY <1>5 DEF Hax!sem_wait, Hax!Go, HaxGoes
  <2>2. Hax!Segment(s) \in Servers BY <2>1 DEF HaxTyped
  <2>3. HaxTurns' /\ os' \in HaxObjects /\ os'.named = os.named BY <1>5, <2>1, <2>2, HaxTurnsWait
  <2>4. HaxTyped' BY <2>1, <2>3, HaxTypedGoes
  <2>5. HaxNamed' /\ Hax!AbortsExplained' BY <2>1, <2>3, HaxNamesStay
  <2> QED BY <2>3, <2>4, <2>5 DEF HaxInv
<1>6. CASE Hax!Go(s, "post", "wait") /\ Hax!sem_post(s, "empty")
  <2>1. at[s] = "post" /\ HaxGoes(s, "wait") /\ local' = local /\ Hax!Holds(s)
    BY <1>6 DEF Hax!sem_post, Hax!Go, HaxGoes, Hax!Holds
  <2>2. Hax!Segment(s) \in Servers BY <2>1 DEF HaxTyped
  <2>3. HaxTurns' /\ os' \in HaxObjects /\ os'.named = os.named BY <1>6, <2>1, <2>2, HaxTurnsPost
  <2>4. HaxTyped' BY <2>1, <2>3, HaxTypedGoes
  <2>5. HaxNamed' /\ Hax!AbortsExplained' BY <2>1, <2>3, HaxNamesStay
  <2> QED BY <2>3, <2>4, <2>5 DEF HaxInv
<1> QED BY <1>1, <1>2, <1>3, <1>4, <1>5, <1>6 DEF Hax!server, Hax!loop

\* Every step of a client.
LEMMA HaxClientStep ==
  ASSUME HaxInv, NEW c \in Clients, Hax!client(c)
  PROVE  HaxInv'
<1> c \in Hax!Actors /\ c \notin Servers /\ HaxInv /\ os \in HaxObjects /\ HaxTyped
  BY MCProgramsAssumption DEF Hax!Actors, HaxInv, HaxTyped
<1> USE DEF HaxClientPlaces
<1>1. CASE Hax!Find(c)
  <2>1. /\ at[c] = "start" /\ HaxGoes(c, IF os.named = "none" THEN "aborted" ELSE "menu")
        /\ os' = os /\ Hax!Map(c, os.named)
    BY <1>1 DEF Hax!Find, Hax!Go, HaxGoes
  <2>2. HaxTurns'
    BY <2>1, HaxTurnsMap
  <2>3. HaxTyped'
    BY <2>1, <2>2 DEF HaxTyped, HaxGoes, Hax!Segment, Hax!Actors, Hax!Map, HaxObjects
  <2>4. HaxNamed' /\ Hax!AbortsExplained' BY <2>1, HaxNamesStay
  <2> QED BY <2>2, <2>3, <2>4 DEF HaxInv
<1>2. CASE Hax!Choose(c) \/ (Hax!Go(c, "wait", "killed") /\ ~os.sized[Hax!Segment(c)] /\ Hax!Steps)
           \/ (Hax!Go(c, "enter", "post") /\ Hax!Steps)
  <2>1. PICK to \in {"wait", "ended", "killed", "post"} :
          /\ at[c] \in {"menu", "wait", "enter"} /\ HaxGoes(c, to)
          /\ (to = "post" => at[c] = "enter") /\ local' = local
          /\ os' = os \/ os' = [os EXCEPT !.sends = @ + 1]
    BY <1>2 DEF Hax!Choose, Hax!Steps, Hax!Go, HaxGoes
  <2>2. /\ os' \in HaxObjects /\ os'.empty = os.empty /\ os'.full = os.full /\ os'.inits = os.inits
        /\ os'.named = os.named
    BY <2>1 DEF HaxObjects
  <2>3. HaxTyped' BY <2>1, <2>2, HaxTypedGoes
  <2>4. HaxTurns' BY <2>1, <2>2, HaxTurnsAside DEF Hax!Holds
  <2>5. HaxNamed' /\ Hax!AbortsExplained' BY <2>1, <2>2, HaxNamesStay
  <2> QED BY <2>3, <2>4, <2>5 DEF HaxInv
<1>3. CASE Hax!Go(c, "wait", "enter") /\ Hax!sem_wait(c, "empty")
  <2>1. at[c] = "wait" /\ HaxGoes(c, "enter") /\ local' = local
    BY <1>3 DEF Hax!sem_wait, Hax!Go, HaxGoes
  <2>2. Hax!Segment(c) \in Servers BY <2>1 DEF HaxTyped
  <2>3. HaxTurns' /\ os' \in HaxObjects /\ os'.named = os.named BY <1>3, <2>1, <2>2, HaxTurnsWait
  <2>4. HaxTyped' BY <2>1, <2>3, HaxTypedGoes
  <2>5. HaxNamed' /\ Hax!AbortsExplained' BY <2>1, <2>3, HaxNamesStay
  <2> QED BY <2>3, <2>4, <2>5 DEF HaxInv
<1>4. CASE Hax!Go(c, "post", "menu") /\ Hax!sem_post(c, "full")
  <2>1. at[c] = "post" /\ HaxGoes(c, "menu") /\ local' = local /\ Hax!Holds(c)
    BY <1>4 DEF Hax!sem_post, Hax!Go, HaxGoes, Hax!Holds
  <2>2. Hax!Segment(c) \in Servers BY <2>1 DEF HaxTyped
  <2>3. HaxTurns' /\ os' \in HaxObjects /\ os'.named = os.named BY <1>4, <2>1, <2>2, HaxTurnsPost
  <2>4. HaxTyped' BY <2>1, <2>3, HaxTypedGoes
  <2>5. HaxNamed' /\ Hax!AbortsExplained' BY <2>1, <2>3, HaxNamesStay
  <2> QED BY <2>3, <2>4, <2>5 DEF HaxInv
<1> QED BY <1>1, <1>2, <1>3, <1>4 DEF Hax!client, Hax!clientwrite

\* Every step of shared_posix_hax.c, and the end of a process by a signal.
LEMMA HaxStep == HaxInv /\ [Hax!Next]_vars => HaxInv'
<1> SUFFICES ASSUME HaxInv, [Hax!Next]_vars PROVE HaxInv'
  OBVIOUS
<1>1. ASSUME NEW p \in Hax!Actors, Hax!Kill(p) PROVE HaxInv'
  <2>1. HaxGoes(p, "killed") /\ at[p] \notin {"start", "aborted", "killed", "ended"} /\ os' = os /\ local' = local
    BY <1>1 DEF Hax!Kill, Hax!Up, Hax!Over, Hax!Go, Hax!Steps, HaxGoes, HaxServerPlaces, HaxClientPlaces
  <2>2. HaxTyped' BY <2>1, HaxTypedGoes DEF HaxInv, HaxTyped
  <2>3. HaxTurns' BY <2>1, HaxTurnsAside
  <2>4. HaxNamed' /\ Hax!AbortsExplained' BY <2>1, HaxNamesStay
  <2> QED BY <2>2, <2>3, <2>4 DEF HaxInv
<1>2. CASE UNCHANGED vars
  BY <1>2 DEF vars, HaxInv, HaxTyped, HaxTurns, HaxTurn, HaxNamed, Hax!AbortsExplained, Hax!Segment, Hax!Holds
<1> QED BY <1>1, <1>2, HaxServerStep, HaxClientStep DEF Hax!Next

\* Hence one process at a time has a segment whose semaphores were initialised once.
LEMMA HaxOwnedOnce == HaxInv => Hax!Exclusive
BY DEF HaxInv, HaxTyped, HaxTurns, HaxTurn, Hax!Exclusive, Hax!Holds

----------------------------------------------------------------------------
(* userver.c                                                               *)

\* Where a server or a client may be, and where a server has bound its socket.
SocketPlaces == {"start", "bind", "listen", "accept", "copy", "read", "write", "ended", "aborted", "killed"}
Bound == {"listen", "accept", "copy", "killed"}

\* Where there is a socket, a server has bound it.
SocketsInv ==
  /\ at \in [Sockets!Actors -> SocketPlaces]
  /\ "path" \in DOMAIN os /\ os.path \in Servers \cup {"none"}
  /\ os.path # "none" => at[os.path] \in Bound
  /\ Sockets!AbortsExplained

\* At first there is no socket.
LEMMA SocketsStart == Sockets!Init => SocketsInv
<1> SUFFICES ASSUME Sockets!Init PROVE SocketsInv
  OBVIOUS
<1>1. at = [p \in Sockets!Actors |-> "start"] /\ "path" \in DOMAIN os /\ os.path = "none"
  BY DEF Sockets!Init
<1> QED BY <1>1 DEF SocketsInv, SocketPlaces, Sockets!AbortsExplained, Sockets!Actors

\* A process goes on; a server that has bound its socket does not fail bind again.
SocketsGo(p, from, to) == at[p] = from /\ at' = [at EXCEPT ![p] = to] /\ to \in SocketPlaces

\* A step that leaves the socket where it is keeps the invariant.
LEMMA SocketsGoes ==
  ASSUME SocketsInv, NEW p \in Sockets!Actors, NEW from, NEW to, SocketsGo(p, from, to),
         p \in Servers => to # "aborted", p \in Servers /\ from \in Bound => to \in Bound,
         "path" \in DOMAIN os', os'.path = os.path
  PROVE  SocketsInv'
<1>1. \A q \in Servers : at[q] \in Bound => at'[q] \in Bound
  BY DEF SocketsGo, SocketsInv, Sockets!Actors
<1>2. \A q \in Servers : at'[q] = "aborted" => at[q] = "aborted"
  BY DEF SocketsGo, SocketsInv, Sockets!Actors
<1>3. at' \in [Sockets!Actors -> SocketPlaces]
  BY DEF SocketsGo, SocketsInv
<1>4. Sockets!AbortsExplained'
  BY <1>1, <1>2 DEF Sockets!AbortsExplained, SocketsInv, Bound
<1> QED BY <1>1, <1>3, <1>4 DEF SocketsInv

\* Every step of a server; bind fails only where the name is there again after unlink.
LEMMA SocketsServer ==
  ASSUME SocketsInv, NEW s \in Servers, Sockets!server(s)
  PROVE  SocketsInv'
<1> s \in Sockets!Actors BY DEF Sockets!Actors
<1> USE DEF SocketPlaces
<1>1. CASE Sockets!unlink(s)
  <2>1. SocketsGo(s, "start", "bind") /\ os' = [os EXCEPT !.path = "none"]
    BY <1>1 DEF Sockets!unlink, Sockets!Go, SocketsGo
  <2>2. /\ at' \in [Sockets!Actors -> SocketPlaces] /\ "path" \in DOMAIN os' /\ os'.path = "none"
        /\ \A q \in Servers \ {s} : at'[q] = at[q]
        /\ at'[s] = "bind" /\ at[s] = "start"
    BY <2>1 DEF SocketsGo, SocketsInv, Sockets!Actors
  <2>3. Sockets!AbortsExplained'
    BY <2>2 DEF Sockets!AbortsExplained, SocketsInv
  <2> QED BY <2>2, <2>3 DEF SocketsInv
<1>2. CASE Sockets!bind(s) /\ os.path = "none"
  <2>1. SocketsGo(s, "bind", "listen") /\ os' = [os EXCEPT !.path = s]
    BY <1>2 DEF Sockets!bind, Sockets!Go, SocketsGo
  <2>2. /\ at' \in [Sockets!Actors -> SocketPlaces] /\ "path" \in DOMAIN os' /\ os'.path = s
        /\ \A q \in Servers \ {s} : at'[q] = at[q]
        /\ at'[s] = "listen" /\ at[s] = "bind"
    BY <2>1 DEF SocketsGo, SocketsInv, Sockets!Actors
  <2>3. Sockets!AbortsExplained'
    BY <2>2 DEF Sockets!AbortsExplained, SocketsInv
  <2> QED BY <2>2, <2>3 DEF SocketsInv, Bound
<1>3. CASE Sockets!bind(s) /\ os.path # "none"
  <2>1. SocketsGo(s, "bind", "aborted") /\ os' = os
    BY <1>3 DEF Sockets!bind, Sockets!Go, Sockets!Steps, SocketsGo
  <2>2. at[os.path] \in Bound /\ os.path \in Servers \ {s}
    BY <1>3, <2>1 DEF SocketsInv, Bound, SocketsGo
  <2>3. /\ at' \in [Sockets!Actors -> SocketPlaces]
        /\ \A q \in Servers \ {s} : at'[q] = at[q]
        /\ at'[s] = "aborted" /\ at[s] = "bind"
    BY <2>1 DEF SocketsGo, SocketsInv, Sockets!Actors
  <2>4. Sockets!AbortsExplained'
    BY <2>2, <2>3 DEF Sockets!AbortsExplained, SocketsInv, Bound
  <2> QED BY <2>1, <2>2, <2>3, <2>4 DEF SocketsInv
<1>4. CASE Sockets!listen(s) \/ Sockets!accept(s) \/ Sockets!copydata(s)
  <2>1. /\ "path" \in DOMAIN os' /\ os'.path = os.path
        /\ \/ at' = at
           \/ \E from, to \in Bound : SocketsGo(s, from, to)
    BY <1>4 DEF Sockets!listen, Sockets!accept, Sockets!copydata, Sockets!Go, Sockets!Steps, SocketsGo, Bound,
                SocketsInv
  <2>2. CASE at' = at
    BY <2>1, <2>2 DEF SocketsInv, Sockets!AbortsExplained
  <2>3. CASE \E from, to \in Bound : SocketsGo(s, from, to)
    BY <2>1, <2>3, SocketsGoes DEF Bound
  <2> QED BY <2>1, <2>2, <2>3
<1> QED BY <1>1, <1>2, <1>3, <1>4 DEF Sockets!server

\* Every step of a client, which binds nothing.
LEMMA SocketsClient ==
  ASSUME SocketsInv, NEW c \in Clients, Sockets!client(c)
  PROVE  SocketsInv'
<1> c \in Sockets!Actors /\ c \notin Servers BY MCProgramsAssumption DEF Sockets!Actors
<1>1. /\ "path" \in DOMAIN os' /\ os'.path = os.path
      /\ \E from, to : SocketsGo(c, from, to)
  BY DEF Sockets!client, Sockets!connect, Sockets!Type, Sockets!write, Sockets!Go, Sockets!Steps, SocketsGo,
         SocketPlaces,
         SocketsInv
<1> QED BY <1>1, SocketsGoes

\* Every step of userver.c, and the end of a process by a signal.
LEMMA SocketsStep == SocketsInv /\ [Sockets!Next]_vars => SocketsInv'
<1> SUFFICES ASSUME SocketsInv, [Sockets!Next]_vars PROVE SocketsInv'
  OBVIOUS
<1>1. ASSUME NEW p \in Sockets!Actors, Sockets!Kill(p) PROVE SocketsInv'
  <2>1. SocketsGo(p, at[p], "killed") /\ os' = os
    BY <1>1 DEF Sockets!Kill, Sockets!Go, Sockets!Steps, SocketsGo, SocketPlaces
  <2> QED BY <2>1, SocketsGoes DEF Bound, SocketsInv
<1>2. CASE UNCHANGED vars
  BY <1>2 DEF vars, SocketsInv, Sockets!AbortsExplained
<1> QED BY <1>1, <1>2, SocketsServer, SocketsClient DEF Sockets!Next

ServerPlaces == {"start", "bind", "listen", "accept", "copy", "aborted", "killed"}
ClientPlaces == {"start", "read", "write", "ended", "aborted", "killed"}
SocketKernels == [path : Servers \cup {"none"}, backlog : [Servers -> Seq(Clients)], taken : [Clients -> Nat]]
SocketLocals == [conn : [Sockets!Actors -> Sockets!Actors \cup {"none"}], typed : [Clients -> Nat]]

SocketTypes ==
  /\ at \in [Sockets!Actors -> SocketPlaces]
  /\ \A s \in Servers : at[s] \in ServerPlaces
  /\ \A c \in Clients : at[c] \in ClientPlaces
  /\ os \in SocketKernels /\ local \in SocketLocals
  /\ sent \in [Clients -> Seq(Clients \X Nat)] /\ got \in [Servers -> Seq(Clients \X Nat)]

\* What a client types it writes, and it is connected when it does.
ClientTypes(c) ==
  /\ \A n \in 1 .. Len(sent[c]) : sent[c][n] = <<c, n>>
  /\ at[c] \in {"start", "read"} => local.typed[c] = Len(sent[c])
  /\ at[c] = "write" => local.typed[c] = Len(sent[c]) + 1
  /\ at[c] = "start" => local.conn[c] = "none"
  /\ at[c] \in {"read", "write"} => local.conn[c] \in Servers
  /\ local.conn[c] = "none" => Len(sent[c]) = 0
  /\ os.taken[c] <= Len(sent[c])

\* A connection waits once, with the server the client has found, or is served by it.
Connected(s) ==
  /\ \A i \in 1 .. Len(os.backlog[s]) :
       /\ local.conn[os.backlog[s][i]] = s /\ local.conn[s] # os.backlog[s][i] /\ os.taken[os.backlog[s][i]] = 0
       /\ \A j \in 1 .. Len(os.backlog[s]) : os.backlog[s][j] = os.backlog[s][i] => i = j
  /\ local.conn[s] \in Clients => local.conn[local.conn[s]] = s
  /\ at[s] = "copy" => local.conn[s] \in Clients
  /\ at[s] \notin {"copy", "killed"} => local.conn[s] = "none"

\* Of what has been printed, up to the i-th: its connection was printed from its start, and
\* all of it where another follows, or the connection is no more served.
Printed(s, i) ==
  LET c == got[s][i][1]
      n == got[s][i][2]
  IN  /\ local.conn[c] = s /\ n \in 1 .. os.taken[c] /\ n <= i
      /\ \A j \in 1 .. i : IF i - n < j THEN got[s][j] = <<c, j - i + n>> ELSE got[s][j][1] # c
      /\ IF i < Len(got[s])
         THEN got[s][i + 1][1] # c => at[c] \in Sockets!Over /\ Len(sent[c]) = n
         ELSE n = os.taken[c] /\ (local.conn[s] = c \/ (at[c] \in Sockets!Over /\ Len(sent[c]) = n))

\* What has been printed of the connection that is served is what was printed last.
Serving(s) ==
  local.conn[s] \in Clients /\ os.taken[local.conn[s]] > 0 =>
    got[s] # <<>> /\ got[s][Len(got[s])][1] = local.conn[s]

ServerOrder(s) == Connected(s) /\ Serving(s) /\ \A i \in 1 .. Len(got[s]) : Printed(s, i)

SocketOrder ==
  SocketTypes /\ (\A c \in Clients : ClientTypes(c)) /\ (\A s \in Servers : ServerOrder(s))

\* A server is no client, and both are processes.
LEMMA SocketProcesses ==
  /\ Servers \subseteq Sockets!Actors /\ Clients \subseteq Sockets!Actors
  /\ Servers \cap Clients = {} /\ "none" \notin Servers /\ "none" \notin Clients
BY MCProgramsAssumption DEF Sockets!Actors

\* At first nothing is connected, sent or printed.
LEMMA SocketOrderStarts == Sockets!Init => SocketOrder
<1> SUFFICES ASSUME Sockets!Init PROVE SocketOrder
  OBVIOUS
<1>1. /\ at = [p \in Sockets!Actors |-> "start"]
      /\ os = [path |-> "none", backlog |-> [s \in Servers |-> <<>>], taken |-> [c \in Clients |-> 0]]
      /\ local = [conn |-> [p \in Sockets!Actors |-> "none"], typed |-> [c \in Clients |-> 0]]
      /\ sent = [c \in Clients |-> <<>>] /\ got = [s \in Servers |-> <<>>]
  BY DEF Sockets!Init
<1>2. SocketTypes
  BY <1>1, SocketProcesses DEF SocketTypes, SocketPlaces, ServerPlaces, ClientPlaces, SocketKernels, SocketLocals
<1>3. ASSUME NEW c \in Clients PROVE ClientTypes(c)
  BY <1>1, SocketProcesses DEF ClientTypes
<1>4. ASSUME NEW s \in Servers PROVE ServerOrder(s)
  BY <1>1, SocketProcesses DEF ServerOrder, Connected, Serving
<1> QED BY <1>2, <1>3, <1>4 DEF SocketOrder

\* A client that is left alone knows what it knew.
LEMMA ClientStays ==
  ASSUME NEW c \in Clients, ClientTypes(c), sent'[c] = sent[c], local'.typed[c] = local.typed[c],
         local'.conn[c] = local.conn[c], os'.taken[c] = os.taken[c], at'[c] = at[c]
  PROVE  ClientTypes(c)'
BY DEF ClientTypes

\* A server that prints nothing, and whose connections stay, knows what it knew.
LEMMA ServerStays ==
  ASSUME SocketTypes, NEW s \in Servers, ServerOrder(s),
         os'.backlog[s] = os.backlog[s], local'.conn[s] = local.conn[s], got'[s] = got[s],
         \A d \in Clients : local.conn[d] = s =>
           /\ local'.conn[d] = s /\ os'.taken[d] = os.taken[d]
           /\ at[d] \in Sockets!Over => at'[d] \in Sockets!Over /\ sent'[d] = sent[d],
         at'[s] = "copy" => at[s] = "copy", at'[s] \notin {"copy", "killed"} => at[s] \notin {"copy", "killed"}
  PROVE  ServerOrder(s)'
<1>1. Connected(s)'
  <2>1. \A i \in 1 .. Len(os.backlog[s]) : os.backlog[s][i] \in Clients
    BY ElementOfSeq DEF SocketTypes, SocketKernels
  <2> QED BY <2>1 DEF ServerOrder, Connected
<1>2. Serving(s)'
  BY DEF ServerOrder, Serving, Connected
<1>3. ASSUME NEW i \in 1 .. Len(got[s]) PROVE Printed(s, i)'
  <2>1. got[s][i] \in Clients \X Nat
    BY ElementOfSeq DEF SocketTypes
  <2>2. PICK c \in Clients, n \in Nat : c = got[s][i][1] /\ n = got[s][i][2]
    BY <2>1
  <2>3. /\ local.conn[c] = s /\ n \in 1 .. os.taken[c] /\ n <= i
        /\ \A j \in 1 .. i : IF i - n < j THEN got[s][j] = <<c, j - i + n>> ELSE got[s][j][1] # c
        /\ IF i < Len(got[s])
           THEN got[s][i + 1][1] # c => at[c] \in Sockets!Over /\ Len(sent[c]) = n
           ELSE n = os.taken[c] /\ (local.conn[s] = c \/ (at[c] \in Sockets!Over /\ Len(sent[c]) = n))
    BY <2>2 DEF ServerOrder, Printed
  <2>4. /\ local'.conn[c] = s /\ os'.taken[c] = os.taken[c]
        /\ at[c] \in Sockets!Over => at'[c] \in Sockets!Over /\ sent'[c] = sent[c]
    BY <2>3
  <2>5. /\ local'.conn[c] = s /\ n \in 1 .. os'.taken[c] /\ n <= i
        /\ \A j \in 1 .. i : IF i - n < j THEN got'[s][j] = <<c, j - i + n>> ELSE got'[s][j][1] # c
        /\ IF i < Len(got'[s])
           THEN got'[s][i + 1][1] # c => at'[c] \in Sockets!Over /\ Len(sent'[c]) = n
           ELSE n = os'.taken[c] /\ (local'.conn[s] = c \/ (at'[c] \in Sockets!Over /\ Len(sent'[c]) = n))
    BY <2>3, <2>4
  <2> QED BY <2>2, <2>5 DEF Printed
<1> QED BY <1>1, <1>2, <1>3 DEF ServerOrder

\* Every step of a server but accept and copydata, and its end.
LEMMA ServerMoves ==
  ASSUME SocketOrder, NEW s \in Servers, NEW to \in ServerPlaces, at' = [at EXCEPT ![s] = to],
         NEW path \in Servers \cup {"none"}, os' = [os EXCEPT !.path = path], UNCHANGED <<local, sent, got>>,
         to # "copy", at[s] \in {"copy", "killed"} => to = "killed"
  PROVE  SocketOrder'
<1>1. s \in Sockets!Actors /\ s \notin Clients
  BY SocketProcesses
<1>2. at' \in [Sockets!Actors -> SocketPlaces] /\ at'[s] = to /\ \A p \in Sockets!Actors \ {s} : at'[p] = at[p]
  BY <1>1 DEF SocketOrder, SocketTypes, ServerPlaces, SocketPlaces
<1>3. os' \in SocketKernels /\ os'.backlog = os.backlog /\ os'.taken = os.taken
  BY DEF SocketOrder, SocketTypes, SocketKernels
<1>4. SocketTypes'
  BY <1>2, <1>3, SocketProcesses DEF SocketOrder, SocketTypes
<1>5. ASSUME NEW c \in Clients PROVE ClientTypes(c)'
  <2>1. c \in Sockets!Actors \ {s}
    BY <1>1, SocketProcesses
  <2> QED BY <1>2, <1>3, <2>1, ClientStays DEF SocketOrder
<1>6. ASSUME NEW t \in Servers PROVE ServerOrder(t)'
  <2>1. \A d \in Clients : at'[d] = at[d]
    BY <1>1, <1>2, SocketProcesses
  <2>2. (at'[t] = "copy" => at[t] = "copy") /\ (at'[t] \notin {"copy", "killed"} => at[t] \notin {"copy", "killed"})
    BY <1>2, SocketProcesses
  <2> QED BY <1>3, <2>1, <2>2, ServerStays DEF SocketOrder
<1> QED BY <1>4, <1>5, <1>6 DEF SocketOrder

\* Every step of a client that leaves the socket alone, and its end.
LEMMA ClientMoves ==
  ASSUME SocketOrder, NEW c \in Clients, NEW to \in ClientPlaces, at' = [at EXCEPT ![c] = to],
         NEW n \in Nat, local' = [local EXCEPT !.typed[c] = n], UNCHANGED <<os, sent, got>>,
         at[c] \notin Sockets!Over, to # "start",
         to = "read" => n = Len(sent[c]), to = "write" => n = Len(sent[c]) + 1,
         to \in {"read", "write"} => at[c] \in {"read", "write"}
  PROVE  SocketOrder'
<1>1. c \in Sockets!Actors /\ c \notin Servers
  BY SocketProcesses
<1>2. at' \in [Sockets!Actors -> SocketPlaces] /\ at'[c] = to /\ \A p \in Sockets!Actors \ {c} : at'[p] = at[p]
  BY <1>1 DEF SocketOrder, SocketTypes, ClientPlaces, SocketPlaces
<1>3. /\ local' \in SocketLocals /\ local'.conn = local.conn /\ local'.typed[c] = n
      /\ \A d \in Clients \ {c} : local'.typed[d] = local.typed[d]
  BY DEF SocketOrder, SocketTypes, SocketLocals
<1>4. SocketTypes'
  BY <1>2, <1>3, SocketProcesses DEF SocketOrder, SocketTypes
<1>5. ASSUME NEW d \in Clients PROVE ClientTypes(d)'
  <2>1. CASE d = c
    <3>1. /\ \A k \in 1 .. Len(sent[c]) : sent[c][k] = <<c, k>>
          /\ local.conn[c] = "none" => Len(sent[c]) = 0
          /\ os.taken[c] <= Len(sent[c]) /\ (to \in {"read", "write"} => local.conn[c] \in Servers)
      BY DEF SocketOrder, ClientTypes
    <3> QED BY <1>2, <1>3, <2>1, <3>1 DEF ClientTypes
  <2>2. CASE d # c
    <3>1. d \in Sockets!Actors \ {c}
      BY <2>2, SocketProcesses
    <3> QED BY <1>2, <1>3, <2>2, <3>1, ClientStays DEF SocketOrder
  <2> QED BY <2>1, <2>2
<1>6. ASSUME NEW t \in Servers PROVE ServerOrder(t)'
  <2>1. \A d \in Clients : at[d] \in Sockets!Over => at'[d] \in Sockets!Over
    BY <1>2, SocketProcesses
  <2>2. at'[t] = at[t]
    BY <1>1, <1>2, SocketProcesses
  <2> QED BY <1>3, <2>1, <2>2, ServerStays DEF SocketOrder
<1> QED BY <1>4, <1>5, <1>6 DEF SocketOrder

\* A client is connected: its connection waits behind those of its server.
LEMMA ClientConnects ==
  ASSUME SocketOrder, NEW c \in Clients, at[c] = "start", os.path \in Servers,
         at' = [at EXCEPT ![c] = "read"], os' = [os EXCEPT !.backlog[os.path] = Append(@, c)],
         local' = [local EXCEPT !.conn[c] = os.path], UNCHANGED <<sent, got>>
  PROVE  SocketOrder'
<1>1. c \in Sockets!Actors /\ c \notin Servers
  BY SocketProcesses
<1>2. PICK s \in Servers : s = os.path
  OBVIOUS
<1>3. s \in Sockets!Actors /\ s # c
  BY <1>1, SocketProcesses
<1>4. at' \in [Sockets!Actors -> SocketPlaces] /\ at'[c] = "read" /\ \A p \in Sockets!Actors \ {c} : at'[p] = at[p]
  BY <1>1 DEF SocketOrder, SocketTypes, ClientPlaces, SocketPlaces
<1>5. os.backlog[s] \in Seq(Clients)
  BY DEF SocketOrder, SocketTypes, SocketKernels
<1>6. PICK l \in Nat : l = Len(os.backlog[s])
  BY <1>5, LenProperties
<1>7. PICK more : more = Append(os.backlog[s], c)
  OBVIOUS
<1>8. more \in Seq(Clients) /\ Len(more) = l + 1 /\ (\A i \in 1 .. l : more[i] = os.backlog[s][i]) /\ more[l + 1] = c
  BY <1>5, <1>6, <1>7, OneMore
<1>9. /\ os' \in SocketKernels /\ os'.backlog[s] = more /\ os'.taken = os.taken
      /\ \A t \in Servers \ {s} : os'.backlog[t] = os.backlog[t]
  BY <1>2, <1>7, <1>8 DEF SocketOrder, SocketTypes, SocketKernels
<1>10. /\ local' \in SocketLocals /\ local'.typed = local.typed /\ local'.conn[c] = s
       /\ \A p \in Sockets!Actors \ {c} : local'.conn[p] = local.conn[p]
  <2>1. local' = [local EXCEPT !.conn = [local.conn EXCEPT ![c] = s]]
    BY <1>2
  <2>2. local \in SocketLocals /\ local.conn \in [Sockets!Actors -> Sockets!Actors \cup {"none"}]
    BY DEF SocketOrder, SocketTypes, SocketLocals
  <2>3. /\ [local.conn EXCEPT ![c] = s] \in [Sockets!Actors -> Sockets!Actors \cup {"none"}]
        /\ [local.conn EXCEPT ![c] = s][c] = s
        /\ \A p \in Sockets!Actors \ {c} : [local.conn EXCEPT ![c] = s][p] = local.conn[p]
    BY <1>1, <1>3, <2>2
  <2>4. local'.conn = [local.conn EXCEPT ![c] = s] /\ local'.typed = local.typed /\ local' \in SocketLocals
    BY <2>1, <2>2, <2>3 DEF SocketLocals
  <2> QED BY <2>3, <2>4
<1>11. SocketTypes'
  BY <1>4, <1>9, <1>10, SocketProcesses DEF SocketOrder, SocketTypes, ClientPlaces
<1>12. local.conn[c] = "none" /\ Len(sent[c]) = 0 /\ local.typed[c] = 0 /\ os.taken[c] = 0
  <2>1. local.conn[c] = "none" /\ Len(sent[c]) = 0 /\ local.typed[c] = Len(sent[c]) /\ os.taken[c] <= Len(sent[c])
    BY DEF SocketOrder, ClientTypes
  <2>2. os.taken[c] \in Nat
    BY DEF SocketOrder, SocketTypes, SocketKernels
  <2> QED BY <2>1, <2>2
<1>13. ASSUME NEW d \in Clients PROVE ClientTypes(d)'
  <2>1. CASE d = c
    BY <1>4, <1>9, <1>10, <1>12, <2>1 DEF ClientTypes
  <2>2. CASE d # c
    <3>1. d \in Sockets!Actors \ {c}
      BY <2>2, SocketProcesses
    <3> QED BY <1>4, <1>9, <1>10, <3>1, ClientStays DEF SocketOrder
  <2> QED BY <2>1, <2>2
<1>14. \A t \in Servers : t # "none" /\ t \in Sockets!Actors \ {c}
  BY <1>1, SocketProcesses
<1>15. \A d \in Clients : local.conn[d] \in Servers => d \in Sockets!Actors \ {c}
  BY <1>12, <1>14, SocketProcesses
<1>16. \A d \in Clients : at[d] \in Sockets!Over => at'[d] \in Sockets!Over
  BY <1>4, SocketProcesses DEF Sockets!Over
<1>17. ASSUME NEW t \in Servers, t # s PROVE ServerOrder(t)'
  BY <1>4, <1>9, <1>10, <1>14, <1>15, <1>16, <1>17, ServerStays DEF SocketOrder
<1>18. /\ at'[s] = at[s] /\ local'.conn[s] = local.conn[s] /\ local.conn[s] # c
       /\ \A d \in Clients : local.conn[d] = s => local'.conn[d] = s /\ d # c
  <2>1. Connected(s)
    BY DEF SocketOrder, ServerOrder
  <2>2. local.conn[s] # c
    BY <1>12, <1>14, <2>1 DEF Connected
  <2> QED BY <1>4, <1>10, <1>14, <1>15, <2>2
<1>19. Connected(s)'
  <2>1. /\ \A i \in 1 .. l :
             /\ local.conn[os.backlog[s][i]] = s /\ local.conn[s] # os.backlog[s][i] /\ os.taken[os.backlog[s][i]] = 0
             /\ \A j \in 1 .. l : os.backlog[s][j] = os.backlog[s][i] => i = j
        /\ local.conn[s] \in Clients => local.conn[local.conn[s]] = s
        /\ at[s] = "copy" => local.conn[s] \in Clients
        /\ at[s] \notin {"copy", "killed"} => local.conn[s] = "none"
    BY <1>6 DEF SocketOrder, ServerOrder, Connected
  <2>2. \A i \in 1 .. l : os.backlog[s][i] \in Clients
    BY <1>5, <1>6, ElementOfSeq
  <2>3. \A i \in 1 .. l + 1 :
          /\ local'.conn[more[i]] = s /\ local'.conn[s] # more[i] /\ os'.taken[more[i]] = 0
          /\ \A j \in 1 .. l + 1 : more[j] = more[i] => i = j
    <3> TAKE i \in 1 .. l + 1
    <3>1. \A k \in 1 .. l : more[k] \in Clients /\ more[k] # c /\ local'.conn[more[k]] = s
      BY <1>8, <1>18, <2>1, <2>2
    <3>2. CASE i \in 1 .. l
      <4>1. /\ more[i] = os.backlog[s][i] /\ local'.conn[more[i]] = s /\ local'.conn[s] # more[i]
            /\ os'.taken[more[i]] = 0
        BY <1>8, <1>9, <1>18, <2>1, <3>1, <3>2
      <4>2. \A j \in 1 .. l : more[j] = more[i] => i = j
        BY <1>8, <2>1, <3>2
      <4>3. more[l + 1] # more[i]
        BY <1>8, <3>1, <3>2
      <4>4. \A j \in 1 .. l + 1 : j \in 1 .. l \/ j = l + 1
        OBVIOUS
      <4> QED BY <4>1, <4>2, <4>3, <4>4
    <3>3. CASE i = l + 1
      <4>1. \A j \in 1 .. l + 1 : j \in 1 .. l \/ j = i
        BY <3>3
      <4> QED BY <1>8, <1>9, <1>10, <1>12, <1>18, <3>1, <3>3, <4>1
    <3> QED BY <3>2, <3>3
  <2> QED BY <1>8, <1>9, <1>18, <2>1, <2>3 DEF Connected
<1>20. Serving(s)' /\ \A i \in 1 .. Len(got'[s]) : Printed(s, i)'
  <2>1. Serving(s)'
    BY <1>9, <1>18 DEF SocketOrder, ServerOrder, Serving
  <2>2. ASSUME NEW i \in 1 .. Len(got[s]) PROVE Printed(s, i)'
    <3>1. got[s][i] \in Clients \X Nat
      BY ElementOfSeq DEF SocketOrder, SocketTypes
    <3>2. local.conn[got[s][i][1]] = s /\ Printed(s, i)
      BY DEF SocketOrder, ServerOrder, Printed
    <3>3. /\ local'.conn[got[s][i][1]] = s
          /\ at[got[s][i][1]] \in Sockets!Over => at'[got[s][i][1]] \in Sockets!Over
      BY <1>16, <1>18, <3>1, <3>2
    <3> QED BY <1>9, <1>18, <3>2, <3>3 DEF Printed
  <2> QED BY <2>1, <2>2
<1>21. ASSUME NEW t \in Servers PROVE ServerOrder(t)'
  BY <1>17, <1>19, <1>20 DEF ServerOrder
<1> QED BY <1>11, <1>13, <1>21 DEF SocketOrder

\* A client writes what it has typed; it is not at its end.
LEMMA ClientWrites ==
  ASSUME SocketOrder, NEW c \in Clients, at[c] = "write", at' = [at EXCEPT ![c] = "read"],
         sent' = [sent EXCEPT ![c] = Append(@, <<c, local.typed[c]>>)], UNCHANGED <<os, local, got>>
  PROVE  SocketOrder'
<1>1. c \in Sockets!Actors /\ c \notin Servers
  BY SocketProcesses
<1>2. at' \in [Sockets!Actors -> SocketPlaces] /\ at'[c] = "read" /\ \A p \in Sockets!Actors \ {c} : at'[p] = at[p]
  BY <1>1 DEF SocketOrder, SocketTypes, ClientPlaces, SocketPlaces
<1>3. sent[c] \in Seq(Clients \X Nat) /\ local.typed[c] \in Nat /\ os.taken[c] \in Nat
  BY DEF SocketOrder, SocketTypes, SocketLocals, SocketKernels
<1>4. PICK l \in Nat : l = Len(sent[c])
  BY <1>3, LenProperties
<1>5. /\ \A n \in 1 .. l : sent[c][n] = <<c, n>>
      /\ local.typed[c] = l + 1 /\ local.conn[c] \in Servers /\ local.conn[c] # "none" /\ os.taken[c] <= l
  BY <1>4, SocketProcesses DEF SocketOrder, ClientTypes
<1>6. PICK more : more = Append(sent[c], <<c, l + 1>>)
  OBVIOUS
<1>7. /\ more \in Seq(Clients \X Nat) /\ Len(more) = l + 1 /\ (\A n \in 1 .. l : more[n] = sent[c][n])
      /\ more[l + 1] = <<c, l + 1>>
  <2>1. <<c, l + 1>> \in Clients \X Nat
    OBVIOUS
  <2> QED BY <1>3, <1>4, <1>6, <2>1, OneMore
<1>8. /\ sent' \in [Clients -> Seq(Clients \X Nat)] /\ sent'[c] = more
      /\ \A d \in Clients \ {c} : sent'[d] = sent[d]
  BY <1>5, <1>6, <1>7 DEF SocketOrder, SocketTypes
<1>9. SocketTypes'
  BY <1>2, <1>8, SocketProcesses DEF SocketOrder, SocketTypes, ClientPlaces
<1>10. ASSUME NEW d \in Clients PROVE ClientTypes(d)'
  <2>1. CASE d = c
    <3>1. \A n \in 1 .. l + 1 : more[n] = <<c, n>>
      <4>1. \A n \in 1 .. l + 1 : n \in 1 .. l \/ n = l + 1
        OBVIOUS
      <4> QED BY <1>5, <1>7, <4>1
    <3>2. os'.taken[c] <= l + 1
      BY <1>3, <1>5
    <3> QED BY <1>2, <1>5, <1>7, <1>8, <2>1, <3>1, <3>2 DEF ClientTypes
  <2>2. CASE d # c
    <3>1. d \in Sockets!Actors \ {c} /\ d \in Clients \ {c}
      BY <2>2, SocketProcesses
    <3> QED BY <1>2, <1>8, <3>1, ClientStays DEF SocketOrder
  <2> QED BY <2>1, <2>2
<1>11. ASSUME NEW t \in Servers PROVE ServerOrder(t)'
  <2>1. \A d \in Clients : at[d] \in Sockets!Over => at'[d] \in Sockets!Over /\ sent'[d] = sent[d]
    <3>1. at[c] \notin Sockets!Over
      BY DEF Sockets!Over
    <3> QED BY <1>2, <1>8, <3>1, SocketProcesses
  <2>2. at'[t] = at[t]
    BY <1>1, <1>2, SocketProcesses
  <2> QED BY <2>1, <2>2, ServerStays DEF SocketOrder
<1> QED BY <1>9, <1>10, <1>11 DEF SocketOrder

\* A server accepts the first connection that waits: nothing of it has been printed.
LEMMA ServerAccepts ==
  ASSUME SocketOrder, NEW s \in Servers, at[s] = "accept", at' = [at EXCEPT ![s] = "copy"], os.backlog[s] # <<>>,
         local' = [local EXCEPT !.conn[s] = Head(os.backlog[s])], os' = [os EXCEPT !.backlog[s] = Tail(@)],
         UNCHANGED <<sent, got>>
  PROVE  SocketOrder'
<1>1. s \in Sockets!Actors /\ s \notin Clients
  BY SocketProcesses
<1>2. at' \in [Sockets!Actors -> SocketPlaces] /\ at'[s] = "copy" /\ \A p \in Sockets!Actors \ {s} : at'[p] = at[p]
  BY <1>1 DEF SocketOrder, SocketTypes, SocketPlaces
<1>3. os.backlog[s] \in Seq(Clients)
  BY DEF SocketOrder, SocketTypes, SocketKernels
<1>4. PICK l \in Nat : Len(os.backlog[s]) = l + 1
  <2>1. Len(os.backlog[s]) \in Nat \ {0} BY <1>3, EmptySeq
  <2>2. \A n \in Nat \ {0} : n - 1 \in Nat /\ n = (n - 1) + 1 OBVIOUS
  <2> QED BY <2>1, <2>2
<1>5. PICK rest, c : rest = Tail(os.backlog[s]) /\ c = Head(os.backlog[s])
  OBVIOUS
<1>6. /\ rest \in Seq(Clients) /\ Len(rest) = l /\ \A i \in 1 .. l : rest[i] = os.backlog[s][i + 1]
      /\ c \in Clients /\ c = os.backlog[s][1] /\ 1 \in 1 .. l + 1
      /\ \A i \in 1 .. l : i + 1 \in 1 .. l + 1 /\ i + 1 # 1
  BY <1>3, <1>4, <1>5, HeadTailProperties
<1>7. /\ os' \in SocketKernels /\ os'.backlog[s] = rest /\ os'.taken = os.taken
      /\ \A t \in Servers \ {s} : os'.backlog[t] = os.backlog[t]
  BY <1>5, <1>6 DEF SocketOrder, SocketTypes, SocketKernels
<1>8. c \in Sockets!Actors \ {s}
  BY <1>1, <1>6, SocketProcesses
<1>9. /\ local' \in SocketLocals /\ local'.typed = local.typed /\ local'.conn[s] = c
      /\ \A p \in Sockets!Actors \ {s} : local'.conn[p] = local.conn[p]
  BY <1>1, <1>5, <1>8 DEF SocketOrder, SocketTypes, SocketLocals
<1>10. SocketTypes'
  BY <1>2, <1>7, <1>9, SocketProcesses DEF SocketOrder, SocketTypes, ServerPlaces
<1>11. \A d \in Clients : d \in Sockets!Actors \ {s}
  BY <1>1, SocketProcesses
<1>12. ASSUME NEW d \in Clients PROVE ClientTypes(d)'
  BY <1>2, <1>7, <1>9, <1>11, ClientStays DEF SocketOrder
<1>13. ASSUME NEW t \in Servers, t # s PROVE ServerOrder(t)'
  <2>1. t \in Sockets!Actors \ {s} /\ t \in Servers \ {s}
    BY <1>13, SocketProcesses
  <2> QED BY <1>2, <1>7, <1>9, <1>11, <2>1, ServerStays DEF SocketOrder
<1>14. /\ \A i \in 1 .. l + 1 :
            /\ local.conn[os.backlog[s][i]] = s /\ os.taken[os.backlog[s][i]] = 0
            /\ \A j \in 1 .. l + 1 : os.backlog[s][j] = os.backlog[s][i] => i = j
       /\ local.conn[s] = "none" /\ local.conn[s] \notin Clients
  BY <1>4, SocketProcesses DEF SocketOrder, ServerOrder, Connected
<1>15. local'.conn[c] = s /\ os'.taken[c] = 0
  BY <1>6, <1>7, <1>8, <1>9, <1>14
<1>16. Connected(s)'
  <2>1. \A i \in 1 .. l : rest[i] \in Clients
    BY <1>6, ElementOfSeq
  <2>2. \A i \in 1 .. l :
          /\ local'.conn[rest[i]] = s /\ local'.conn[s] # rest[i] /\ os'.taken[rest[i]] = 0
          /\ \A j \in 1 .. l : rest[j] = rest[i] => i = j
    <3> TAKE i \in 1 .. l
    <3>1. rest[i] = os.backlog[s][i + 1] /\ i + 1 \in 1 .. l + 1 /\ i + 1 # 1
      BY <1>6
    <3>2. local'.conn[rest[i]] = s /\ os'.taken[rest[i]] = 0 /\ c # rest[i]
      <4>1. PICK d \in Clients : d = rest[i] /\ d = os.backlog[s][i + 1]
        BY <2>1, <3>1
      <4>2. local.conn[d] = s /\ os.taken[d] = 0
        BY <1>14, <3>1, <4>1
      <4>3. c # d
        <5>1. os.backlog[s][1] = os.backlog[s][i + 1] => i + 1 = 1
          BY <1>6, <1>14, <3>1
        <5> QED BY <1>6, <3>1, <4>1, <5>1
      <4>4. local'.conn[d] = s /\ os'.taken[d] = 0
        BY <1>7, <1>9, <1>11, <4>2
      <4> QED BY <4>1, <4>3, <4>4
    <3>3. ASSUME NEW j \in 1 .. l, rest[j] = rest[i] PROVE i = j
      <4>1. os.backlog[s][j + 1] = os.backlog[s][i + 1] /\ j + 1 \in 1 .. l + 1
        BY <1>6, <3>1, <3>3
      <4>2. i + 1 = j + 1
        BY <1>14, <3>1, <4>1
      <4> QED BY <4>2
    <3> QED BY <1>9, <3>2, <3>3
  <2>3. \A i \in 1 .. Len(os'.backlog[s]) :
          /\ local'.conn[os'.backlog[s][i]] = s /\ local'.conn[s] # os'.backlog[s][i]
          /\ os'.taken[os'.backlog[s][i]] = 0
          /\ \A j \in 1 .. Len(os'.backlog[s]) : os'.backlog[s][j] = os'.backlog[s][i] => i = j
    <3>1. os'.backlog[s] = rest /\ Len(rest) = l
      BY <1>6, <1>7
    <3> QED BY <2>2, <3>1
  <2>4. local'.conn[s] \in Clients /\ local'.conn[local'.conn[s]] = s
    BY <1>6, <1>9, <1>15
  <2> QED BY <1>2, <2>3, <2>4 DEF Connected
<1>17. Serving(s)'
  <2>1. ~(os'.taken[local'.conn[s]] > 0)
    BY <1>9, <1>15
  <2> QED BY <2>1 DEF Serving
<1>18. ASSUME NEW i \in 1 .. Len(got'[s]) PROVE Printed(s, i)'
  <2>1. got'[s][i] = got[s][i] /\ got[s][i] \in Clients \X Nat /\ i \in 1 .. Len(got[s])
    BY ElementOfSeq DEF SocketOrder, SocketTypes
  <2>2. PICK d \in Clients, n \in Nat : d = got[s][i][1] /\ n = got[s][i][2]
    BY <2>1
  <2>3. Printed(s, i) /\ local.conn[s] # d
    BY <1>14, <2>1 DEF SocketOrder, ServerOrder
  <2>4. /\ local'.conn[d] = local.conn[d] /\ os'.taken[d] = os.taken[d] /\ at'[d] = at[d] /\ sent'[d] = sent[d]
        /\ got'[s] = got[s]
    BY <1>2, <1>7, <1>9, <1>11
  <2> QED BY <2>1, <2>2, <2>3, <2>4 DEF Printed
<1>19. ASSUME NEW t \in Servers PROVE ServerOrder(t)'
  BY <1>13, <1>16, <1>17, <1>18 DEF ServerOrder
<1> QED BY <1>10, <1>12, <1>19 DEF SocketOrder

\* A connection at whose end a server has come is all printed.
LEMMA ServerCloses ==
  ASSUME SocketOrder, NEW s \in Servers, at[s] = "copy", at' = [at EXCEPT ![s] = "accept"],
         Sockets!Unread(local.conn[s]) = <<>>, at[local.conn[s]] \in Sockets!Over,
         local' = [local EXCEPT !.conn[s] = "none"], UNCHANGED <<os, sent, got>>
  PROVE  SocketOrder'
<1>1. s \in Sockets!Actors /\ s \notin Clients
  BY SocketProcesses
<1>2. at' \in [Sockets!Actors -> SocketPlaces] /\ at'[s] = "accept" /\ \A p \in Sockets!Actors \ {s} : at'[p] = at[p]
  BY <1>1 DEF SocketOrder, SocketTypes, SocketPlaces
<1>3. /\ local' \in SocketLocals /\ local'.typed = local.typed /\ local'.conn[s] = "none"
      /\ \A p \in Sockets!Actors \ {s} : local'.conn[p] = local.conn[p]
  BY <1>1 DEF SocketOrder, SocketTypes, SocketLocals
<1>4. SocketTypes'
  BY <1>2, <1>3, SocketProcesses DEF SocketOrder, SocketTypes, ServerPlaces
<1>5. \A d \in Clients : d \in Sockets!Actors \ {s}
  BY <1>1, SocketProcesses
<1>6. ASSUME NEW d \in Clients PROVE ClientTypes(d)'
  BY <1>2, <1>3, <1>5, ClientStays DEF SocketOrder
<1>7. ASSUME NEW t \in Servers, t # s PROVE ServerOrder(t)'
  <2>1. t \in Sockets!Actors \ {s}
    BY <1>7, SocketProcesses
  <2> QED BY <1>2, <1>3, <1>5, <2>1, ServerStays DEF SocketOrder
<1>8. PICK c \in Clients : c = local.conn[s]
  BY DEF SocketOrder, ServerOrder, Connected
<1>9. Len(sent[c]) = os.taken[c]
  <2>1. sent[c] \in Seq(Clients \X Nat) /\ os.taken[c] \in Nat /\ os.taken[c] <= Len(sent[c])
    BY DEF SocketOrder, SocketTypes, SocketKernels, ClientTypes
  <2>2. PICK l \in Nat : l = Len(sent[c])
    BY <2>1, LenProperties
  <2>3. PICK t \in Nat : t = os.taken[c]
    BY <2>1
  <2>4. \A i \in t + 1 .. l : sent[c][i] \in Clients \X Nat
    <3>1. \A i \in t + 1 .. l : i \in 1 .. l
      OBVIOUS
    <3> QED BY <2>1, <2>2, <3>1, ElementOfSeq
  <2>5. /\ SubSeq(sent[c], t + 1, l) \in Seq(Clients \X Nat)
        /\ Len(SubSeq(sent[c], t + 1, l)) = IF t + 1 <= l THEN l - (t + 1) + 1 ELSE 0
    BY <2>4, SubSeqProperties
  <2>6. Len(SubSeq(sent[c], t + 1, l)) = 0
    BY <1>8, <2>2, <2>3 DEF Sockets!Unread
  <2> QED BY <2>1, <2>2, <2>3, <2>5, <2>6
<1>10. Connected(s)'
  <2>1. \A i \in 1 .. Len(os.backlog[s]) : os.backlog[s][i] \in Clients
    BY ElementOfSeq DEF SocketOrder, SocketTypes, SocketKernels
  <2>2. local'.conn[s] \notin Clients
    BY <1>3, SocketProcesses
  <2> QED BY <1>2, <1>3, <1>5, <2>1, <2>2 DEF SocketOrder, ServerOrder, Connected
<1>11. Serving(s)'
  BY <1>3, SocketProcesses DEF Serving
<1>12. ASSUME NEW i \in 1 .. Len(got'[s]) PROVE Printed(s, i)'
  <2>1. got'[s][i] = got[s][i] /\ got[s][i] \in Clients \X Nat /\ i \in 1 .. Len(got[s])
    BY ElementOfSeq DEF SocketOrder, SocketTypes
  <2>2. PICK d \in Clients, n \in Nat : d = got[s][i][1] /\ n = got[s][i][2]
    BY <2>1
  <2>3. Printed(s, i)
    BY <2>1 DEF SocketOrder, ServerOrder
  <2>4. /\ local'.conn[d] = local.conn[d] /\ os'.taken[d] = os.taken[d] /\ at'[d] = at[d] /\ sent'[d] = sent[d]
        /\ got'[s] = got[s]
    BY <1>2, <1>3, <1>5
  <2>5. local.conn[s] = d => at[d] \in Sockets!Over /\ Len(sent[d]) = os.taken[d]
    BY <1>8, <1>9
  <2> QED BY <2>1, <2>2, <2>3, <2>4, <2>5 DEF Printed
<1>13. ASSUME NEW t \in Servers PROVE ServerOrder(t)'
  BY <1>7, <1>10, <1>11, <1>12 DEF ServerOrder
<1> QED BY <1>4, <1>6, <1>13 DEF SocketOrder

\* Where what is copied comes to stand.
LEMMA CopiedPlaces ==
  ASSUME NEW m \in Nat, NEW k \in Nat, k < m, NEW l \in Nat, k <= l, NEW i \in l + 1 .. l + (m - k),
         NEW n \in Nat, n = k + (i - l)
  PROVE  /\ n \in 1 .. m /\ n <= i /\ i - n = l - k /\ (i = l + (m - k) => n = m)
         /\ i < l + (m - k) => i + 1 \in l + 1 .. l + (m - k)
OBVIOUS

\* What a server copies follows what it has printed, of the same connection or after the end
\* of the one before.
LEMMA ServerCopies ==
  ASSUME SocketOrder, NEW s \in Servers, at[s] = "copy", NEW c \in Clients, c = local.conn[s],
         Sockets!Unread(c) # <<>>, got' = [got EXCEPT ![s] = @ \o Sockets!Unread(c)],
         os' = [os EXCEPT !.taken[c] = Len(sent[c])], UNCHANGED <<at, local, sent>>
  PROVE  SocketOrder'
<1>1. /\ sent[c] \in Seq(Clients \X Nat) /\ os.taken[c] \in Nat /\ os.taken[c] <= Len(sent[c])
      /\ \A n \in 1 .. Len(sent[c]) : sent[c][n] = <<c, n>>
  BY DEF SocketOrder, SocketTypes, SocketKernels, ClientTypes
<1>2. PICK m \in Nat : m = Len(sent[c])
  BY <1>1, LenProperties
<1>3. PICK k \in Nat : k = os.taken[c]
  BY <1>1
<1>4. PICK more : more = SubSeq(sent[c], k + 1, m)
  OBVIOUS
<1>5. /\ more \in Seq(Clients \X Nat) /\ Len(more) = m - k /\ k < m
      /\ \A i \in 1 .. m - k : more[i] = <<c, k + i>>
  <2>1. \A i \in k + 1 .. m : i \in 1 .. m
    OBVIOUS
  <2>2. \A i \in k + 1 .. m : sent[c][i] = <<c, i>> /\ sent[c][i] \in Clients \X Nat
    <3> SUFFICES ASSUME NEW i \in k + 1 .. m PROVE sent[c][i] = <<c, i>> /\ sent[c][i] \in Clients \X Nat
      OBVIOUS
    <3>1. i \in 1 .. m /\ i \in Nat
      BY <2>1
    <3>2. sent[c][i] = <<c, i>>
      BY <1>1, <1>2, <3>1
    <3> QED BY <3>1, <3>2
  <2>3. /\ more \in Seq(Clients \X Nat)
        /\ Len(more) = IF k + 1 <= m THEN m - (k + 1) + 1 ELSE 0
        /\ \A i \in 1 .. m - (k + 1) + 1 : more[i] = sent[c][k + 1 + i - 1]
    BY <1>4, <2>2, SubSeqProperties
  <2>4. k <= m /\ more # <<>>
    BY <1>1, <1>2, <1>3, <1>4 DEF Sockets!Unread
  <2>5. Len(more) # 0
    BY <2>3, <2>4, EmptySeq
  <2>6. k < m /\ Len(more) = m - k
    BY <2>3, <2>4, <2>5
  <2>7. \A i \in 1 .. m - k : i \in 1 .. m - (k + 1) + 1 /\ k + i \in k + 1 .. m /\ k + 1 + i - 1 = k + i
    OBVIOUS
  <2> QED BY <2>2, <2>3, <2>6, <2>7
<1>6. got[s] \in Seq(Clients \X Nat)
  BY DEF SocketOrder, SocketTypes
<1>7. PICK l \in Nat : l = Len(got[s])
  BY <1>6, LenProperties
<1>8. PICK printed : printed = got[s] \o more
  OBVIOUS
<1>9. /\ printed \in Seq(Clients \X Nat) /\ Len(printed) = l + (m - k)
      /\ \A j \in 1 .. l : printed[j] = got[s][j]
      /\ \A j \in l + 1 .. l + (m - k) : printed[j] = <<c, k + (j - l)>>
  <2>1. /\ printed \in Seq(Clients \X Nat) /\ Len(printed) = l + (m - k)
        /\ \A j \in 1 .. l + (m - k) : printed[j] = IF j <= l THEN got[s][j] ELSE more[j - l]
    <3>1. /\ got[s] \o more \in Seq(Clients \X Nat) /\ Len(got[s] \o more) = Len(got[s]) + Len(more)
          /\ \A j \in 1 .. Len(got[s]) + Len(more) :
               (got[s] \o more)[j] = IF j <= Len(got[s]) THEN got[s][j] ELSE more[j - Len(got[s])]
      BY <1>5, <1>6, ConcatProperties
    <3>2. Len(got[s]) + Len(more) = l + (m - k)
      BY <1>5, <1>7
    <3>3. /\ \A j \in 1 .. l + (m - k) : (got[s] \o more)[j] = IF j <= l THEN got[s][j] ELSE more[j - l]
          /\ Len(got[s] \o more) = l + (m - k)
      BY <1>7, <3>1, <3>2
    <3> QED BY <1>8, <3>1, <3>3
  <2>2. \A j \in 1 .. l : j \in 1 .. l + (m - k) /\ j <= l
    BY <1>5
  <2>3. \A j \in l + 1 .. l + (m - k) : j \in 1 .. l + (m - k) /\ ~(j <= l) /\ j - l \in 1 .. m - k
    BY <1>5
  <2> QED BY <1>5, <2>1, <2>2, <2>3
<1>10. /\ got' \in [Servers -> Seq(Clients \X Nat)] /\ got'[s] = printed
       /\ \A t \in Servers \ {s} : got'[t] = got[t]
  <2>1. Sockets!Unread(c) = more
    BY <1>2, <1>3, <1>4 DEF Sockets!Unread
  <2> QED BY <1>8, <1>9, <2>1 DEF SocketOrder, SocketTypes
<1>11. /\ os' \in SocketKernels /\ os'.backlog = os.backlog /\ os'.taken[c] = m
       /\ \A d \in Clients \ {c} : os'.taken[d] = os.taken[d]
  BY <1>2 DEF SocketOrder, SocketTypes, SocketKernels
<1>12. SocketTypes'
  BY <1>10, <1>11 DEF SocketOrder, SocketTypes
<1>13. ASSUME NEW d \in Clients PROVE ClientTypes(d)'
  <2>1. CASE d = c
    <3>1. os'.taken[c] <= Len(sent[c])
      BY <1>2, <1>11
    <3> QED BY <2>1, <3>1 DEF SocketOrder, ClientTypes
  <2>2. CASE d # c
    BY <1>11, <2>2, ClientStays DEF SocketOrder
  <2> QED BY <2>1, <2>2
<1>14. local.conn[c] = s
  BY DEF SocketOrder, ServerOrder, Connected
<1>15. ASSUME NEW t \in Servers, t # s PROVE ServerOrder(t)'
  <2>1. \A d \in Clients : local.conn[d] = t => d # c
    BY <1>14, <1>15
  <2> QED BY <1>10, <1>11, <1>15, <2>1, ServerStays DEF SocketOrder
<1>16. Connected(s)'
  <2>1. \A i \in 1 .. Len(os.backlog[s]) : os.backlog[s][i] \in Clients /\ os.backlog[s][i] # c
    BY ElementOfSeq DEF SocketOrder, SocketTypes, SocketKernels, ServerOrder, Connected
  <2> QED BY <1>11, <2>1 DEF SocketOrder, ServerOrder, Connected
<1>17. Serving(s)'
  <2>1. l + (m - k) \in l + 1 .. l + (m - k)
    BY <1>5
  <2>2. printed # <<>> /\ printed[Len(printed)] = <<c, k + (l + (m - k) - l)>>
    BY <1>9, <2>1, EmptySeq
  <2>3. printed[Len(printed)][1] = c
    BY <2>2
  <2> QED BY <1>10, <2>2, <2>3 DEF Serving
<1>18. ASSUME NEW i \in 1 .. l
       PROVE  /\ got[s][i] \in Clients \X Nat /\ got[s][i][1] \in Clients /\ got[s][i][2] \in Nat
              /\ local.conn[got[s][i][1]] = s
              /\ got[s][i][2] \in 1 .. os.taken[got[s][i][1]] /\ got[s][i][2] <= i
              /\ \A j \in 1 .. i : IF i - got[s][i][2] < j
                                   THEN got[s][j] = <<got[s][i][1], j - i + got[s][i][2]>>
                                   ELSE got[s][j][1] # got[s][i][1]
              /\ i < l => (got[s][i + 1][1] # got[s][i][1] =>
                             at[got[s][i][1]] \in Sockets!Over /\ Len(sent[got[s][i][1]]) = got[s][i][2])
              /\ i = l => got[s][i][2] = os.taken[got[s][i][1]]
              /\ i = l /\ got[s][i][1] # c =>
                   at[got[s][i][1]] \in Sockets!Over /\ Len(sent[got[s][i][1]]) = got[s][i][2]
  <2>1. got[s][i] \in Clients \X Nat
    BY <1>6, <1>7, <1>18, ElementOfSeq
  <2>2. Printed(s, i)
    BY <1>7, <1>18 DEF SocketOrder, ServerOrder
  <2>3. /\ local.conn[got[s][i][1]] = s
        /\ got[s][i][2] \in 1 .. os.taken[got[s][i][1]] /\ got[s][i][2] <= i
        /\ \A j \in 1 .. i : IF i - got[s][i][2] < j
                             THEN got[s][j] = <<got[s][i][1], j - i + got[s][i][2]>>
                             ELSE got[s][j][1] # got[s][i][1]
    BY <2>2 DEF Printed
  <2>4. IF i < Len(got[s])
        THEN got[s][i + 1][1] # got[s][i][1] =>
               at[got[s][i][1]] \in Sockets!Over /\ Len(sent[got[s][i][1]]) = got[s][i][2]
        ELSE /\ got[s][i][2] = os.taken[got[s][i][1]]
             /\ \/ local.conn[s] = got[s][i][1]
                \/ at[got[s][i][1]] \in Sockets!Over /\ Len(sent[got[s][i][1]]) = got[s][i][2]
    BY <2>2 DEF Printed
  <2>5. (i < l <=> i < Len(got[s])) /\ (i = l => ~(i < Len(got[s])))
    BY <1>7
  <2>6. got[s][i][1] \in Clients /\ got[s][i][2] \in Nat
    BY <2>1
  <2> QED BY <2>1, <2>3, <2>4, <2>5, <2>6
<1>19. ASSUME NEW i \in 1 .. l PROVE Printed(s, i)'
  <2>1. PICK d \in Clients, n \in Nat : d = got[s][i][1] /\ n = got[s][i][2]
    BY <1>18, <1>19
  <2>2. printed[i] = got[s][i] /\ i < l + (m - k) /\ \A j \in 1 .. i : printed[j] = got[s][j]
    <3>1. \A j \in 1 .. i : j \in 1 .. l
      BY <1>19
    <3>2. i < l + (m - k)
      BY <1>5, <1>19
    <3> QED BY <1>9, <1>19, <3>1, <3>2
  <2>3. n \in 1 .. os'.taken[d]
    <3>1. n \in 1 .. os.taken[d]
      BY <1>18, <1>19, <2>1
    <3>2. CASE d = c
      BY <1>3, <1>5, <1>11, <3>1, <3>2
    <3>3. CASE d # c
      BY <1>11, <3>1, <3>3
    <3> QED BY <3>2, <3>3
  <2>4. printed[i + 1][1] # d => at[d] \in Sockets!Over /\ Len(sent[d]) = n
    <3>1. CASE i < l
      <4>1. i + 1 \in 1 .. l
        BY <1>19, <3>1
      <4>2. printed[i + 1] = got[s][i + 1]
        BY <1>9, <4>1
      <4> QED BY <1>18, <2>1, <3>1, <4>2
    <3>2. CASE i = l
      <4>1. i + 1 \in l + 1 .. l + (m - k)
        BY <1>5, <3>2
      <4>2. PICK j \in l + 1 .. l + (m - k) : j = i + 1
        BY <4>1
      <4>3. printed[j] = <<c, k + (j - l)>>
        BY <1>9
      <4>4. printed[i + 1][1] = c
        BY <4>2, <4>3
      <4> QED BY <1>18, <2>1, <3>2, <4>4
    <3> QED BY <1>19, <3>1, <3>2
  <2>5. /\ local.conn[d] = s /\ n <= i
        /\ \A j \in 1 .. i : IF i - n < j THEN printed[j] = <<d, j - i + n>> ELSE printed[j][1] # d
    <3>1. /\ local.conn[d] = s /\ n <= i
          /\ \A j \in 1 .. i : IF i - n < j THEN got[s][j] = <<d, j - i + n>> ELSE got[s][j][1] # d
      BY <1>18, <2>1
    <3> QED BY <2>2, <3>1
  <2>6. /\ got'[s][i] = got[s][i] /\ got'[s][i + 1] = printed[i + 1] /\ i < Len(got'[s])
        /\ \A j \in 1 .. i : got'[s][j] = printed[j]
    BY <1>9, <1>10, <2>2
  <2>7. /\ got'[s][i][1] = d /\ got'[s][i][2] = n
        /\ got'[s][i + 1][1] # d => at'[d] \in Sockets!Over /\ Len(sent'[d]) = n
    BY <2>1, <2>4, <2>6
  <2>8. /\ local'.conn[d] = s /\ n <= i
        /\ \A j \in 1 .. i : IF i - n < j THEN got'[s][j] = <<d, j - i + n>> ELSE got'[s][j][1] # d
    BY <2>5, <2>6
  <2> QED BY <2>3, <2>6, <2>7, <2>8 DEF Printed
<1>20. /\ k <= l /\ \A j \in 1 .. l : IF l - k < j THEN got[s][j] = <<c, j - l + k>> ELSE got[s][j][1] # c
  <2>1. CASE k = 0
    <3>1. ASSUME NEW j \in 1 .. l PROVE got[s][j][1] # c
      <4>1. got[s][j][2] \in 1 .. os.taken[got[s][j][1]]
        BY <1>18, <3>1
      <4>2. os.taken[c] = 0
        BY <1>3, <2>1
      <4>3. \A n : n \notin 1 .. 0
        OBVIOUS
      <4> QED BY <4>1, <4>2, <4>3
    <3>2. \A j \in 1 .. l : ~(l - k < j)
      BY <2>1
    <3> QED BY <2>1, <3>1, <3>2
  <2>2. CASE k # 0
    <3>1. got[s] # <<>> /\ got[s][Len(got[s])][1] = c
      BY <1>3, <2>2 DEF SocketOrder, ServerOrder, Serving
    <3>2. l # 0
      BY <1>6, <1>7, <3>1, EmptySeq
    <3>3. l \in 1 .. l /\ got[s][l][1] = c
      BY <1>7, <3>1, <3>2
    <3>4. got[s][l][2] = k
      BY <1>3, <1>18, <3>3
    <3> QED BY <1>18, <3>3, <3>4
  <2> QED BY <2>1, <2>2
<1>21. ASSUME NEW i \in l + 1 .. l + (m - k) PROVE Printed(s, i)'
  <2>1. PICK n \in Nat : n = k + (i - l)
    OBVIOUS
  <2>2. k <= l
    BY <1>20
  <2>3. /\ n \in 1 .. m /\ n <= i /\ i - n = l - k /\ (i = l + (m - k) => n = m)
        /\ i < l + (m - k) => i + 1 \in l + 1 .. l + (m - k)
    BY <1>5, <1>21, <2>1, <2>2, CopiedPlaces
  <2>4. \A j \in 1 .. i : IF i - n < j THEN printed[j] = <<c, j - i + n>> ELSE printed[j][1] # c
    <3> TAKE j \in 1 .. i
    <3>1. j - l + k = j - i + n /\ k + (j - l) = j - i + n
      BY <1>21, <2>1
    <3>2. CASE j \in 1 .. l
      <4>1. IF l - k < j THEN got[s][j] = <<c, j - l + k>> ELSE got[s][j][1] # c
        BY <1>20, <3>2
      <4>2. printed[j] = got[s][j]
        BY <1>9, <3>2
      <4> QED BY <2>3, <3>1, <4>1, <4>2
    <3>3. CASE ~(j \in 1 .. l)
      <4>1. j \in l + 1 .. l + (m - k) /\ l - k < j
        BY <1>21, <3>3
      <4>2. printed[j] = <<c, k + (j - l)>>
        BY <1>9, <4>1
      <4> QED BY <2>3, <3>1, <4>1, <4>2
    <3> QED BY <3>2, <3>3
  <2>5. printed[i] = <<c, n>>
    BY <1>9, <1>21, <2>1
  <2>6. i < l + (m - k) => printed[i + 1][1] = c
    <3>1. ASSUME i < l + (m - k) PROVE printed[i + 1][1] = c
      <4>1. PICK j \in l + 1 .. l + (m - k) : j = i + 1
        BY <2>3, <3>1
      <4>2. printed[j] = <<c, k + (j - l)>>
        BY <1>9
      <4> QED BY <4>1, <4>2
    <3> QED BY <3>1
  <2>7. printed[i][1] = c /\ printed[i][2] = n
    BY <2>5
  <2>8. i < l + (m - k) \/ i = l + (m - k)
    BY <1>5, <1>21
  <2>9. /\ local'.conn[c] = s /\ n \in 1 .. os'.taken[c] /\ n <= i
        /\ \A j \in 1 .. i : IF i - n < j THEN got'[s][j] = <<c, j - i + n>> ELSE got'[s][j][1] # c
    BY <1>10, <1>11, <1>14, <2>3, <2>4
  <2>10. got'[s][i][1] = c /\ got'[s][i][2] = n
    BY <1>10, <2>7
  <2>11. /\ i < Len(got'[s]) => got'[s][i + 1][1] = c
         /\ ~(i < Len(got'[s])) => n = os'.taken[c] /\ local'.conn[s] = c
    BY <1>9, <1>10, <1>11, <2>3, <2>6, <2>8
  <2> QED BY <2>9, <2>10, <2>11 DEF Printed
<1>22. ServerOrder(s)'
  <2>1. \A i \in 1 .. l + (m - k) : i \in 1 .. l \/ i \in l + 1 .. l + (m - k)
    OBVIOUS
  <2> QED BY <1>9, <1>10, <1>16, <1>17, <1>19, <1>21, <2>1 DEF ServerOrder
<1>23. ASSUME NEW t \in Servers PROVE ServerOrder(t)'
  BY <1>15, <1>22
<1> QED BY <1>12, <1>13, <1>23 DEF SocketOrder

\* What a step leaves alone it writes back.
LEMMA SocketsSame ==
  ASSUME SocketTypes
  PROVE  /\ os.path \in Servers \cup {"none"} /\ os = [os EXCEPT !.path = os.path]
         /\ \A c \in Clients : local.typed[c] \in Nat /\ local = [local EXCEPT !.typed[c] = local.typed[c]]
BY DEF SocketTypes, SocketKernels, SocketLocals

\* Every step of a server.
LEMMA ServerKeepsOrder ==
  ASSUME SocketOrder, NEW s \in Servers, Sockets!server(s)
  PROVE  SocketOrder'
<1>1. SocketTypes
  BY DEF SocketOrder
<1>2. CASE Sockets!unlink(s)
  BY <1>2, ServerMoves DEF Sockets!unlink, Sockets!Go, ServerPlaces
<1>3. CASE Sockets!bind(s) /\ os.path = "none"
  BY <1>3, ServerMoves DEF Sockets!bind, Sockets!Go, ServerPlaces
<1>4. CASE Sockets!bind(s) /\ os.path # "none"
  <2>1. /\ at[s] = "bind" /\ at' = [at EXCEPT ![s] = "aborted"] /\ os' = [os EXCEPT !.path = os.path]
        /\ UNCHANGED <<local, sent, got>>
    BY <1>1, <1>4, SocketsSame DEF Sockets!bind, Sockets!Go, Sockets!Steps
  <2> QED BY <1>1, <2>1, SocketsSame, ServerMoves DEF ServerPlaces
<1>5. CASE Sockets!listen(s)
  <2>1. /\ at[s] = "listen" /\ at' = [at EXCEPT ![s] = "accept"] /\ os' = [os EXCEPT !.path = os.path]
        /\ UNCHANGED <<local, sent, got>>
    BY <1>1, <1>5, SocketsSame DEF Sockets!listen, Sockets!Go, Sockets!Steps
  <2> QED BY <1>1, <2>1, SocketsSame, ServerMoves DEF ServerPlaces
<1>6. CASE Sockets!accept(s)
  BY <1>6, ServerAccepts DEF Sockets!accept, Sockets!Go
<1>7. CASE Sockets!copydata(s)
  <2>1. PICK c \in Clients : c = local.conn[s]
    BY <1>7 DEF Sockets!copydata, SocketOrder, ServerOrder, Connected
  <2>2. CASE Sockets!Unread(c) # <<>>
    <3>1. /\ at[s] = "copy" /\ got' = [got EXCEPT ![s] = @ \o Sockets!Unread(c)]
          /\ os' = [os EXCEPT !.taken[c] = Len(sent[c])] /\ UNCHANGED <<at, local, sent>>
      BY <1>7, <2>1, <2>2 DEF Sockets!copydata
    <3> QED BY <2>1, <2>2, <3>1, ServerCopies
  <2>3. CASE Sockets!Unread(c) = <<>>
    <3>1. /\ at[s] = "copy" /\ at' = [at EXCEPT ![s] = "accept"] /\ at[c] \in Sockets!Over
          /\ local' = [local EXCEPT !.conn[s] = "none"] /\ UNCHANGED <<os, sent, got>>
      BY <1>7, <2>1, <2>3 DEF Sockets!copydata, Sockets!Go
    <3> QED BY <2>1, <2>3, <3>1, ServerCloses
  <2> QED BY <2>2, <2>3
<1> QED BY <1>2, <1>3, <1>4, <1>5, <1>6, <1>7 DEF Sockets!server

\* Every step of a client.
LEMMA ClientKeepsOrder ==
  ASSUME SocketOrder, NEW c \in Clients, Sockets!client(c)
  PROVE  SocketOrder'
<1>1. SocketTypes /\ ClientTypes(c)
  BY DEF SocketOrder
<1>2. local.typed[c] \in Nat /\ local = [local EXCEPT !.typed[c] = local.typed[c]]
  BY <1>1, SocketsSame
<1>3. CASE Sockets!connect(c)
  <2>1. CASE os.path # "none" /\ at[os.path] \in {"accept", "copy"}
    <3>1. /\ at[c] = "start" /\ at' = [at EXCEPT ![c] = "read"] /\ os' = [os EXCEPT !.backlog[os.path] = Append(@, c)]
          /\ local' = [local EXCEPT !.conn[c] = os.path] /\ UNCHANGED <<sent, got>>
      BY <1>3, <2>1 DEF Sockets!connect
    <3>2. os.path \in Servers
      BY <1>1, <2>1, SocketsSame
    <3> QED BY <3>1, <3>2, ClientConnects
  <2>2. CASE ~(os.path # "none" /\ at[os.path] \in {"accept", "copy"})
    <3>1. /\ at[c] = "start" /\ at' = [at EXCEPT ![c] = "aborted"] /\ UNCHANGED <<os, sent, got>>
          /\ local' = [local EXCEPT !.typed[c] = local.typed[c]]
      BY <1>2, <1>3, <2>2 DEF Sockets!connect
    <3> QED BY <1>2, <3>1, ClientMoves DEF ClientPlaces, Sockets!Over
  <2> QED BY <2>1, <2>2
<1>4. CASE Sockets!Type(c)
  <2>1. at[c] = "read" /\ local.typed[c] = Len(sent[c])
    BY <1>1, <1>4 DEF Sockets!Type, Sockets!Go, ClientTypes
  <2>2. CASE Sockets!Go(c, "read", "write")
    <3>1. /\ at' = [at EXCEPT ![c] = "write"] /\ UNCHANGED <<os, sent, got>>
      BY <1>4, <2>2 DEF Sockets!Type, Sockets!Go, Sockets!Steps
    <3>2. CASE local' = [local EXCEPT !.typed[c] = @ + 1]
      <4>1. local' = [local EXCEPT !.typed[c] = local.typed[c] + 1] /\ local.typed[c] + 1 \in Nat
        BY <1>2, <3>2
      <4> QED BY <2>1, <3>1, <4>1, ClientMoves DEF ClientPlaces, Sockets!Over
    <3>3. CASE Sockets!Go(c, "read", "ended")
      <4>1. at'[c] = "write" /\ at'[c] = "ended"
        BY <1>1, <3>1, <3>3, SocketProcesses DEF Sockets!Go, SocketTypes
      <4> QED BY <4>1
    <3> QED BY <1>4, <3>2, <3>3 DEF Sockets!Type
  <2>3. CASE Sockets!Go(c, "read", "ended") /\ Sockets!Steps
    <3>1. /\ at' = [at EXCEPT ![c] = "ended"] /\ UNCHANGED <<os, sent, got>>
          /\ local' = [local EXCEPT !.typed[c] = local.typed[c]]
      BY <1>2, <2>3 DEF Sockets!Go, Sockets!Steps
    <3> QED BY <1>2, <2>1, <3>1, ClientMoves DEF ClientPlaces, Sockets!Over
  <2> QED BY <1>4, <2>2, <2>3 DEF Sockets!Type
<1>5. CASE Sockets!write(c)
  <2>1. CASE Sockets!Go(c, "write", "killed") /\ Sockets!Steps
    <3>1. /\ at[c] = "write" /\ at' = [at EXCEPT ![c] = "killed"] /\ UNCHANGED <<os, sent, got>>
          /\ local' = [local EXCEPT !.typed[c] = local.typed[c]]
      BY <1>2, <2>1 DEF Sockets!Go, Sockets!Steps
    <3> QED BY <1>2, <3>1, ClientMoves DEF ClientPlaces, Sockets!Over
  <2>2. CASE ~(Sockets!Go(c, "write", "killed") /\ Sockets!Steps)
    <3>1. /\ at[c] = "write" /\ at' = [at EXCEPT ![c] = "read"] /\ UNCHANGED <<os, local, got>>
          /\ sent' = [sent EXCEPT ![c] = Append(@, <<c, local.typed[c]>>)]
      BY <1>5, <2>2 DEF Sockets!write, Sockets!Go
    <3> QED BY <3>1, ClientWrites
  <2> QED BY <2>1, <2>2
<1> QED BY <1>3, <1>4, <1>5 DEF Sockets!client

\* Every step of userver.c and its clients, and the end of one by a signal.
LEMMA SocketOrderStep == SocketOrder /\ [Sockets!Next]_vars => SocketOrder'
<1> SUFFICES ASSUME SocketOrder, [Sockets!Next]_vars PROVE SocketOrder'
  OBVIOUS
<1>1. ASSUME NEW p \in Sockets!Actors, Sockets!Kill(p) PROVE SocketOrder'
  <2>1. /\ at[p] \notin Sockets!Over \cup {"start"} /\ at' = [at EXCEPT ![p] = "killed"]
        /\ UNCHANGED <<os, local, sent, got>>
    BY <1>1 DEF Sockets!Kill, Sockets!Go, Sockets!Steps
  <2>2. CASE p \in Servers
    <3>1. os.path \in Servers \cup {"none"} /\ os' = [os EXCEPT !.path = os.path]
      BY <2>1, SocketsSame DEF SocketOrder
    <3> QED BY <2>1, <2>2, <3>1, ServerMoves DEF ServerPlaces
  <2>3. CASE p \in Clients
    <3>1. local.typed[p] \in Nat /\ local' = [local EXCEPT !.typed[p] = local.typed[p]]
      BY <2>1, <2>3, SocketsSame DEF SocketOrder
    <3> QED BY <2>1, <2>3, <3>1, ClientMoves DEF ClientPlaces
  <2> QED BY <2>2, <2>3 DEF Sockets!Actors
<1>2. CASE UNCHANGED vars
  <2>1. UNCHANGED <<at, os, local, sent, got>>
    BY <1>2 DEF vars
  <2>2. SocketTypes'
    BY <2>1 DEF SocketOrder, SocketTypes
  <2>3. ASSUME NEW c \in Clients PROVE ClientTypes(c)'
    BY <2>1, ClientStays DEF SocketOrder
  <2>4. ASSUME NEW s \in Servers PROVE ServerOrder(s)'
    BY <2>1, ServerStays DEF SocketOrder
  <2> QED BY <2>2, <2>3, <2>4 DEF SocketOrder
<1> QED BY <1>1, <1>2, ServerKeepsOrder, ClientKeepsOrder DEF Sockets!Next

\* The text of a connection begins where its first part was printed.
LEMMA FirstPrinted ==
  ASSUME SocketOrder, NEW s \in Servers, NEW i \in 1 .. Len(got[s]), NEW n \in Nat, n = got[s][i][2]
  PROVE  Sockets!First(s, i) = i - n + 1
<1>1. got[s] \in Seq(Clients \X Nat)
  BY DEF SocketOrder, SocketTypes
<1>2. PICK l \in Nat : l = Len(got[s])
  BY <1>1, LenProperties
<1>3. PICK c \in Clients : c = got[s][i][1]
  BY <1>1, ElementOfSeq
<1>4. Printed(s, i)
  BY DEF SocketOrder, ServerOrder
<1>5. /\ n \in 1 .. i
      /\ \A j \in 1 .. i : IF i - n < j THEN got[s][j] = <<c, j - i + n>> ELSE got[s][j][1] # c
  <2>1. os.taken[c] \in Nat /\ i \in Nat
    BY <1>2 DEF SocketOrder, SocketTypes, SocketKernels
  <2>2. n \in 1 .. os.taken[c] /\ n <= i
    BY <1>3, <1>4 DEF Printed
  <2>3. \A j \in 1 .. i : IF i - n < j THEN got[s][j] = <<c, j - i + n>> ELSE got[s][j][1] # c
    BY <1>3, <1>4 DEF Printed
  <2> QED BY <2>1, <2>2, <2>3
<1>6. PICK places : places = {j \in 1 .. l : got[s][j][1] = c}
  OBVIOUS
<1>7. Sockets!First(s, i) = Sockets!Min(places)
  BY <1>1, <1>2, <1>3, <1>6, LenProperties DEF Sockets!First
<1>8. PICK least \in Nat : least = i - n + 1 /\ least \in 1 .. i /\ least \in 1 .. l /\ i - n < least
  <2>1. i \in 1 .. l /\ n \in 1 .. i
    BY <1>2, <1>5
  <2>2. \A x, y \in Nat : x \in 1 .. l /\ y \in 1 .. x =>
          /\ x - y + 1 \in Nat /\ x - y + 1 \in 1 .. x /\ x - y + 1 \in 1 .. l /\ x - y < x - y + 1
    OBVIOUS
  <2> QED BY <2>1, <2>2
<1>9. least \in places
  <2>1. got[s][least] = <<c, least - i + n>>
    BY <1>5, <1>8
  <2>2. got[s][least][1] = c
    BY <2>1
  <2> QED BY <1>6, <1>8, <2>2
<1>10. \A j \in places : least <= j
  <2> SUFFICES ASSUME NEW j \in places, ~(least <= j) PROVE FALSE
    OBVIOUS
  <2>1. j \in 1 .. l /\ got[s][j][1] = c
    BY <1>6
  <2>2. j \in 1 .. i /\ ~(i - n < j)
    <3>1. i \in 1 .. l /\ n \in 1 .. i
      BY <1>2, <1>5
    <3>2. \A x, y, z \in Nat : x \in 1 .. l /\ y \in 1 .. x /\ z \in 1 .. l /\ ~(x - y + 1 <= z) =>
            z \in 1 .. x /\ ~(x - y < z)
      OBVIOUS
    <3>3. i \in Nat /\ j \in Nat /\ ~(i - n + 1 <= j)
      BY <1>8, <2>1, <3>1
    <3> QED BY <2>1, <3>1, <3>2, <3>3
  <2> QED BY <1>5, <2>1, <2>2
<1>11. places \subseteq Nat
  BY <1>6
<1>12. \A x \in places : (\A y \in places : x <= y) => x = least
  BY <1>9, <1>10, <1>11
<1>13. Sockets!Min(places) = least
  BY <1>9, <1>10, <1>12 DEF Sockets!Min
<1> QED BY <1>7, <1>8, <1>13

\* Hence a server prints its connections one after the other, each from its start.
LEMMA SocketsInOrder == SocketOrder => Sockets!InOrder
<1> SUFFICES ASSUME SocketOrder, NEW s \in Servers, NEW i \in DOMAIN got[s]
             PROVE  LET c == got[s][i][1]
                        n == i - Sockets!First(s, i) + 1
                    IN  /\ local.conn[c] = s /\ n \in DOMAIN sent[c] /\ got[s][i] = sent[c][n]
                        /\ i < Len(got[s]) /\ got[s][i + 1][1] # c => at[c] \in Sockets!Over /\ Len(sent[c]) = n
  BY DEF Sockets!InOrder
<1>1. got[s] \in Seq(Clients \X Nat) /\ i \in 1 .. Len(got[s])
  BY LenProperties DEF SocketOrder, SocketTypes
<1>2. PICK c \in Clients, n \in Nat : got[s][i] = <<c, n>> /\ c = got[s][i][1] /\ n = got[s][i][2]
  BY <1>1, ElementOfSeq
<1>3. Printed(s, i)
  BY <1>1 DEF SocketOrder, ServerOrder
<1>4. /\ local.conn[c] = s /\ n \in 1 .. os.taken[c]
      /\ i < Len(got[s]) /\ got[s][i + 1][1] # c => at[c] \in Sockets!Over /\ Len(sent[c]) = n
  BY <1>2, <1>3 DEF Printed
<1>5. Sockets!First(s, i) = i - n + 1
  BY <1>1, <1>2, FirstPrinted
<1>6. i - Sockets!First(s, i) + 1 = n
  <2>1. i \in Nat
    BY <1>1
  <2>2. \A x, y \in Nat : x - (x - y + 1) + 1 = y
    OBVIOUS
  <2> QED BY <1>5, <2>1, <2>2
<1>7. /\ sent[c] \in Seq(Clients \X Nat) /\ os.taken[c] \in Nat /\ os.taken[c] <= Len(sent[c])
      /\ \A k \in 1 .. Len(sent[c]) : sent[c][k] = <<c, k>>
  BY DEF SocketOrder, SocketTypes, SocketKernels, ClientTypes
<1>8. n \in DOMAIN sent[c] /\ sent[c][n] = <<c, n>>
  <2>1. PICK l \in Nat : l = Len(sent[c]) /\ DOMAIN sent[c] = 1 .. l
    BY <1>7, LenProperties
  <2>2. n \in 1 .. l
    BY <1>4, <1>7, <2>1
  <2> QED BY <1>7, <2>1, <2>2
<1> QED BY <1>2, <1>4, <1>6, <1>8

----------------------------------------------------------------------------
(* daemon.c                                                                *)

\* Where each of the three processes may be.
DaemonPlaces == {"none", "fork", "setsid", "closeall", "mkfifo", "stat", "open", "opening", "read", "ended", "failed"}

\* The three processes come one after the other, and the last makes its FIFO once.
ServiceInv ==
  /\ at \in [parent : DaemonPlaces, child : DaemonPlaces, daemon : DaemonPlaces]
  /\ "file" \in DOMAIN os
  /\ at.parent = "fork" => at.child = "none"
  /\ at.child \in {"none", "setsid", "fork"} => at.daemon = "none"
  /\ Service!FailsOnlyWithoutFifo

\* At first there is only the parent.
LEMMA ServiceStarts == Service!Init => ServiceInv
<1> SUFFICES ASSUME Service!Init PROVE ServiceInv
  OBVIOUS
<1>1. at = [parent |-> "fork", child |-> "none", daemon |-> "none"]
  BY DEF Service!Init
<1>2. "file" \in DOMAIN os
  BY DEF Service!Init, Service!Empty
<1> QED BY <1>1, <1>2 DEF ServiceInv, Service!FailsOnlyWithoutFifo, DaemonPlaces

\* Every step of the three processes of daemon.c, of a writer, and of whoever removes the FIFO.
LEMMA ServiceStep == ServiceInv /\ [Service!Next]_vars => ServiceInv'
<1> SUFFICES ASSUME ServiceInv, [Service!Next]_vars PROVE ServiceInv'
  OBVIOUS
<1> USE DEF DaemonPlaces, Service!FailsOnlyWithoutFifo
<1>1. CASE Service!Writer \/ Service!FifoRemoved \/ UNCHANGED vars
  <2>1. at' = at /\ "file" \in DOMAIN os' /\ os'.file \in {os.file, "none"}
    BY <1>1 DEF ServiceInv, Service!Writer, Service!WriterOpens, Service!WriterWrites, Service!WriterCloses,
                Service!FifoRemoved, vars
  <2> QED BY <2>1 DEF ServiceInv
<1>2. CASE Service!Fork("parent", "child", "setsid") \/ Service!Fork("child", "daemon", "closeall") \/ Service!setsid
  BY <1>2 DEF ServiceInv, Service!Fork, Service!setsid, Service!Go, Service!Steps
<1>3. CASE Service!mkfifo
  <2>1. /\ at.daemon = "mkfifo" /\ "file" \in DOMAIN os'
        /\ \E to \in {"stat", "open"} : at' = [at EXCEPT !.daemon = to]
    BY <1>3 DEF ServiceInv, Service!mkfifo
  <2> QED BY <2>1 DEF ServiceInv
<1>4. CASE Service!closeall \/ Service!stat \/ Service!open
  <2>1. /\ os' = os /\ at.daemon \in {"closeall", "stat", "open", "opening"}
        /\ \E to \in {"mkfifo", "open", "opening", "read", "failed"} :
             at' = [at EXCEPT !.daemon = to] /\ (to = "failed" => os.file # "fifo")
    BY <1>4 DEF Service!closeall, Service!stat, Service!open, Service!Go, Service!Steps
  <2> QED BY <2>1 DEF ServiceInv
<1>5. CASE Service!process
  <2>1. /\ "file" \in DOMAIN os' /\ at.daemon = "read" /\ at' = [at EXCEPT !.daemon = "read"]
    BY <1>5 DEF ServiceInv, Service!process, Service!Go, Service!ReadAndPrint, Service!Take
  <2> QED BY <2>1 DEF ServiceInv
<1> QED BY <1>1, <1>2, <1>3, <1>4, <1>5 DEF Service!Next, Service!Step

\* What the kernel has for daemon.c.
ServiceKernels ==
  [writer : [Pipes -> BOOLEAN], openings : [Pipes -> Nat], due : [Pipes -> Nat], taken : [Pipes -> Nat],
   pending : {{}}, file : {"none", "fifo", "other"}]

\* All that was read from the FIFO is logged.
ServiceOrder ==
  /\ os \in ServiceKernels /\ sent \in [Pipes -> Seq(Nat)] /\ got \in [Pipes -> Seq(Nat)]
  /\ Counts(sent[0]) /\ Counts(got[0]) /\ Len(got[0]) = os.taken[0] /\ os.taken[0] <= Len(sent[0])

\* At first nothing is written.
LEMMA ServiceOrderStarts == Service!Init => ServiceOrder
<1> SUFFICES ASSUME Service!Init PROVE ServiceOrder
  OBVIOUS
<1>1. /\ sent = [k \in Pipes |-> <<>>] /\ got = [k \in Pipes |-> <<>>] /\ 0 \in Pipes
      /\ \E file \in {"none", "fifo", "other"} : os = [Service!Empty EXCEPT !.file = file]
  BY MCProgramsAssumption DEF Service!Init
<1>2. /\ Service!Empty \in ServiceKernels /\ Service!Empty.taken = [k \in Pipes |-> 0]
  BY DEF Service!Empty, ServiceKernels
<1>3. os \in ServiceKernels /\ os.taken = [k \in Pipes |-> 0]
  BY <1>1, <1>2 DEF ServiceKernels
<1>4. sent \in [Pipes -> Seq(Nat)] /\ got \in [Pipes -> Seq(Nat)] BY <1>1, EmptySeq
<1>5. Len(<<>>) = 0 /\ Counts(<<>>) BY DEF Counts
<1> QED BY <1>1, <1>3, <1>4, <1>5 DEF ServiceOrder

\* What the daemon logs goes on where it was.
LEMMA ServiceOrderReads ==
  ASSUME ServiceOrder, Service!ReadAndPrint(0)
  PROVE  ServiceOrder'
<1> DEFINE last == Service!Least(os.taken[0] + Block, Len(sent[0]))
<1>1. /\ 0 \in Pipes /\ os.taken[0] \in Nat /\ sent[0] \in Seq(Nat) /\ got[0] \in Seq(Nat)
      /\ os.taken[0] <= Len(sent[0]) /\ Counts(sent[0]) /\ Counts(got[0]) /\ Len(got[0]) = os.taken[0]
  BY MCProgramsAssumption DEF ServiceOrder, ServiceKernels
<1>2. Block \in Nat /\ Len(sent[0]) \in Nat BY <1>1, MCProgramsAssumption, LenProperties
<1>3. last \in os.taken[0] .. Len(sent[0]) BY <1>1, <1>2 DEF Service!Least
<1>4. Service!Chunk(0) = SubSeq(sent[0], os.taken[0] + 1, last) BY DEF Service!Chunk
<1> HIDE DEF last
<1>5. /\ SubSeq(sent[0], os.taken[0] + 1, last) \in Seq(Nat)
      /\ Len(SubSeq(sent[0], os.taken[0] + 1, last)) = last - os.taken[0]
      /\ \A n \in 1 .. last - os.taken[0] : SubSeq(sent[0], os.taken[0] + 1, last)[n] = os.taken[0] + n
  BY <1>1, <1>3, CountsOn
<1>6. /\ Service!Chunk(0) \in Seq(Nat) /\ Len(Service!Chunk(0)) = last - os.taken[0]
      /\ \A n \in 1 .. Len(Service!Chunk(0)) : Service!Chunk(0)[n] = Len(got[0]) + n
  BY <1>1, <1>4, <1>5
<1>7. /\ got[0] \o Service!Chunk(0) \in Seq(Nat) /\ Counts(got[0] \o Service!Chunk(0))
      /\ Len(got[0] \o Service!Chunk(0)) = Len(got[0]) + Len(Service!Chunk(0))
  BY <1>1, <1>6, CountsConcat
<1>8. /\ got' = [got EXCEPT ![0] = @ \o Service!Chunk(0)] /\ sent' = sent
      /\ os' = [os EXCEPT !.taken[0] = @ + Len(Service!Chunk(0))]
  BY DEF Service!ReadAndPrint, Service!Take
<1>9. got' \in [Pipes -> Seq(Nat)] /\ got'[0] = got[0] \o Service!Chunk(0)
  BY <1>1, <1>7, <1>8 DEF ServiceOrder
<1>10. os.taken[0] + Len(Service!Chunk(0)) = last /\ last \in Nat
  BY <1>1, <1>3, <1>6
<1>11. os' \in ServiceKernels /\ os'.taken[0] = last
  BY <1>1, <1>8, <1>10 DEF ServiceOrder, ServiceKernels
<1>12. Counts(got[0])' /\ Len(got'[0]) = last
  BY <1>1, <1>7, <1>9, <1>10 DEF Counts
<1> QED BY <1>1, <1>3, <1>8, <1>9, <1>11, <1>12 DEF ServiceOrder, Counts

\* A step that reads, writes and logs nothing.
LEMMA ServiceOrderStays ==
  ASSUME ServiceOrder, os' \in ServiceKernels, os'.taken = os.taken, sent' = sent, got' = got
  PROVE  ServiceOrder'
BY DEF ServiceOrder, Counts

\* A writer writes the next number.
LEMMA ServiceOrderWritten ==
  ASSUME ServiceOrder, Service!WriterWrites(0)
  PROVE  ServiceOrder'
<1>1. /\ 0 \in Pipes /\ sent[0] \in Seq(Nat) /\ Counts(sent[0]) /\ got' = got
      /\ sent' = [sent EXCEPT ![0] = Append(@, Len(@) + 1)]
      /\ os' = [os EXCEPT !.due[0] = IF os.openings[0] = 1 THEN @ + 1 ELSE @]
  BY MCProgramsAssumption DEF ServiceOrder, Service!WriterWrites
<1>2. /\ Append(sent[0], Len(sent[0]) + 1) \in Seq(Nat)
      /\ Len(Append(sent[0], Len(sent[0]) + 1)) = Len(sent[0]) + 1
      /\ Counts(Append(sent[0], Len(sent[0]) + 1)) /\ Len(sent[0]) \in Nat
  BY <1>1, CountsAppend, LenProperties
<1>3. /\ sent' \in [Pipes -> Seq(Nat)] /\ sent'[0] = Append(sent[0], Len(sent[0]) + 1)
  BY <1>1, <1>2 DEF ServiceOrder
<1>4. os' \in ServiceKernels /\ os'.taken = os.taken
  <2>1. os \in ServiceKernels BY DEF ServiceOrder
  <2>2. PICK n \in Nat : os' = [os EXCEPT !.due = [os.due EXCEPT ![0] = n]]
    <3>1. os.due[0] \in Nat /\ os.due[0] + 1 \in Nat BY <1>1, <2>1 DEF ServiceKernels
    <3> QED BY <1>1, <3>1
  <2>4. [os.due EXCEPT ![0] = n] \in [Pipes -> Nat] BY <2>1 DEF ServiceKernels
  <2>3. \A due \in [Pipes -> Nat] : [os EXCEPT !.due = due] \in ServiceKernels
    BY <2>1 DEF ServiceKernels
  <2>5. os' \in ServiceKernels BY <2>2, <2>3, <2>4
  <2> QED BY <2>1, <2>2, <2>5 DEF ServiceKernels
<1>5. os.taken[0] \in Nat /\ os.taken[0] <= Len(sent[0])
  BY <1>1 DEF ServiceOrder, ServiceKernels
<1>6. Counts(sent[0])' /\ os'.taken[0] <= Len(sent'[0])
  BY <1>2, <1>3, <1>4, <1>5 DEF Counts
<1> QED BY <1>1, <1>3, <1>4, <1>6 DEF ServiceOrder, Counts

\* Every step of daemon.c keeps the order.
LEMMA ServiceOrderStep == ServiceOrder /\ [Service!Next]_vars => ServiceOrder'
<1> SUFFICES ASSUME ServiceOrder, [Service!Next]_vars PROVE ServiceOrder'
  OBVIOUS
<1>0. os \in ServiceKernels /\ 0 \in Pipes BY MCProgramsAssumption DEF ServiceOrder
<1>1. CASE UNCHANGED vars
  BY <1>1 DEF vars, ServiceOrder, Counts
<1>2. CASE Service!WriterWrites(0)
  BY <1>2, ServiceOrderWritten
<1>3. CASE Service!process
  BY <1>3, ServiceOrderReads DEF Service!process
<1>4. CASE Service!WriterOpens(0) \/ Service!WriterCloses(0)
  <2>1. /\ sent' = sent /\ got' = got
        /\ \/ os' = [os EXCEPT !.writer = [os.writer EXCEPT ![0] = TRUE],
                               !.openings = [os.openings EXCEPT ![0] = os.openings[0] + 1]]
           \/ os' = [os EXCEPT !.writer = [os.writer EXCEPT ![0] = FALSE]]
    BY <1>4 DEF Service!WriterOpens, Service!WriterCloses
  <2>2. [os.openings EXCEPT ![0] = os.openings[0] + 1] \in [Pipes -> Nat] BY <1>0 DEF ServiceKernels
  <2>3. \A w \in [Pipes -> BOOLEAN], o \in [Pipes -> Nat] :
          [os EXCEPT !.writer = w, !.openings = o] \in ServiceKernels
    BY <1>0 DEF ServiceKernels
  <2>4. \A w \in [Pipes -> BOOLEAN] : [os EXCEPT !.writer = w] \in ServiceKernels
    BY <1>0 DEF ServiceKernels
  <2>5. /\ [os.writer EXCEPT ![0] = TRUE] \in [Pipes -> BOOLEAN]
        /\ [os.writer EXCEPT ![0] = FALSE] \in [Pipes -> BOOLEAN]
    BY <1>0 DEF ServiceKernels
  <2>6. os' \in ServiceKernels
    <3>1. CASE os' = [os EXCEPT !.writer = [os.writer EXCEPT ![0] = TRUE],
                                !.openings = [os.openings EXCEPT ![0] = os.openings[0] + 1]]
      BY <2>2, <2>3, <2>5, <3>1
    <3>2. CASE os' = [os EXCEPT !.writer = [os.writer EXCEPT ![0] = FALSE]]
      BY <2>4, <2>5, <3>2
    <3> QED BY <2>1, <3>1, <3>2
  <2>7. os'.taken = os.taken BY <1>0, <2>1 DEF ServiceKernels
  <2> QED BY <2>1, <2>6, <2>7, ServiceOrderStays
<1>5. CASE Service!FifoRemoved \/ Service!mkfifo
  <2>1. /\ sent' = sent /\ got' = got
        /\ os' = os \/ os' = [os EXCEPT !.file = "none"] \/ os' = [os EXCEPT !.file = "fifo"]
    BY <1>5 DEF Service!FifoRemoved, Service!mkfifo
  <2>2. os' \in ServiceKernels /\ os'.taken = os.taken BY <1>0, <2>1 DEF ServiceKernels
  <2> QED BY <2>1, <2>2, ServiceOrderStays
<1>6. CASE UNCHANGED <<os, sent, got>>
  BY <1>0, <1>6, ServiceOrderStays
<1>7. \/ Service!WriterWrites(0) \/ Service!process \/ Service!WriterOpens(0) \/ Service!WriterCloses(0)
      \/ Service!FifoRemoved \/ Service!mkfifo \/ UNCHANGED <<os, sent, got>> \/ UNCHANGED vars
  BY DEF Service!Next, Service!Writer, Service!Step, Service!Fork, Service!setsid, Service!closeall, Service!stat,
         Service!open, Service!Steps
<1> QED BY <1>1, <1>2, <1>3, <1>4, <1>5, <1>6, <1>7

\* Hence the log is a prefix of what was written.
LEMMA ServiceInOrder == ServiceOrder => Service!InOrder
<1> SUFFICES ASSUME ServiceOrder PROVE Service!IsPrefix(got[0], sent[0])
  BY DEF Service!InOrder
<1>1. /\ 0 \in Pipes /\ sent[0] \in Seq(Nat) /\ got[0] \in Seq(Nat) /\ Counts(sent[0]) /\ Counts(got[0])
      /\ Len(got[0]) <= Len(sent[0])
  BY MCProgramsAssumption DEF ServiceOrder
<1>2. \A n \in 1 .. Len(got[0]) : got[0][n] = sent[0][n]
  <2>1. Len(got[0]) \in Nat /\ Len(sent[0]) \in Nat BY <1>1, LenProperties
  <2> QED BY <1>1, <2>1 DEF Counts
<1> QED BY <1>1, <1>2, PrefixBySame DEF Service!IsPrefix
----------------------------------------------------------------------------
(* signal-better.c, service.c, signal-good.c                               *)

\* Where main may be, the signals, and the types of all that these programs read and change.
SignalPlaces == {"start", "loop", "pause", "first", "second", "read", "report", "flush", "killed", "stuck"}
Names == {"USR1", "USR2"}

SignalKernels == [pending : SUBSET Names, blocked : SUBSET Names, pipe : Seq(Names), kills : Nat]

SignalLocals == [mysignal : Names \cup {"none"}, handlers : 0 .. 2, late : BOOLEAN]

\* How many handlers there are where main is at a place: both, once it is in its loop.
HandlersFor(place, n) ==
  IF place = "start" THEN n < 2 ELSE n = 2 \/ place \in {"killed", "stuck"}

SignalTypes ==
  /\ at \in [main : SignalPlaces] /\ os \in SignalKernels
  /\ local \in SignalLocals /\ HandlersFor(at.main, local.handlers)
  /\ sent \in [signals : Seq(Names)] /\ got \in [signals : Seq(Names \cup {"none"})]

\* Whether main has read a signal from the pipe that it has not reported.
Unreported == IF at.main \in {"report", "flush"} THEN 1 ELSE 0

\* What is reported, what is read and not yet reported, and what is in the pipe is, one
\* after the other, what was sent, unless a handler is stuck with what it has to write.
PipeOrder ==
  LET n == Len(got.signals)
  IN  /\ n <= Len(sent.signals)
      /\ \A j \in 1 .. n : got.signals[j] = sent.signals[j]
      /\ at.main # "stuck" =>
           /\ Len(sent.signals) = n + Unreported + Len(os.pipe)
           /\ Unreported = 1 => local.mysignal = sent.signals[n + 1]
           /\ \A j \in 1 .. Len(os.pipe) : os.pipe[j] = sent.signals[n + Unreported + j]

\* f says where each report was sent: before what mysignal holds, until that is reported.
Fresh == at.main \in {"first", "second"}
Reports(f) ==
  LET n == Len(got.signals)
  IN  /\ f \in [1 .. n -> 1 .. Len(sent.signals)]
      /\ \A j \in 1 .. n : got.signals[j] = sent.signals[f[j]] /\ (Fresh => f[j] < Len(sent.signals))
      /\ \A i, j \in 1 .. n : i < j => f[i] < f[j]

VariableOrder ==
  /\ Fresh => Len(sent.signals) > 0 /\ local.mysignal = sent.signals[Len(sent.signals)]
  /\ \E f : Reports(f)

\* What the programs keep that report all, or the last, of their signals.
SignalOrder ==
  program \in Signals!Buffered \cup {"signal-good"} =>
    SignalTypes /\ IF program = "signal-good" THEN VariableOrder ELSE PipeOrder

\* At first no signal was sent.
LEMMA SignalOrderStarts == Signals!Init => SignalOrder
<1> SUFFICES ASSUME Signals!Init PROVE SignalOrder
  OBVIOUS
<1>1. /\ at = [main |-> "start"] /\ local = [mysignal |-> "none", handlers |-> 0, late |-> FALSE]
      /\ os = [pending |-> {}, blocked |-> {}, pipe |-> <<>>, kills |-> 0]
      /\ sent = [signals |-> <<>>] /\ got = [signals |-> <<>>]
  BY DEF Signals!Init
<1>2. SignalTypes
  BY <1>1, EmptySeq DEF SignalTypes, SignalPlaces, SignalKernels, SignalLocals, HandlersFor
<1>3. PipeOrder
  BY <1>1 DEF PipeOrder, Unreported
<1>4. VariableOrder
  <2>1. [j \in 1 .. 0 |-> 1] \in [1 .. Len(got.signals) -> 1 .. Len(sent.signals)]
    BY <1>1
  <2>2. Reports([j \in 1 .. 0 |-> 1])
    BY <1>1, <2>1 DEF Reports
  <2> QED BY <1>1, <2>2 DEF VariableOrder, Fresh
<1> QED BY <1>2, <1>3, <1>4 DEF SignalOrder

\* What the kernel may change, and its pipe then.
LEMMA SignalKernelsKept ==
  ASSUME NEW o \in SignalKernels
  PROVE  /\ o.pipe \in Seq(Names)
         /\ \A s : [o EXCEPT !.pending = @ \ {s}] \in SignalKernels /\ [o EXCEPT !.pending = @ \ {s}].pipe = o.pipe
         /\ \A w \in Seq(Names) : [o EXCEPT !.pipe = w] \in SignalKernels /\ [o EXCEPT !.pipe = w].pipe = w
         /\ \A s \in Names : /\ [o EXCEPT !.kills = @ + 1, !.pending = @ \cup {s}] \in SignalKernels
                             /\ [o EXCEPT !.kills = @ + 1, !.pending = @ \cup {s}].pipe = o.pipe
<1>1. /\ o.pending \in SUBSET Names /\ o.pipe \in Seq(Names) /\ o.kills \in Nat /\ o.kills + 1 \in Nat
      /\ \A s : o.pending \ {s} \in SUBSET Names
      /\ \A s \in Names : o.pending \cup {s} \in SUBSET Names
  BY DEF SignalKernels
<1>2. \A s : [o EXCEPT !.pending = @ \ {s}] \in SignalKernels /\ [o EXCEPT !.pending = @ \ {s}].pipe = o.pipe
  BY <1>1 DEF SignalKernels
<1>3. \A w \in Seq(Names) : [o EXCEPT !.pipe = w] \in SignalKernels /\ [o EXCEPT !.pipe = w].pipe = w
  BY <1>1 DEF SignalKernels
<1>4. \A s \in Names : /\ [o EXCEPT !.kills = @ + 1, !.pending = @ \cup {s}] \in SignalKernels
                        /\ [o EXCEPT !.kills = @ + 1, !.pending = @ \cup {s}].pipe = o.pipe
  BY <1>1 DEF SignalKernels
<1> QED BY <1>1, <1>2, <1>3, <1>4

----------------------------------------------------------------------------

\* A step that sends, reads and reports nothing.
LEMMA PipeStays ==
  ASSUME PipeOrder, os'.pipe = os.pipe, sent' = sent, got' = got, local'.mysignal = local.mysignal,
         Unreported' = Unreported, at.main # "stuck"
  PROVE  PipeOrder'
BY DEF PipeOrder

\* The handler puts what was sent at the end of the pipe, or is stuck with it.
LEMMA PipeHandled ==
  ASSUME SignalTypes, PipeOrder, NEW s \in Names, Signals!PipeHandler(s), at.main # "stuck"
  PROVE  SignalTypes' /\ PipeOrder'
<1>1. /\ os \in SignalKernels /\ os.pipe \in Seq(Names) /\ sent.signals \in Seq(Names) /\ Len(got.signals) \in Nat
      /\ Len(os.pipe) \in Nat /\ Len(sent.signals) \in Nat /\ Unreported \in {0, 1}
  BY LenProperties DEF SignalTypes, SignalKernels, Unreported, Signals!PipeHandler
<1>2. /\ got' = got /\ local' = local /\ sent' = [sent EXCEPT !.signals = Append(@, s)]
      /\ \/ at' = at /\ os' = [[os EXCEPT !.pending = @ \ {s}] EXCEPT !.pipe = Append(@, s)]
         \/ at' = [main |-> "stuck"] /\ os' = [os EXCEPT !.pending = @ \ {s}]
  BY DEF Signals!PipeHandler, Signals!Sent, Signals!Delivered
<1>3. sent'.signals = Append(sent.signals, s)
  BY <1>2 DEF SignalTypes
<1>4. /\ Append(sent.signals, s) \in Seq(Names) /\ Len(sent'.signals) = Len(sent.signals) + 1
      /\ \A i \in 1 .. Len(sent.signals) : sent'.signals[i] = sent.signals[i]
      /\ sent'.signals[Len(sent.signals) + 1] = s
  BY <1>1, <1>3, OneMore
<1>5. /\ Append(os.pipe, s) \in Seq(Names) /\ Len(Append(os.pipe, s)) = Len(os.pipe) + 1
      /\ \A i \in 1 .. Len(os.pipe) : Append(os.pipe, s)[i] = os.pipe[i]
      /\ Append(os.pipe, s)[Len(os.pipe) + 1] = s
  BY <1>1, OneMore
<1>6. SignalTypes' /\ (at' = at => os'.pipe = Append(os.pipe, s) \/ at.main = "stuck")
  <2> DEFINE o == [os EXCEPT !.pending = @ \ {s}]
  <2>1. o \in SignalKernels /\ o.pipe = os.pipe
    BY <1>1, SignalKernelsKept
  <2> HIDE DEF o
  <2>2. [o EXCEPT !.pipe = Append(os.pipe, s)] \in SignalKernels /\ [o EXCEPT !.pipe = Append(os.pipe, s)].pipe = Append(os.pipe, s)
    BY <1>5, <2>1, SignalKernelsKept
  <2>3. \/ at' = at /\ os' = [o EXCEPT !.pipe = Append(os.pipe, s)]
        \/ at' = [main |-> "stuck"] /\ os' = o
    BY <1>2, <2>1 DEF o
  <2>4. os' \in SignalKernels /\ (at' = at => os'.pipe = Append(os.pipe, s) \/ at.main = "stuck")
    <3>1. CASE os' = [o EXCEPT !.pipe = Append(os.pipe, s)]
      BY <2>2, <3>1, Zenon
    <3>2. CASE at' = [main |-> "stuck"] /\ os' = o
      BY <2>1, <3>2
    <3> QED BY <2>3, <3>1, <3>2
  <2>5. sent' \in [signals : Seq(Names)]
    BY <1>2, <1>4 DEF SignalTypes
  <2>6. at \in [main : SignalPlaces] /\ [main |-> "stuck"] \in [main : SignalPlaces]
    BY DEF SignalTypes, SignalPlaces
  <2>7. at' \in [main : SignalPlaces]
    BY <1>2, <2>6, Zenon
  <2>8. HandlersFor(at'.main, local'.handlers)
    <3>1. HandlersFor(at.main, local.handlers) BY DEF SignalTypes
    <3>2. HandlersFor("stuck", local.handlers) BY DEF HandlersFor
    <3> QED BY <1>2, <3>1, <3>2
  <2> QED BY <1>1, <1>2, <2>4, <2>5, <2>7, <2>8 DEF SignalTypes
<1>7. Len(got.signals) <= Len(sent'.signals) /\ \A j \in 1 .. Len(got.signals) : got.signals[j] = sent'.signals[j]
  BY <1>1, <1>4 DEF PipeOrder
<1>8. CASE at' = at
  <2>1. os'.pipe = Append(os.pipe, s) /\ Unreported' = Unreported
    BY <1>6, <1>8 DEF Unreported
  <2>2. Len(sent.signals) = Len(got.signals) + Unreported + Len(os.pipe)
    BY DEF PipeOrder
  <2>3. /\ Len(got.signals) + Unreported + (Len(os.pipe) + 1) = Len(sent.signals) + 1
        /\ \A j \in 1 .. Len(os.pipe) : Len(got.signals) + Unreported + j \in 1 .. Len(sent.signals)
        /\ Unreported = 1 => Len(got.signals) + 1 \in 1 .. Len(sent.signals)
    <3>1. Unreported \in Nat /\ Unreported <= 1
      BY <1>1
    <3>2. Len(got.signals) \in Nat /\ Len(os.pipe) \in Nat /\ Len(sent.signals) \in Nat
      BY <1>1
    <3>4. \A n, u, p, all \in Nat : all = n + u + p => \A j \in 1 .. p : n + u + j \in 1 .. all
      OBVIOUS
    <3>5. \A n, p, all \in Nat : all = n + 1 + p => n + 1 \in 1 .. all
      OBVIOUS
    <3>6. Len(got.signals) + Unreported + (Len(os.pipe) + 1) = Len(sent.signals) + 1
      <4>1. \A n, u, p \in Nat : n + u + (p + 1) = (n + u + p) + 1
        OBVIOUS
      <4>2. Len(got.signals) + Unreported + (Len(os.pipe) + 1) = (Len(got.signals) + Unreported + Len(os.pipe)) + 1
        BY <3>1, <3>2, <4>1
      <4> QED BY <2>2, <4>2
    <3>7. \A j \in 1 .. Len(os.pipe) : Len(got.signals) + Unreported + j \in 1 .. Len(sent.signals)
      <4> TAKE j \in 1 .. Len(os.pipe)
      <4>1. Len(sent.signals) = Len(got.signals) + Unreported + Len(os.pipe) =>
              \A i \in 1 .. Len(os.pipe) : Len(got.signals) + Unreported + i \in 1 .. Len(sent.signals)
        BY <3>1, <3>2, <3>4
      <4> QED BY <2>2, <4>1
    <3>8. Unreported = 1 => Len(got.signals) + 1 \in 1 .. Len(sent.signals)
      BY <2>2, <3>2, <3>5, Zenon
    <3> QED BY <3>6, <3>7, <3>8
  <2>4. \A j \in 1 .. Len(os'.pipe) : os'.pipe[j] = sent'.signals[Len(got.signals) + Unreported + j]
    <3>1. \A j \in 1 .. Len(os.pipe) : os.pipe[j] = sent.signals[Len(got.signals) + Unreported + j]
      BY DEF PipeOrder
    <3>2. \A j \in 1 .. Len(os.pipe) : os'.pipe[j] = sent'.signals[Len(got.signals) + Unreported + j]
      BY ONLY <1>4, <1>5, <2>1, <2>3, <3>1, Zenon
    <3>3. os'.pipe[Len(os.pipe) + 1] = sent'.signals[Len(got.signals) + Unreported + (Len(os.pipe) + 1)]
      BY <1>4, <1>5, <2>1, <2>3, Zenon
    <3>4. \A j \in 1 .. Len(os.pipe) + 1 : j \in 1 .. Len(os.pipe) \/ j = Len(os.pipe) + 1
      BY <1>1
    <3> QED BY <1>5, <2>1, <3>2, <3>3, <3>4, Zenon
  <2>5. Len(sent'.signals) = Len(got.signals) + Unreported + Len(os'.pipe)
    BY <1>4, <1>5, <2>1, <2>3, Zenon
  <2>6. Unreported = 1 => local.mysignal = sent'.signals[Len(got.signals) + 1]
    BY <1>4, <2>3 DEF PipeOrder
  <2> QED BY <1>2, <1>6, <1>7, <2>1, <2>4, <2>5, <2>6 DEF PipeOrder
<1>9. CASE at' = [main |-> "stuck"]
  BY <1>2, <1>6, <1>7, <1>9 DEF PipeOrder
<1> QED BY <1>2, <1>8, <1>9

\* main takes the first signal out of the pipe.
LEMMA PipeRead ==
  ASSUME SignalTypes, PipeOrder, Signals!ReadSignal
  PROVE  SignalTypes' /\ PipeOrder'
<1>1. /\ os \in SignalKernels /\ os.pipe \in Seq(Names) /\ sent.signals \in Seq(Names)
      /\ local \in SignalLocals /\ at \in [main : SignalPlaces] /\ HandlersFor(at.main, local.handlers)
  BY DEF SignalTypes, SignalKernels
<1>2. Len(got.signals) \in Nat /\ Len(os.pipe) \in Nat /\ Len(sent.signals) \in Nat
  BY <1>1, LenProperties DEF SignalTypes
<1>3. /\ at.main = "read" /\ at' = [at EXCEPT !.main = "report"] /\ sent' = sent /\ got' = got /\ os.pipe # <<>>
      /\ os' = [os EXCEPT !.pipe = Tail(os.pipe)] /\ local' = [local EXCEPT !.mysignal = Head(os.pipe)]
  BY DEF Signals!ReadSignal, Signals!Go
<1>4. /\ Head(os.pipe) = os.pipe[1] /\ Head(os.pipe) \in Names /\ Tail(os.pipe) \in Seq(Names)
      /\ Len(Tail(os.pipe)) = Len(os.pipe) - 1 /\ Len(os.pipe) > 0
      /\ \A i \in 1 .. Len(Tail(os.pipe)) : Tail(os.pipe)[i] = os.pipe[i + 1]
  BY <1>1, <1>2, <1>3, HeadTailProperties, EmptySeq
<1>5. os' \in SignalKernels /\ os'.pipe = Tail(os.pipe)
  BY <1>1, <1>3, <1>4, SignalKernelsKept, Zenon
<1>6. local' \in SignalLocals /\ local'.mysignal = os.pipe[1] /\ local'.handlers = local.handlers
  BY <1>1, <1>3, <1>4 DEF SignalLocals
<1>7. at'.main = "report" /\ at' \in [main : SignalPlaces]
  BY <1>1, <1>3 DEF SignalPlaces
<1>8. SignalTypes'
  BY <1>1, <1>3, <1>5, <1>6, <1>7 DEF SignalTypes, HandlersFor
<1>9. Unreported = 0 /\ Unreported' = 1 /\ at.main # "stuck"
  BY <1>3, <1>7 DEF Unreported
<1>10. /\ Len(sent.signals) = Len(got.signals) + Len(os.pipe) /\ Len(got.signals) <= Len(sent.signals)
       /\ \A j \in 1 .. Len(got.signals) : got.signals[j] = sent.signals[j]
       /\ \A j \in 1 .. Len(os.pipe) : os.pipe[j] = sent.signals[Len(got.signals) + j]
  <2>1. /\ Len(sent.signals) = Len(got.signals) + 0 + Len(os.pipe) /\ Len(got.signals) <= Len(sent.signals)
        /\ \A j \in 1 .. Len(got.signals) : got.signals[j] = sent.signals[j]
        /\ \A j \in 1 .. Len(os.pipe) : os.pipe[j] = sent.signals[Len(got.signals) + 0 + j]
    BY <1>9 DEF PipeOrder
  <2>2. Len(got.signals) + 0 = Len(got.signals)
    BY <1>2
  <2> QED BY <2>1, <2>2
<1>11. \A j \in 1 .. Len(Tail(os.pipe)) : Tail(os.pipe)[j] = sent.signals[Len(got.signals) + 1 + j]
  <2> TAKE j \in 1 .. Len(Tail(os.pipe))
  <2>1. j + 1 \in 1 .. Len(os.pipe) /\ Len(got.signals) + (j + 1) = Len(got.signals) + 1 + j
    <3>1. \A n, m \in Nat : \A i \in 1 .. m - 1 : i + 1 \in 1 .. m /\ n + (i + 1) = n + 1 + i
      OBVIOUS
    <3>2. j \in 1 .. Len(os.pipe) - 1
      BY <1>4, Zenon
    <3> QED BY <1>2, <3>1, <3>2, Zenon
  <2>2. os.pipe[j + 1] = sent.signals[Len(got.signals) + (j + 1)]
    BY <1>10, <2>1
  <2> QED BY <1>4, <2>1, <2>2, Zenon
<1>12. local'.mysignal = sent.signals[Len(got.signals) + 1]
  <2>1. 1 \in 1 .. Len(os.pipe)
    BY <1>2, <1>4
  <2> QED BY <1>6, <1>10, <2>1
<1>13. Len(sent.signals) = Len(got.signals) + 1 + Len(Tail(os.pipe))
  <2>1. \A n, m \in Nat : n + m = n + 1 + (m - 1)
    OBVIOUS
  <2> QED BY <1>2, <1>4, <1>10, <2>1, Zenon
<1> QED BY <1>3, <1>5, <1>8, <1>9, <1>10, <1>11, <1>12, <1>13 DEF PipeOrder

\* main reports the signal it has read.
LEMMA PipeReported ==
  ASSUME SignalTypes, PipeOrder, at.main \in {"report", "flush"}, at' = [at EXCEPT !.main = "read"],
         Signals!Report(local.mysignal), UNCHANGED <<os, local, sent>>
  PROVE  SignalTypes' /\ PipeOrder'
<1>1. /\ got.signals \in Seq(Names \cup {"none"}) /\ Len(sent.signals) \in Nat /\ Len(os.pipe) \in Nat
      /\ local.mysignal \in Names \cup {"none"}
      /\ got' = [got EXCEPT !.signals = Append(@, local.mysignal)]
  BY LenProperties DEF SignalTypes, SignalKernels, SignalLocals, Signals!Report
<1>2. /\ Append(got.signals, local.mysignal) \in Seq(Names \cup {"none"}) /\ Len(got.signals) \in Nat
      /\ Len(Append(got.signals, local.mysignal)) = Len(got.signals) + 1
      /\ \A i \in 1 .. Len(got.signals) : Append(got.signals, local.mysignal)[i] = got.signals[i]
      /\ Append(got.signals, local.mysignal)[Len(got.signals) + 1] = local.mysignal
  BY <1>1, OneMore
<1>3. got'.signals = Append(got.signals, local.mysignal) /\ at'.main = "read"
  BY <1>1 DEF SignalTypes
<1>4. SignalTypes'
  BY <1>1, <1>2, <1>3 DEF SignalTypes, SignalPlaces, HandlersFor
<1>5. /\ Unreported = 1 /\ Unreported' = 0 /\ Len(sent.signals) = Len(got.signals) + 1 + Len(os.pipe)
      /\ local.mysignal = sent.signals[Len(got.signals) + 1]
      /\ \A j \in 1 .. Len(os.pipe) : os.pipe[j] = sent.signals[Len(got.signals) + 1 + j]
      /\ \A j \in 1 .. Len(got.signals) : got.signals[j] = sent.signals[j]
  BY <1>3 DEF PipeOrder, Unreported
<1>6. /\ Len(got'.signals) = Len(got.signals) + 1 /\ Len(got'.signals) \in Nat
      /\ Len(got.signals) + 1 <= Len(sent.signals)
  <2>1. \A n, all, p \in Nat : all = n + 1 + p => n + 1 \in Nat /\ n + 1 <= all
    OBVIOUS
  <2> QED BY <1>1, <1>2, <1>3, <1>5, <2>1, Zenon
<1>7. \A j \in 1 .. Len(got'.signals) : got'.signals[j] = sent.signals[j]
  <2>1. \A j \in 1 .. Len(got'.signals) : j \in 1 .. Len(got.signals) \/ j = Len(got.signals) + 1
    BY <1>2, <1>6
  <2> QED BY <1>2, <1>3, <1>5, <2>1, Zenon
<1>8. Len(got'.signals) + 0 = Len(got.signals) + 1
  BY <1>2, <1>6
<1> QED BY <1>3, <1>4, <1>5, <1>6, <1>7, <1>8 DEF PipeOrder

----------------------------------------------------------------------------

\* A step that sends and reports nothing.
LEMMA VariableStays ==
  ASSUME VariableOrder, sent' = sent, got' = got, local'.mysignal = local.mysignal, Fresh' => Fresh
  PROVE  VariableOrder'
<1>1. PICK f : Reports(f) BY DEF VariableOrder
<1>2. Reports(f)' BY <1>1 DEF Reports
<1> QED BY <1>2 DEF VariableOrder

\* The handler of signal-good.c sets the variable, whatever it was.
LEMMA VariableSet ==
  ASSUME SignalTypes, VariableOrder, NEW s \in Names, Signals!GoodHandler(s)
  PROVE  SignalTypes' /\ VariableOrder'
<1>1. /\ got' = got /\ sent' = [sent EXCEPT !.signals = Append(@, s)]
      /\ local' = [local EXCEPT !.mysignal = s, !.late = ~Signals!InTime]
      /\ os' = [os EXCEPT !.pending = @ \ {s}] /\ at' = (IF at.main = "pause" THEN [main |-> "first"] ELSE at)
      /\ sent.signals \in Seq(Names)
  BY DEF SignalTypes, Signals!GoodHandler, Signals!Sent, Signals!Delivered
<1>2. /\ sent'.signals = Append(sent.signals, s) /\ local'.mysignal = s /\ local'.handlers = local.handlers
      /\ local' \in SignalLocals
  <2>1. local \in SignalLocals /\ (~Signals!InTime) \in BOOLEAN
    BY DEF SignalTypes
  <2> QED BY <1>1, <2>1 DEF SignalTypes, SignalLocals
<1>3. /\ Append(sent.signals, s) \in Seq(Names) /\ Len(sent.signals) \in Nat
      /\ Len(sent'.signals) = Len(sent.signals) + 1
      /\ \A i \in 1 .. Len(sent.signals) : sent'.signals[i] = sent.signals[i]
      /\ sent'.signals[Len(sent.signals) + 1] = s
  BY <1>1, <1>2, OneMore
<1>4. SignalTypes'
  <2>1. os' \in SignalKernels
    BY <1>1, SignalKernelsKept DEF SignalTypes
  <2>2. at \in [main : SignalPlaces] /\ [main |-> "first"] \in [main : SignalPlaces]
    BY DEF SignalTypes, SignalPlaces
  <2>3. at' \in [main : SignalPlaces]
    BY <1>1, <2>2
  <2>4. HandlersFor(at'.main, local'.handlers)
    BY <1>1, <1>2 DEF SignalTypes, HandlersFor
  <2> QED BY <1>1, <1>2, <1>3, <2>1, <2>3, <2>4 DEF SignalTypes
<1>5. PICK f : Reports(f) BY DEF VariableOrder
<1>6. Reports(f)'
  <2>1. /\ f \in [1 .. Len(got.signals) -> 1 .. Len(sent.signals)]
        /\ \A j \in 1 .. Len(got.signals) : got.signals[j] = sent.signals[f[j]]
        /\ \A i, j \in 1 .. Len(got.signals) : i < j => f[i] < f[j]
    BY <1>5 DEF Reports
  <2>2. \A j \in 1 .. Len(got.signals) : f[j] \in 1 .. Len(sent.signals)
    BY <2>1
  <2>3. \A j \in 1 .. Len(got.signals) : f[j] < Len(sent'.signals) /\ f[j] \in 1 .. Len(sent'.signals)
    BY <1>3, <2>2
  <2>4. \A j \in 1 .. Len(got.signals) : got.signals[j] = sent'.signals[f[j]]
    BY <1>3, <2>1, <2>2
  <2>5. f \in [1 .. Len(got.signals) -> 1 .. Len(sent'.signals)]
    BY <2>1, <2>3
  <2> QED BY <1>1, <2>1, <2>3, <2>4, <2>5 DEF Reports
<1>7. Len(sent'.signals) > 0 /\ local'.mysignal = sent'.signals[Len(sent'.signals)]
  BY <1>2, <1>3
<1> QED BY <1>4, <1>6, <1>7 DEF VariableOrder

\* The loop of signal-good.c reports what the variable holds.
LEMMA VariableReported ==
  ASSUME SignalTypes, VariableOrder, Fresh, at' = [at EXCEPT !.main = "loop"], UNCHANGED <<os, local, sent>>,
         NEW s \in Names, s = local.mysignal, Signals!Report(s)
  PROVE  SignalTypes' /\ VariableOrder'
<1>a. PICK n, last : n = Len(got.signals) /\ last = Len(sent.signals)
  OBVIOUS
<1>1. got.signals \in Seq(Names \cup {"none"}) /\ got' = [got EXCEPT !.signals = Append(@, s)] /\ last \in Nat
  BY <1>a, LenProperties DEF SignalTypes, Signals!Report
<1>2. got'.signals = Append(got.signals, s) /\ at'.main = "loop"
  BY <1>1 DEF SignalTypes
<1>3. /\ Append(got.signals, s) \in Seq(Names \cup {"none"}) /\ n \in Nat /\ Len(got'.signals) = n + 1
      /\ \A i \in 1 .. n : got'.signals[i] = got.signals[i]
      /\ got'.signals[n + 1] = s
  BY <1>a, <1>1, <1>2, OneMore
<1>4. SignalTypes'
  BY <1>1, <1>2, <1>3 DEF SignalTypes, SignalPlaces, Fresh, HandlersFor
<1>5. PICK f : Reports(f) BY DEF VariableOrder
<1>6. /\ f \in [1 .. n -> 1 .. last]
      /\ \A j \in 1 .. n : got.signals[j] = sent.signals[f[j]] /\ f[j] < last
      /\ \A i, j \in 1 .. n : i < j => f[i] < f[j]
      /\ last > 0 /\ s = sent.signals[last]
  BY <1>a, <1>5 DEF Reports, VariableOrder
<1>7. PICK g : g = [j \in 1 .. n + 1 |-> IF j = n + 1 THEN last ELSE f[j]]
  OBVIOUS
<1>8. /\ g \in [1 .. n + 1 -> 1 .. last] /\ g[n + 1] = last
      /\ \A j \in 1 .. n : g[j] = f[j]
  BY <1>1, <1>3, <1>6, <1>7
<1>9. \A j \in 1 .. n + 1 : got'.signals[j] = sent.signals[g[j]]
  BY <1>3, <1>6, <1>8
<1>10. \A i, j \in 1 .. n + 1 : i < j => g[i] < g[j]
  <2> TAKE i, j \in 1 .. n + 1
  <2>1. CASE j = n + 1
    BY <1>3, <1>6, <1>8, <2>1
  <2>2. CASE j # n + 1
    BY <1>3, <1>6, <1>8, <2>2
  <2> QED BY <2>1, <2>2
<1>11. Reports(g)'
  <2>1. /\ Len(got'.signals) = n + 1 /\ Len(sent'.signals) = last /\ sent' = sent
        /\ \A i, j \in 1 .. n + 1 : i < j => g[i] < g[j]
        /\ ~Fresh'
    BY <1>a, <1>2, <1>3, <1>10 DEF Fresh
  <2> QED BY <1>8, <1>9, <2>1 DEF Reports
<1> QED BY <1>2, <1>4, <1>11 DEF VariableOrder, Fresh

----------------------------------------------------------------------------

\* Strangers send these programs the signals they know, and nothing is sent before it is handled.
LEMMA SignalOrderKill ==
  ASSUME SignalOrder, program' = program, program \in Signals!Buffered \cup {"signal-good"},
         NEW j \in DOMAIN Signals!Known, Signals!Kill(Signals!Known[j])
  PROVE  SignalOrder'
<1>1. Signals!Known = <<"USR1", "USR2">>
  BY DEF Signals!Known, Signals!Buffered
<1>2. Signals!Known[j] \in Names
  BY <1>1 DEF Names
<1>3. /\ SignalTypes /\ at' = at /\ local' = local /\ got' = got /\ sent' = sent
      /\ os' = [os EXCEPT !.kills = @ + 1, !.pending = @ \cup {Signals!Known[j]}]
      /\ at.main # "stuck"
  BY <1>1 DEF SignalOrder, Signals!Kill, Signals!SentAtOnce, Signals!Buffered, Signals!Over
<1>4. SignalTypes' /\ os'.pipe = os.pipe
  BY <1>2, <1>3, SignalKernelsKept DEF SignalTypes
<1>5. Unreported' = Unreported /\ (Fresh' => Fresh)
  BY <1>3 DEF Unreported, Fresh
<1> QED BY <1>3, <1>4, <1>5, PipeStays, VariableStays DEF SignalOrder

\* main goes on, without a signal.
LEMMA SignalOrderGoes ==
  ASSUME SignalOrder, program' = program, program \in Signals!Buffered \cup {"signal-good"},
         NEW to \in SignalPlaces \ {"stuck"}, at' = [at EXCEPT !.main = to], at.main # "stuck",
         UNCHANGED <<sent, got>>, Unreported' = Unreported, Fresh' => Fresh,
         os' = os \/ \E s \in Names : os' = Signals!Delivered(s),
         local' = local \/ (local.handlers < 2 /\ local' = [local EXCEPT !.handlers = @ + 1]),
         HandlersFor(to, local'.handlers)
  PROVE  SignalOrder'
<1>1. SignalTypes BY DEF SignalOrder
<1>2. os' \in SignalKernels /\ os'.pipe = os.pipe
  <2>1. \A s : Signals!Delivered(s) \in SignalKernels /\ Signals!Delivered(s).pipe = os.pipe
    BY <1>1, SignalKernelsKept DEF SignalTypes, Signals!Delivered
  <2> QED BY <1>1, <2>1 DEF SignalTypes
<1>3. local \in SignalLocals
  BY <1>1 DEF SignalTypes
<1>4. local' \in SignalLocals /\ local'.mysignal = local.mysignal
  BY <1>3 DEF SignalLocals
<1>5. at' \in [main : SignalPlaces] /\ at'.main = to
  BY <1>1 DEF SignalTypes
<1>6. SignalTypes'
  BY <1>1, <1>2, <1>4, <1>5 DEF SignalTypes
<1> QED BY <1>1, <1>2, <1>4, <1>6, PipeStays, VariableStays DEF SignalOrder

\* A step of main.
LEMMA SignalOrderMain ==
  ASSUME SignalOrder, program' = program, program \in Signals!Buffered \cup {"signal-good"}, Signals!Main
  PROVE  SignalOrder'
<1>1. SignalTypes /\ at.main # "stuck" BY DEF SignalOrder, Signals!Main, Signals!Over
<1>2. ASSUME NEW to \in {"read", "loop"}, Signals!Install(to) PROVE SignalOrder'
  <2>1. PICK next : next = IF local.handlers + 1 = 2 THEN to ELSE "start"
    OBVIOUS
  <2>2. Signals!Known = <<"USR1", "USR2">> /\ Len(Signals!Known) = 2
    BY DEF Signals!Known, Signals!Buffered
  <2>3. /\ at.main = "start" /\ at' = [at EXCEPT !.main = next] /\ os' = os /\ sent' = sent /\ got' = got
        /\ local' = [local EXCEPT !.handlers = @ + 1]
    BY <1>2, <2>1, <2>2 DEF Signals!Install, Signals!Go, Signals!Buffered
  <2>4. local.handlers \in 0 .. 1 /\ local'.handlers = local.handlers + 1
    BY <1>1, <2>3 DEF SignalTypes, SignalLocals, HandlersFor
  <2>5. at'.main = next /\ next \in SignalPlaces \ {"stuck"} /\ HandlersFor(next, local'.handlers)
    BY <1>1, <2>1, <2>3, <2>4 DEF SignalTypes, SignalPlaces, HandlersFor
  <2>6. Unreported' = Unreported /\ ~Fresh'
    BY <2>1, <2>3, <2>5 DEF Unreported, Fresh
  <2> QED BY <1>1, <2>3, <2>4, <2>5, <2>6, SignalOrderGoes
<1>3. ASSUME program \in Signals!Buffered, Signals!ReadSignal PROVE SignalOrder'
  BY <1>3, PipeRead DEF SignalOrder, Signals!Buffered
<1>4. ASSUME program \in Signals!Buffered, NEW from \in {"report", "flush"}, Signals!Go("main", from, "read"),
             Signals!Report(local.mysignal), UNCHANGED <<os, local, sent>>
      PROVE  SignalOrder'
  BY <1>4, PipeReported DEF SignalOrder, Signals!Buffered, Signals!Go
<1>5. CASE program = "signal-better" /\ Signals!signal_better
  BY <1>2, <1>3, <1>4, <1>5 DEF Signals!signal_better, Signals!Buffered
<1>6. CASE program = "service" /\ Signals!service
  <2>1. CASE Signals!Go("main", "report", "flush") /\ Signals!Steps
    <3>1. Unreported' = Unreported /\ ~Fresh' /\ HandlersFor("flush", local.handlers) /\ "flush" \in SignalPlaces
      BY <1>1, <2>1 DEF SignalTypes, Unreported, Fresh, SignalPlaces, HandlersFor, Signals!Go
    <3> QED BY <1>1, <2>1, <3>1, SignalOrderGoes DEF Signals!Go, Signals!Steps
  <2> QED BY <1>2, <1>3, <1>4, <1>6, <2>1 DEF Signals!service, Signals!Buffered
<1>7. CASE program = "signal-good" /\ Signals!signal_good
  <2>1. CASE Signals!Go("main", "loop", "pause") /\ Signals!Steps
    <3>1. Unreported' = Unreported /\ ~Fresh' /\ HandlersFor("pause", local.handlers) /\ "pause" \in SignalPlaces
      BY <1>1, <2>1 DEF SignalTypes, Unreported, Fresh, SignalPlaces, HandlersFor, Signals!Go
    <3> QED BY <1>1, <2>1, <3>1, SignalOrderGoes DEF Signals!Go, Signals!Steps
  <2>2. ASSUME NEW to \in {"loop", "second"}, Fresh, at' = [at EXCEPT !.main = to], UNCHANGED <<os, local, sent, got>>
        PROVE  SignalOrder'
    <3>1. Unreported' = Unreported /\ HandlersFor(to, local.handlers) /\ to \in SignalPlaces
      BY <1>1, <2>2 DEF SignalTypes, Unreported, Fresh, SignalPlaces, HandlersFor
    <3> QED BY <1>1, <2>2, <3>1, SignalOrderGoes
  <2>3. ASSUME NEW s \in {"USR1", "USR2"}, Fresh, at' = [at EXCEPT !.main = "loop"], UNCHANGED <<os, local, sent>>,
               s = local.mysignal, Signals!Report(s)
        PROVE  SignalOrder'
    BY <1>1, <1>7, <2>3, VariableReported DEF SignalOrder, Names
  <2>4. \/ Signals!Install("loop")
        \/ Signals!Go("main", "loop", "pause") /\ Signals!Steps
        \/ \E to \in {"loop", "second"} : Fresh /\ at' = [at EXCEPT !.main = to] /\ UNCHANGED <<os, local, sent, got>>
        \/ \E s \in {"USR1", "USR2"} : /\ Fresh /\ at' = [at EXCEPT !.main = "loop"] /\ UNCHANGED <<os, local, sent>>
                                       /\ s = local.mysignal /\ Signals!Report(s)
    BY <1>7 DEF Signals!signal_good, Signals!Go, Fresh
  <2> QED BY <1>2, <2>1, <2>2, <2>3, <2>4
<1> QED BY <1>5, <1>6, <1>7 DEF Signals!Main, Signals!Buffered

\* A signal reaches the program.
LEMMA SignalOrderDelivers ==
  ASSUME SignalOrder, program' = program, program \in Signals!Buffered \cup {"signal-good"}, Signals!Deliver
  PROVE  SignalOrder'
<1>1. SignalTypes /\ at.main \notin {"stuck", "killed"} BY DEF SignalOrder, Signals!Deliver, Signals!Over
<1>2. PICK s \in os.pending \ os.blocked :
        \/ Signals!DefaultAction(s)
        \/ program = "signal-good" /\ Signals!GoodHandler(s)
        \/ program \in Signals!Buffered /\ Signals!PipeHandler(s)
  BY DEF Signals!Deliver, Signals!Buffered
<1>3. s \in Names BY <1>1 DEF SignalTypes, SignalKernels
<1>4. CASE Signals!DefaultAction(s)
  <2>0. Signals!Known = <<"USR1", "USR2">>
    BY DEF Signals!Known, Signals!Buffered
  <2>1. /\ at.main = "start" /\ at' = [at EXCEPT !.main = "killed"]
        /\ os' = Signals!Delivered(s) /\ UNCHANGED <<local, sent, got>>
    <3>1. local.handlers # 2
      <4>1. ASSUME local.handlers = 2 PROVE Signals!Handles(s)
        <5>1. 1 \in 1 .. 2 /\ 2 \in 1 .. 2 OBVIOUS
        <5> QED BY <1>3, <2>0, <4>1, <5>1 DEF Signals!Handles, Names
      <4> QED BY <1>4, <4>1 DEF Signals!DefaultAction
    <3> QED BY <1>1, <1>4, <3>1 DEF SignalTypes, HandlersFor, Signals!DefaultAction, Signals!Go
  <2>2. Unreported' = Unreported /\ ~Fresh' /\ "killed" \in SignalPlaces /\ HandlersFor("killed", local'.handlers)
    BY <1>1, <2>1 DEF SignalTypes, Unreported, Fresh, SignalPlaces, HandlersFor
  <2> QED BY <1>1, <1>3, <2>1, <2>2, SignalOrderGoes
<1>5. CASE program = "signal-good" /\ Signals!GoodHandler(s)
  BY <1>1, <1>3, <1>5, VariableSet DEF SignalOrder
<1>6. CASE program \in Signals!Buffered /\ Signals!PipeHandler(s)
  BY <1>1, <1>3, <1>6, PipeHandled DEF SignalOrder, Signals!Buffered
<1> QED BY <1>2, <1>4, <1>5, <1>6

\* Every step of the signal loops keeps the order.
LEMMA SignalOrderStep == SignalOrder /\ [Signals!Next]_vars => SignalOrder'
<1> SUFFICES ASSUME SignalOrder, [Signals!Next]_vars PROVE SignalOrder'
  OBVIOUS
<1>1. CASE UNCHANGED vars
  BY <1>1 DEF vars, SignalOrder, SignalTypes, PipeOrder, VariableOrder, Reports, Unreported, Fresh
<1>2. CASE Signals!Next
  <2>1. program' = program BY <1>2, SignalsStays
  <2>2. CASE program \notin Signals!Buffered \cup {"signal-good"}
    BY <2>1, <2>2 DEF SignalOrder
  <2> QED BY <1>2, <2>1, <2>2, SignalOrderKill, SignalOrderMain, SignalOrderDelivers DEF Signals!Next, Signals!Step
<1> QED BY <1>1, <1>2

\* Hence what is reported was sent, in that order.
LEMMA SignalsInOrder == SignalOrder => Signals!InOrder
<1> SUFFICES ASSUME SignalOrder PROVE Signals!InOrder
  OBVIOUS
<1>1. ASSUME program \in Signals!Buffered PROVE Signals!IsPrefix(got.signals, sent.signals)
  <2>1. SignalTypes /\ PipeOrder BY <1>1 DEF SignalOrder, Signals!Buffered
  <2>2. got.signals \in Seq(Names \cup {"none"}) /\ sent.signals \in Seq(Names)
    BY <2>1 DEF SignalTypes
  <2>3. sent.signals \in Seq(Names \cup {"none"})
    BY <2>2, SeqMonotonic
  <2>4. Len(got.signals) <= Len(sent.signals) /\ \A j \in 1 .. Len(got.signals) : got.signals[j] = sent.signals[j]
    BY <2>1 DEF PipeOrder
  <2> QED BY <2>2, <2>3, <2>4, PrefixBySame DEF Signals!IsPrefix
<1>2. ASSUME program = "signal-good" PROVE Signals!IsSubsequence(got.signals, sent.signals)
  <2>1. SignalTypes /\ VariableOrder BY <1>2 DEF SignalOrder
  <2>2. DOMAIN got.signals = 1 .. Len(got.signals) /\ DOMAIN sent.signals = 1 .. Len(sent.signals)
    BY <2>1, LenProperties DEF SignalTypes
  <2>3. PICK f : Reports(f) BY <2>1 DEF VariableOrder
  <2>4. /\ f \in [1 .. Len(got.signals) -> 1 .. Len(sent.signals)]
        /\ \A j \in 1 .. Len(got.signals) : got.signals[j] = sent.signals[f[j]]
        /\ \A i, j \in 1 .. Len(got.signals) : i < j => f[i] < f[j]
    BY <2>3 DEF Reports
  <2> QED BY <2>2, <2>4 DEF Signals!IsSubsequence
<1> QED BY <1>1, <1>2 DEF Signals!InOrder

----------------------------------------------------------------------------
(* as1_testbench.c                                                         *)

Halves == {"first half", "second half"}
Texts == Seq(Nat \X Halves)
FileNames == {Bench!inputfile, Bench!outputfile}
BenchFiles == [file : Seq(Texts), named : [FileNames -> Nat]]
BenchLocals == [test : [Benches -> 1 .. Len(Tests)], ifd : [Benches -> Nat], ofd : [Benches -> Nat],
                overlapped : [Benches -> BOOLEAN], kept : [Benches -> BOOLEAN]]
BenchPlaces == {"start", "generate", "write", "fork", "wait", "compare", "unlink input", "unlink output", "next",
                "passed", "failed", "crashed"}
ChildPlaces == {"none", "open input", "open output", "exec", "exit", "exit 0", "exit not 0"}

Infile == os.named[Bench!inputfile]
Outfile == os.named[Bench!outputfile]

\* Each name has a file of its own, or none.
FilesApart ==
  /\ \A name \in FileNames : os.named[name] <= Len(os.file)
  /\ Infile # 0 => Infile # Outfile

BenchTypes ==
  /\ at \in [Bench!Actors -> BenchPlaces \cup ChildPlaces]
  /\ \A b \in Benches : at[b] \in BenchPlaces /\ at[Bench!Program(b)] \in ChildPlaces
  /\ os \in BenchFiles /\ FilesApart
  /\ local \in BenchLocals /\ \A b \in Benches : local.ifd[b] <= Len(os.file)
  /\ sent \in [Benches -> Seq(Nat)] /\ got \in [Benches -> Seq(Nat)]

\* A child runs only while its bench waits, and a bench that has not begun has done nothing.
ChildWaited(b) ==
  /\ at[b] # "wait" => at[Bench!Program(b)] \in {"none", "exit 0", "exit not 0"}
  /\ at[b] = "start" => Len(sent[b]) = 0 /\ Len(got[b]) = 0 /\ local.test[b] = 1

\* The program under test has copied its input, or has not.
Outcome(b) ==
  /\ Outfile # 0
  /\ \/ Len(got[b]) = local.test[b] /\ os.file[Outfile] = Bench!Input(local.test[b])
     \/ Len(got[b]) = local.test[b] - 1 /\ os.file[Outfile] # Bench!Input(local.test[b])

\* How many inputs a bench has made, and how many of them were copied, at each place.
Made(b) ==
  /\ Counts(sent[b]) /\ Counts(got[b])
  /\ Len(sent[b]) = IF at[b] \in {"generate", "write"} THEN local.test[b] - 1 ELSE local.test[b]
  /\ at[b] \in {"generate", "write", "fork"} => Len(got[b]) = local.test[b] - 1
  /\ at[b] \in {"unlink input", "unlink output", "next"} => Len(got[b]) = local.test[b]

\* What its files hold, at each place of it and of its child.
Files(b) ==
  /\ at[b] = "write" => Infile # 0 /\ local.ifd[b] = Infile /\ os.file[Infile] = <<>>
  /\ at[b] \in {"fork", "wait", "compare"} => Infile # 0 /\ os.file[Infile] = Bench!Input(local.test[b])
  /\ at[b] = "compare" => Outcome(b)

Child(b) ==
  LET child == at[Bench!Program(b)]
  IN  /\ child \in {"open input", "open output", "exec"} => Len(got[b]) = local.test[b] - 1
      /\ child \in {"open output", "exec"} => local.ifd[b] = Infile
      /\ child = "exec" => Outfile # 0 /\ local.ofd[b] = Outfile /\ os.file[Outfile] = <<>>
      /\ child \in {"exit", "exit 0"} => Outcome(b)

\* What a bench that runs alone knows, wherever it is.
Alone(b) ==
  /\ \A d \in Benches : Bench!Running(d) => d = b
  /\ Made(b) /\ Files(b) /\ (at[b] = "wait" => Child(b))

\* It ran with another, or a program gave it no output of its own.
Disturbed(b) == local.overlapped[b] \/ local.kept[b]

\* Whether it is over or runs, unless it was disturbed.
BenchKept(b) ==
  ~Disturbed(b) =>
    /\ Bench!Running(b) => Alone(b)
    /\ at[b] = "passed" => got[b] = sent[b] /\ Len(sent[b]) = Len(Tests)
    /\ at[b] # "crashed"

BenchOrder == BenchTypes /\ \A b \in Benches : ChildWaited(b) /\ BenchKept(b)

\* A bench and its child are two processes, and no two benches share one.
LEMMA BenchProcesses ==
  /\ \A b \in Benches : b \in Bench!Actors /\ Bench!Program(b) \in Bench!Actors /\ -Bench!Program(b) = b
  /\ \A b, d \in Benches : b # Bench!Program(d) /\ (Bench!Program(b) = Bench!Program(d) => b = d)
<1>1. \A b \in Benches : b \in Nat /\ b # 0
  BY MCProgramsAssumption
<1>2. \A b \in Benches : b \in Bench!Actors /\ Bench!Program(b) \in Bench!Actors
  BY DEF Bench!Actors
<1>3. \A b \in Nat \ {0} : -(-b) = b
  OBVIOUS
<1>4. \A b, d \in Nat \ {0} : b # -d /\ (-b = -d => b = d)
  OBVIOUS
<1> QED BY <1>1, <1>2, <1>3, <1>4 DEF Bench!Program

\* There is a test.
LEMMA SomeTest == Len(Tests) \in Nat \ {0}
<1>1. Tests \in Seq({"file", "pipe"}) /\ Tests # <<>>
  BY MCProgramsAssumption
<1> QED BY <1>1, EmptySeq

\* At first no bench has begun, and there is no file.
LEMMA BenchOrderStarts == Bench!Init => BenchOrder
<1> SUFFICES ASSUME Bench!Init PROVE BenchOrder
  OBVIOUS
<1>1. /\ at = [p \in Bench!Actors |-> IF p \in Benches THEN "start" ELSE "none"]
      /\ os = [file |-> <<>>, named |-> [testfile1234 |-> 0, testfile2345 |-> 0]]
      /\ local = [test |-> [b \in Benches |-> 1], ifd |-> [b \in Benches |-> 0], ofd |-> [b \in Benches |-> 0],
                  overlapped |-> [b \in Benches |-> FALSE], kept |-> [b \in Benches |-> FALSE]]
      /\ sent = [b \in Benches |-> <<>>] /\ got = [b \in Benches |-> <<>>]
  BY DEF Bench!Init
<1>2. \A b \in Benches : at[b] = "start" /\ at[Bench!Program(b)] = "none"
  BY <1>1, BenchProcesses
<1>3. 1 \in 1 .. Len(Tests)
  BY SomeTest
<1>4. /\ os \in BenchFiles /\ FilesApart /\ os.file = <<>>
  <2>1. [testfile1234 |-> 0, testfile2345 |-> 0] \in [FileNames -> Nat]
    BY DEF FileNames, Bench!inputfile, Bench!outputfile
  <2>2. <<>> \in Seq(Texts)
    OBVIOUS
  <2>3. \A name \in FileNames : os.named[name] = 0
    BY <1>1 DEF FileNames, Bench!inputfile, Bench!outputfile
  <2>4. os.file = <<>> /\ os.named = [testfile1234 |-> 0, testfile2345 |-> 0]
    BY <1>1
  <2>5. os \in BenchFiles
    BY <1>1, <2>1, <2>2 DEF BenchFiles
  <2>6. Len(os.file) = 0
    BY <2>4
  <2> QED BY <2>3, <2>4, <2>5, <2>6 DEF FilesApart, Infile, FileNames
<1>5. BenchTypes
  <2>1. at \in [Bench!Actors -> BenchPlaces \cup ChildPlaces]
    BY <1>1 DEF BenchPlaces, ChildPlaces
  <2>2. \A b \in Benches : at[b] \in BenchPlaces /\ at[Bench!Program(b)] \in ChildPlaces
    BY <1>2 DEF BenchPlaces, ChildPlaces
  <2>3. local \in BenchLocals /\ \A b \in Benches : local.ifd[b] <= Len(os.file)
    BY <1>1, <1>3, <1>4 DEF BenchLocals
  <2>4. sent \in [Benches -> Seq(Nat)] /\ got \in [Benches -> Seq(Nat)]
    BY <1>1
  <2> QED BY <1>4, <2>1, <2>2, <2>3, <2>4 DEF BenchTypes
<1>6. ASSUME NEW b \in Benches PROVE ChildWaited(b) /\ BenchKept(b)
  <2>1. ChildWaited(b)
    BY <1>1, <1>2 DEF ChildWaited
  <2>2. ~Bench!Running(b)
    BY <1>2 DEF Bench!Running
  <2> QED BY <1>2, <2>1, <2>2 DEF BenchKept
<1> QED BY <1>5, <1>6 DEF BenchOrder

\* An input is a text of two halves, and says of which test it is.
LEMMA InputText ==
  ASSUME NEW t \in Nat
  PROVE  /\ Bench!Input(t) \in Texts /\ Len(Bench!Input(t)) = 2 /\ Bench!Input(t)[1][1] = t
<1>1. PICK a, b : a = <<t, "first half">> /\ b = <<t, "second half">>
  OBVIOUS
<1>2. PICK S : S = Nat \X Halves
  OBVIOUS
<1>3. a \in S /\ b \in S /\ a[1] = t
  BY <1>1, <1>2 DEF Halves
<1>4. <<a, b>> \in Seq(S) /\ Len(<<a, b>>) = 2 /\ <<a, b>>[1] = a
  BY <1>3
<1>5. Bench!Input(t) = <<a, b>>
  BY <1>1 DEF Bench!Input
<1> QED BY <1>2, <1>3, <1>4, <1>5 DEF Texts

\* What a write at the start of a file leaves is a text, and all there is in an empty file.
LEMMA OverwrittenText ==
  ASSUME NEW text \in Texts, NEW old \in Texts
  PROVE  Bench!Overwrite(text, old) \in Texts /\ (old = <<>> => Bench!Overwrite(text, old) = text)
<1>1. PICK S : S = Nat \X Halves
  OBVIOUS
<1>2. text \in Seq(S) /\ old \in Seq(S) /\ Len(text) \in Nat /\ Len(old) \in Nat
  BY <1>1, LenProperties DEF Texts
<1>3. PICK rest : rest = SubSeq(old, Len(text) + 1, Len(old))
  OBVIOUS
<1>4. rest \in Seq(S) /\ Len(rest) = IF Len(text) + 1 <= Len(old) THEN Len(old) - (Len(text) + 1) + 1 ELSE 0
  <2>1. \A i \in Len(text) + 1 .. Len(old) : i \in 1 .. Len(old)
    BY <1>2
  <2>2. \A i \in Len(text) + 1 .. Len(old) : old[i] \in S
    BY <1>2, <2>1, ElementOfSeq
  <2>3. Len(text) + 1 \in Int /\ Len(old) \in Int
    BY <1>2
  <2> QED BY <1>3, <2>2, <2>3, SubSeqProperties
<1>5. text \o rest \in Seq(S)
  BY <1>2, <1>4, ConcatProperties
<1>6. old = <<>> => text \o rest = text
  <2>1. ASSUME old = <<>> PROVE text \o rest = text
    <3>1. Len(old) = 0
      BY <2>1
    <3>2. Len(rest) = 0
      BY <1>2, <1>4, <3>1
    <3>3. rest = <<>>
      BY <1>4, <3>2, EmptySeq
    <3> QED BY <1>2, <3>3, ConcatEmptySeq
  <2> QED BY <2>1
<1> QED BY <1>1, <1>3, <1>5, <1>6 DEF Bench!Overwrite, Texts

\* A file that is opened with O_CREAT and O_TRUNC is there, empty, and the file of no other name.
LEMMA TruncatedFile ==
  ASSUME os \in BenchFiles, FilesApart, NEW name \in FileNames
  PROVE  \E k \in Nat \ {0} :
           /\ Bench!Truncated(name) \in BenchFiles
           /\ Bench!Truncated(name).named = [os.named EXCEPT ![name] = k]
           /\ Bench!Truncated(name).file[k] = <<>> /\ k <= Len(Bench!Truncated(name).file)
           /\ Len(os.file) <= Len(Bench!Truncated(name).file)
           /\ \A m \in FileNames \ {name} : os.named[m] # k
           /\ \A j \in 1 .. Len(os.file) : j # k => Bench!Truncated(name).file[j] = os.file[j]
<1>1. os.file \in Seq(Texts) /\ os.named \in [FileNames -> Nat] /\ <<>> \in Texts
  BY DEF BenchFiles, Texts
<1>2. PICK l \in Nat : l = Len(os.file)
  BY <1>1, LenProperties
<1>3. /\ \A m \in FileNames : os.named[m] \in Nat /\ os.named[m] <= l
      /\ os.named[Bench!inputfile] # 0 => os.named[Bench!inputfile] # os.named[Bench!outputfile]
  BY <1>1, <1>2 DEF FilesApart, Infile, Outfile
<1>4. CASE os.named[name] = 0
  <2>1. PICK more : more = Append(os.file, <<>>)
    OBVIOUS
  <2>2. more \in Seq(Texts) /\ Len(more) = l + 1 /\ (\A j \in 1 .. l : more[j] = os.file[j]) /\ more[l + 1] = <<>>
    BY <1>1, <1>2, <2>1, OneMore
  <2>3. Bench!Created(name) = [os EXCEPT !.file = more, !.named[name] = l + 1]
    BY <1>2, <1>4, <2>1 DEF Bench!Created
  <2>4. [os.named EXCEPT ![name] = l + 1] \in [FileNames -> Nat] /\ [os.named EXCEPT ![name] = l + 1][name] = l + 1
    BY <1>1
  <2>5. /\ Bench!Created(name).file = more /\ Bench!Created(name).named = [os.named EXCEPT ![name] = l + 1]
        /\ Bench!Created(name) \in BenchFiles
    BY <2>2, <2>3, <2>4 DEF BenchFiles
  <2>6. [more EXCEPT ![l + 1] = <<>>] = more
    BY <2>2
  <2>7. Bench!Truncated(name) = [Bench!Created(name) EXCEPT !.file = more]
    BY <2>4, <2>5, <2>6 DEF Bench!Truncated
  <2>8. Bench!Truncated(name) = Bench!Created(name)
    BY <2>5, <2>7 DEF BenchFiles
  <2>9. \A m \in FileNames : os.named[m] # l + 1
    BY <1>3
  <2>10. PICK k \in Nat \ {0} : k = l + 1
    OBVIOUS
  <2>11. PICK opened : opened = Bench!Truncated(name) /\ opened \in BenchFiles /\ opened.file = more
                       /\ opened.named = [os.named EXCEPT ![name] = k]
    BY <2>5, <2>8, <2>10
  <2>12. /\ more[k] = <<>> /\ k <= Len(more) /\ Len(os.file) <= Len(more)
         /\ \A j \in 1 .. Len(os.file) : more[j] = os.file[j]
    BY <1>2, <2>2, <2>10
  <2> QED BY <2>9, <2>10, <2>11, <2>12
<1>5. CASE os.named[name] # 0
  <2>1. PICK k \in 1 .. l : k = os.named[name]
    BY <1>3, <1>5
  <2>2. PICK emptied : emptied = [os.file EXCEPT ![k] = <<>>]
    OBVIOUS
  <2>3. /\ emptied \in Seq(Texts) /\ Len(emptied) = l /\ emptied[k] = <<>>
        /\ \A j \in 1 .. l : j # k => emptied[j] = os.file[j]
    BY <1>1, <1>2, <2>1, <2>2, ExceptSeq
  <2>4. Bench!Truncated(name) = [os EXCEPT !.file = emptied]
    BY <1>5, <2>1, <2>2 DEF Bench!Truncated, Bench!Created
  <2>5. /\ Bench!Truncated(name) \in BenchFiles /\ Bench!Truncated(name).file = emptied
        /\ Bench!Truncated(name).named = os.named
    BY <2>3, <2>4 DEF BenchFiles
  <2>6. os.named = [os.named EXCEPT ![name] = k]
    BY <1>1, <2>1
  <2>7. \A m \in FileNames \ {name} : os.named[m] # k
    BY <1>3, <1>5, <2>1 DEF FileNames
  <2>8. k \in Nat \ {0} /\ k <= l
    BY <2>1
  <2>9. Bench!Truncated(name).named = [os.named EXCEPT ![name] = k]
    BY <2>5, <2>6
  <2>10. /\ Bench!Truncated(name).file[k] = <<>> /\ k <= Len(Bench!Truncated(name).file)
         /\ Len(os.file) <= Len(Bench!Truncated(name).file)
         /\ \A j \in 1 .. Len(os.file) : j # k => Bench!Truncated(name).file[j] = os.file[j]
    BY <1>2, <2>3, <2>5, <2>8
  <2> QED BY <2>5, <2>7, <2>8, <2>9, <2>10
<1> QED BY <1>4, <1>5

\* One that is opened with O_CREAT alone is the same as it was, or new and empty.
LEMMA CreatedFile ==
  ASSUME os \in BenchFiles, FilesApart, NEW name \in FileNames
  PROVE  Bench!Created(name) \in {os, Bench!Truncated(name)}
<1>1. CASE os.named[name] # 0
  BY <1>1 DEF Bench!Created
<1>2. CASE os.named[name] = 0
  <2>1. os.file \in Seq(Texts) /\ <<>> \in Texts /\ os.named \in [FileNames -> Nat]
    BY DEF BenchFiles, Texts
  <2>2. PICK l \in Nat : l = Len(os.file)
    BY <2>1, LenProperties
  <2>3. PICK more : more = Append(os.file, <<>>)
    OBVIOUS
  <2>4. more \in Seq(Texts) /\ more[l + 1] = <<>>
    BY <2>1, <2>2, <2>3, OneMore
  <2>5. Bench!Created(name) = [os EXCEPT !.file = more, !.named[name] = l + 1]
    BY <1>2, <2>2, <2>3 DEF Bench!Created
  <2>6. [os.named EXCEPT ![name] = l + 1] \in [FileNames -> Nat] /\ [os.named EXCEPT ![name] = l + 1][name] = l + 1
    BY <2>1
  <2>7. /\ Bench!Created(name).file = more /\ Bench!Created(name).named = [os.named EXCEPT ![name] = l + 1]
        /\ Bench!Created(name) \in BenchFiles
    BY <2>4, <2>5, <2>6 DEF BenchFiles
  <2>8. [more EXCEPT ![l + 1] = <<>>] = more
    BY <2>4
  <2>9. Bench!Truncated(name) = [Bench!Created(name) EXCEPT !.file = more]
    BY <2>6, <2>7, <2>8 DEF Bench!Truncated
  <2> QED BY <2>7, <2>9 DEF BenchFiles
<1> QED BY <1>1, <1>2

\* Lengths that grow.
LEMMA Longer == \A x, y, z \in Nat : x <= x /\ 0 <= x /\ (x <= y /\ y <= z => x <= z)
OBVIOUS

\* A bench that is over, or has run with another, is the same whatever another does.
LEMMA OthersKept ==
  ASSUME BenchOrder, NEW d \in Benches, Bench!Running(d), NEW b \in Benches, b # d,
         at'[b] = at[b], at'[Bench!Program(b)] = at[Bench!Program(b)], local'.test[b] = local.test[b],
         local'.overlapped[b] = local.overlapped[b], local'.kept[b] = local.kept[b],
         sent'[b] = sent[b], got'[b] = got[b]
  PROVE  ChildWaited(b)' /\ BenchKept(b)'
<1>1. ChildWaited(b)'
  BY DEF BenchOrder, ChildWaited
<1>2. ASSUME ~Disturbed(b) PROVE ~Bench!Running(b)
  <2> SUFFICES ASSUME Bench!Running(b) PROVE FALSE
    OBVIOUS
  <2>1. Alone(b)
    BY <1>2 DEF BenchOrder, BenchKept
  <2> QED BY <2>1 DEF Alone
<1>3. Bench!Running(b)' <=> Bench!Running(b)
  BY DEF Bench!Running
<1>4. Disturbed(b)' <=> Disturbed(b)
  BY DEF Disturbed
<1> QED BY <1>1, <1>2, <1>3, <1>4 DEF BenchOrder, BenchKept

\* A step of bench d, or of its child, leaves the other benches alone.
BenchAside(d) ==
  /\ \A b \in Benches \ {d} :
       /\ at'[b] = at[b] /\ at'[Bench!Program(b)] = at[Bench!Program(b)]
       /\ local'.test[b] = local.test[b] /\ local'.ifd[b] = local.ifd[b]
       /\ local'.kept[b] = local.kept[b] /\ sent'[b] = sent[b] /\ got'[b] = got[b]
  /\ local'.overlapped = local.overlapped /\ (local.kept[d] => local'.kept[d])

\* Hence only bench d is left to show.
LEMMA BenchGoes ==
  ASSUME BenchOrder, NEW d \in Benches, Bench!Running(d), BenchAside(d),
         BenchTypes', ChildWaited(d)', ~Disturbed(d) => BenchKept(d)'
  PROVE  BenchOrder'
<1>1. ASSUME NEW b \in Benches, b # d PROVE ChildWaited(b)' /\ BenchKept(b)'
  <2>1. /\ at'[b] = at[b] /\ at'[Bench!Program(b)] = at[Bench!Program(b)] /\ local'.test[b] = local.test[b]
        /\ local'.overlapped[b] = local.overlapped[b] /\ local'.kept[b] = local.kept[b]
        /\ sent'[b] = sent[b] /\ got'[b] = got[b]
    BY <1>1 DEF BenchAside
  <2> QED BY <1>1, <2>1, OthersKept
<1>2. BenchKept(d)'
  <2>1. Disturbed(d) => Disturbed(d)'
    BY DEF BenchAside, Disturbed
  <2> QED BY <2>1 DEF BenchKept
<1> QED BY <1>1, <1>2 DEF BenchOrder

\* Nobody else runs after a step of a bench that runs alone.
LEMMA AloneStays ==
  ASSUME NEW d \in Benches, Alone(d), BenchAside(d)
  PROVE  \A b \in Benches : Bench!Running(b)' => b = d
BY DEF Alone, BenchAside, Bench!Running

\* A step of one process of bench d changes the place of no other.
LEMMA OneGoes ==
  ASSUME at \in [Bench!Actors -> BenchPlaces \cup ChildPlaces], NEW p \in Bench!Actors, NEW to, at' = [at EXCEPT ![p] = to]
  PROVE  at'[p] = to /\ \A q \in Bench!Actors : q # p => at'[q] = at[q]
OBVIOUS

\* The places of a bench and its child are theirs.
LEMMA PlacesKept ==
  ASSUME BenchTypes, NEW p \in Bench!Actors, NEW to, at' = [at EXCEPT ![p] = to],
         p \in Benches => to \in BenchPlaces, p \notin Benches => to \in ChildPlaces
  PROVE  /\ at' \in [Bench!Actors -> BenchPlaces \cup ChildPlaces]
         /\ \A b \in Benches : at'[b] \in BenchPlaces /\ at'[Bench!Program(b)] \in ChildPlaces
<1>1. at \in [Bench!Actors -> BenchPlaces \cup ChildPlaces]
  BY DEF BenchTypes
<1>2. at' \in [Bench!Actors -> BenchPlaces \cup ChildPlaces]
  BY <1>1
<1>3. ASSUME NEW b \in Benches PROVE at'[b] \in BenchPlaces
  BY <1>1, <1>3, BenchProcesses DEF BenchTypes
<1>4. ASSUME NEW b \in Benches PROVE at'[Bench!Program(b)] \in ChildPlaces
  BY <1>1, <1>4, BenchProcesses DEF BenchTypes
<1> QED BY <1>2, <1>3, <1>4

\* What a step that keeps the files, the locals and what was made and copied keeps of its types.
LEMMA TypesKept ==
  ASSUME BenchTypes, NEW p \in Bench!Actors, NEW to, at' = [at EXCEPT ![p] = to],
         p \in Benches => to \in BenchPlaces, p \notin Benches => to \in ChildPlaces,
         UNCHANGED <<os, local, sent, got>>
  PROVE  BenchTypes'
<1>1. /\ at' \in [Bench!Actors -> BenchPlaces \cup ChildPlaces]
      /\ \A b \in Benches : at'[b] \in BenchPlaces /\ at'[Bench!Program(b)] \in ChildPlaces
  BY PlacesKept
<1>2. FilesApart'
  BY DEF BenchTypes, FilesApart, Infile, Outfile
<1> QED BY <1>1, <1>2 DEF BenchTypes

\* A bench begins: if no other runs it is alone, and if one does both know.
LEMMA BenchBegins ==
  ASSUME BenchOrder, NEW d \in Benches, Bench!Begin(d)
  PROVE  BenchOrder'
<1>1. d \in Bench!Actors /\ BenchTypes /\ ChildWaited(d)
  BY BenchProcesses DEF BenchOrder
<1>2. /\ at[d] = "start" /\ at' = [at EXCEPT ![d] = "generate"] /\ UNCHANGED <<os, sent, got>>
      /\ local' = [local EXCEPT !.overlapped =
            [b \in Benches |-> @[b] \/ (b = d /\ \E e \in Benches : Bench!Running(e)) \/ Bench!Running(b)]]
  BY DEF Bench!Begin, Bench!Go
<1>3. PICK more \in [Benches -> BOOLEAN] :
        more = [b \in Benches |-> local.overlapped[b] \/ (b = d /\ \E e \in Benches : Bench!Running(e)) \/ Bench!Running(b)]
  BY <1>1 DEF BenchTypes, BenchLocals
<1>4. local' = [local EXCEPT !.overlapped = more]
  BY <1>2, <1>3
<1>5. /\ local' \in BenchLocals /\ local'.test = local.test /\ local'.ifd = local.ifd /\ local'.kept = local.kept
      /\ \A b \in Benches : local'.overlapped[b] <=>
           local.overlapped[b] \/ (b = d /\ \E e \in Benches : Bench!Running(e)) \/ Bench!Running(b)
  BY <1>1, <1>3, <1>4 DEF BenchTypes, BenchLocals
<1>6. /\ at' \in [Bench!Actors -> BenchPlaces \cup ChildPlaces]
      /\ \A b \in Benches : at'[b] \in BenchPlaces /\ at'[Bench!Program(b)] \in ChildPlaces
  BY <1>1, <1>2, PlacesKept DEF BenchPlaces
<1>7. BenchTypes'
  <2>1. FilesApart'
    BY <1>1, <1>2 DEF BenchTypes, FilesApart, Infile, Outfile
  <2> QED BY <1>1, <1>2, <1>5, <1>6, <2>1 DEF BenchTypes
<1>8. at'[d] = "generate" /\ \A q \in Bench!Actors : q # d => at'[q] = at[q]
  BY <1>1, <1>2, OneGoes DEF BenchTypes
<1>9. /\ \A b \in Benches : at'[Bench!Program(b)] = at[Bench!Program(b)]
      /\ \A b \in Benches \ {d} : at'[b] = at[b]
  BY <1>8, BenchProcesses
<1>10. ASSUME NEW b \in Benches \ {d} PROVE ChildWaited(b)' /\ BenchKept(b)'
  <2>1. ChildWaited(b)'
    <3>1. ChildWaited(b)
      BY DEF BenchOrder
    <3>2. /\ at'[b] = at[b] /\ at'[Bench!Program(b)] = at[Bench!Program(b)]
          /\ local'.test[b] = local.test[b] /\ sent' = sent /\ got' = got
      BY <1>2, <1>5, <1>9
    <3> QED BY <3>1, <3>2 DEF ChildWaited
  <2>2. Bench!Running(b)' <=> Bench!Running(b)
    BY <1>9 DEF Bench!Running
  <2>3. Disturbed(b) \/ Bench!Running(b) <=> Disturbed(b)'
    BY <1>5 DEF Disturbed
  <2>4. BenchKept(b)'
    BY <1>2, <1>5, <1>9, <2>2, <2>3 DEF BenchOrder, BenchKept
  <2> QED BY <2>1, <2>4
<1>11. ChildWaited(d)'
  BY <1>1, <1>2, <1>8, <1>9 DEF ChildWaited
<1>12. BenchKept(d)'
  <2>1. ASSUME ~local'.overlapped[d] PROVE Alone(d)'
    <3>1. \A e \in Benches : ~Bench!Running(e)
      BY <1>5, <2>1
    <3>2. \A e \in Benches : Bench!Running(e)' => e = d
      BY <1>9, <3>1 DEF Bench!Running
    <3>3. sent[d] \in Seq(Nat) /\ got[d] \in Seq(Nat) /\ Len(sent[d]) = 0 /\ Len(got[d]) = 0 /\ local'.test[d] = 1
      BY <1>1, <1>2, <1>5 DEF BenchTypes, ChildWaited
    <3>4. Made(d)'
      <4>1. Counts(sent[d]) /\ Counts(got[d])
        BY <3>3 DEF Counts
      <4>2. Len(sent[d]) = local'.test[d] - 1 /\ Len(got[d]) = local'.test[d] - 1
        BY <3>3
      <4>3. sent' = sent /\ got' = got
        BY <1>2
      <4> QED BY <1>8, <4>1, <4>2, <4>3 DEF Made
    <3>5. Files(d)'
      BY <1>8 DEF Files
    <3> QED BY <1>8, <3>2, <3>4, <3>5 DEF Alone
  <2> QED BY <1>8, <2>1 DEF BenchKept, Disturbed
<1> QED BY <1>7, <1>10, <1>11, <1>12 DEF BenchOrder

\* What is written over the text of a file; that of no other file.
LEMMA WrittenFile ==
  ASSUME os \in BenchFiles, FilesApart, NEW k \in Nat, NEW text \in Texts,
         os' = [os EXCEPT !.file[k] = Bench!Overwrite(text, @)]
  PROVE  /\ os' \in BenchFiles /\ FilesApart' /\ os'.named = os.named /\ Len(os'.file) = Len(os.file)
         /\ k # 0 /\ k <= Len(os.file) /\ os.file[k] = <<>> => os'.file[k] = text
         /\ \A j \in 1 .. Len(os.file) : j # k => os'.file[j] = os.file[j]
<1>1. os.file \in Seq(Texts) /\ os.named \in [FileNames -> Nat]
  BY DEF BenchFiles
<1>2. PICK l \in Nat : l = Len(os.file) /\ DOMAIN os.file = 1 .. l
  BY <1>1, LenProperties
<1>3. PICK new : new = [os.file EXCEPT ![k] = Bench!Overwrite(text, os.file[k])]
  OBVIOUS
<1>4. os' = [os EXCEPT !.file = new]
  BY <1>3
<1>5. /\ new \in Seq(Texts) /\ Len(new) = l /\ \A j \in 1 .. l : j # k => new[j] = os.file[j]
      /\ k \in 1 .. l /\ os.file[k] = <<>> => new[k] = text
  <2>1. CASE k \in 1 .. l
    <3>1. os.file[k] \in Texts
      BY <1>1, <1>2, <2>1, ElementOfSeq
    <3>2. PICK written \in Texts : written = Bench!Overwrite(text, os.file[k]) /\ (os.file[k] = <<>> => written = text)
      BY <3>1, OverwrittenText
    <3>3. new = [os.file EXCEPT ![k] = written]
      BY <1>3, <3>2
    <3>4. /\ [os.file EXCEPT ![k] = written] \in Seq(Texts) /\ Len([os.file EXCEPT ![k] = written]) = Len(os.file)
          /\ \A j \in 1 .. Len(os.file) : [os.file EXCEPT ![k] = written][j] = IF j = k THEN written ELSE os.file[j]
      BY <1>1, <1>2, <2>1, ExceptSeq
    <3> QED BY <1>2, <2>1, <3>2, <3>3, <3>4
  <2>2. CASE k \notin 1 .. l
    <3>1. new = os.file
      BY <1>1, <1>2, <1>3, <2>2
    <3> QED BY <1>1, <1>2, <2>2, <3>1
  <2> QED BY <2>1, <2>2
<1>6. os' \in BenchFiles /\ os'.file = new /\ os'.named = os.named
  BY <1>1, <1>4, <1>5 DEF BenchFiles
<1>7. FilesApart'
  BY <1>2, <1>5, <1>6 DEF FilesApart, Infile, Outfile
<1>8. k # 0 /\ k <= l => k \in 1 .. l
  OBVIOUS
<1> QED BY <1>2, <1>5, <1>6, <1>7, <1>8

\* A bench that runs and has not overlapped with another runs alone.
LEMMA RunsAlone ==
  ASSUME BenchOrder, NEW d \in Benches, Bench!Running(d), ~Disturbed(d)
  PROVE  Alone(d)
BY DEF BenchOrder, BenchKept

\* A file that is opened with O_CREAT and O_TRUNC, and what its bench knows then.
LEMMA FileOpened ==
  ASSUME BenchTypes, NEW name \in FileNames, os' = Bench!Truncated(name)
  PROVE  /\ os' \in BenchFiles /\ FilesApart' /\ Len(os.file) <= Len(os'.file)
         /\ os'.named[name] \in Nat \ {0} /\ os'.named[name] <= Len(os'.file) /\ os'.file[os'.named[name]] = <<>>
         /\ \A m \in FileNames \ {name} :
              /\ os'.named[m] = os.named[m]
              /\ os.named[m] # 0 => os'.file[os.named[m]] = os.file[os.named[m]]
<1>1. os \in BenchFiles /\ FilesApart
  BY DEF BenchTypes
<1>2. PICK k \in Nat \ {0} :
        /\ os' \in BenchFiles /\ os'.named = [os.named EXCEPT ![name] = k]
        /\ os'.file[k] = <<>> /\ k <= Len(os'.file) /\ Len(os.file) <= Len(os'.file)
        /\ \A m \in FileNames \ {name} : os.named[m] # k
        /\ \A j \in 1 .. Len(os.file) : j # k => os'.file[j] = os.file[j]
  BY <1>1, TruncatedFile
<1>3. /\ os.named \in [FileNames -> Nat] /\ os'.named[name] = k /\ Len(os.file) \in Nat /\ Len(os'.file) \in Nat
      /\ \A m \in FileNames \ {name} : os'.named[m] = os.named[m]
  BY <1>1, <1>2, LenProperties DEF BenchFiles
<1>4. \A m \in FileNames : os.named[m] \in Nat /\ os.named[m] <= Len(os.file)
  BY <1>1, <1>3 DEF FilesApart
<1>5. \A m \in FileNames : os'.named[m] <= Len(os'.file)
  <2> TAKE m \in FileNames
  <2>1. CASE m = name
    BY <1>2, <1>3, <2>1
  <2>2. CASE m # name
    <3>1. os'.named[m] = os.named[m] /\ os.named[m] \in Nat /\ os.named[m] <= Len(os.file)
      BY <1>3, <1>4, <2>2
    <3> QED BY <1>2, <1>3, <3>1
  <2> QED BY <2>1, <2>2
<1>6. FilesApart'
  <2>1. os'.named[Bench!inputfile] # 0 => os'.named[Bench!inputfile] # os'.named[Bench!outputfile]
    <3>1. CASE name = Bench!inputfile
      BY <1>2, <1>3, <3>1 DEF FileNames, Bench!inputfile, Bench!outputfile
    <3>2. CASE name = Bench!outputfile
      BY <1>2, <1>3, <3>2 DEF FileNames, Bench!inputfile, Bench!outputfile
    <3> QED BY <3>1, <3>2 DEF FileNames
  <2> QED BY <1>5, <2>1 DEF FilesApart, Infile, Outfile
<1>7. ASSUME NEW m \in FileNames \ {name}, os.named[m] # 0 PROVE os'.file[os.named[m]] = os.file[os.named[m]]
  <2>1. os.named[m] \in 1 .. Len(os.file) /\ os.named[m] # k
    BY <1>2, <1>3, <1>4, <1>7
  <2> QED BY <1>2, <2>1
<1> QED BY <1>2, <1>3, <1>6, <1>7

\* The bench opens its input.
LEMMA BenchCreates ==
  ASSUME BenchOrder, NEW d \in Benches, at[d] = "generate", at' = [at EXCEPT ![d] = "write"],
         os' = Bench!Truncated(Bench!inputfile),
         local' = [local EXCEPT !.ifd[d] = os'.named[Bench!inputfile]], UNCHANGED <<sent, got>>
  PROVE  BenchOrder'
<1>1. d \in Bench!Actors /\ BenchTypes /\ ChildWaited(d) /\ Bench!Running(d)
  BY BenchProcesses DEF BenchOrder, Bench!Running, Bench!Over
<1>2. /\ at' \in [Bench!Actors -> BenchPlaces \cup ChildPlaces]
      /\ \A b \in Benches : at'[b] \in BenchPlaces /\ at'[Bench!Program(b)] \in ChildPlaces
  BY <1>1, PlacesKept DEF BenchPlaces
<1>3. at'[d] = "write" /\ \A q \in Bench!Actors : q # d => at'[q] = at[q]
  BY <1>1, OneGoes DEF BenchTypes
<1>4. /\ os' \in BenchFiles /\ FilesApart' /\ Len(os.file) <= Len(os'.file)
      /\ os'.named[Bench!inputfile] \in Nat \ {0} /\ os'.named[Bench!inputfile] <= Len(os'.file)
      /\ os'.file[os'.named[Bench!inputfile]] = <<>>
  BY <1>1, FileOpened DEF FileNames
<1>5. /\ local' \in BenchLocals /\ local'.test = local.test /\ local'.overlapped = local.overlapped
      /\ local'.kept = local.kept /\ local'.ifd[d] = os'.named[Bench!inputfile] /\ \A b \in Benches : b # d => local'.ifd[b] = local.ifd[b]
  BY <1>1, <1>4 DEF BenchTypes, BenchLocals
<1>6. BenchTypes'
  <2>1. ASSUME NEW b \in Benches PROVE local'.ifd[b] <= Len(os'.file)
    <3>1. local.ifd[b] \in Nat /\ local.ifd[b] <= Len(os.file) /\ Len(os.file) \in Nat /\ Len(os'.file) \in Nat
      BY <1>1, <1>4, LenProperties DEF BenchTypes, BenchLocals, BenchFiles
    <3>2. local.ifd[b] <= Len(os'.file)
      BY <1>4, <3>1
    <3> QED BY <1>4, <1>5, <3>2
  <2> QED BY <1>1, <1>2, <1>4, <1>5, <2>1 DEF BenchTypes
<1>7. BenchAside(d)
  BY <1>3, <1>5, BenchProcesses DEF BenchAside
<1>8. ChildWaited(d)'
  BY <1>1, <1>3, BenchProcesses DEF ChildWaited
<1>9. ASSUME ~Disturbed(d) PROVE BenchKept(d)'
  <2>1. Alone(d)
    BY <1>1, <1>9, RunsAlone
  <2>2. Made(d)'
    BY <1>3, <1>5, <2>1 DEF Alone, Made
  <2>3. Files(d)'
    BY <1>3, <1>4, <1>5 DEF Files, Infile
  <2>4. Alone(d)'
    BY <1>3, <1>7, <2>1, <2>2, <2>3, AloneStays DEF Alone
  <2> QED BY <1>3, <2>4 DEF BenchKept
<1> QED BY <1>1, <1>6, <1>7, <1>8, <1>9, BenchGoes

\* It writes its input, into the file it has opened.
LEMMA BenchWrites ==
  ASSUME BenchOrder, NEW d \in Benches, at[d] = "write", at' = [at EXCEPT ![d] = "fork"],
         os' = [os EXCEPT !.file[local.ifd[d]] = Bench!Overwrite(Bench!Input(local.test[d]), @)],
         sent' = [sent EXCEPT ![d] = Append(@, local.test[d])], UNCHANGED <<local, got>>
  PROVE  BenchOrder'
<1>1. d \in Bench!Actors /\ BenchTypes /\ ChildWaited(d) /\ Bench!Running(d)
  BY BenchProcesses DEF BenchOrder, Bench!Running, Bench!Over
<1>2. /\ at' \in [Bench!Actors -> BenchPlaces \cup ChildPlaces]
      /\ \A b \in Benches : at'[b] \in BenchPlaces /\ at'[Bench!Program(b)] \in ChildPlaces
  BY <1>1, PlacesKept DEF BenchPlaces
<1>3. at'[d] = "fork" /\ \A q \in Bench!Actors : q # d => at'[q] = at[q]
  BY <1>1, OneGoes DEF BenchTypes
<1>4. PICK t \in Nat : t = local.test[d]
  BY <1>1 DEF BenchTypes, BenchLocals
<1>5. PICK k \in Nat : k = local.ifd[d]
  BY <1>1 DEF BenchTypes, BenchLocals
<1>6. /\ os' \in BenchFiles /\ FilesApart' /\ os'.named = os.named /\ Len(os'.file) = Len(os.file)
      /\ k # 0 /\ k <= Len(os.file) /\ os.file[k] = <<>> => os'.file[k] = Bench!Input(t)
  <2>1. os \in BenchFiles /\ FilesApart /\ Bench!Input(t) \in Texts
    BY <1>1, InputText DEF BenchTypes
  <2>2. os' = [os EXCEPT !.file[k] = Bench!Overwrite(Bench!Input(t), @)]
    BY <1>4, <1>5
  <2> QED BY <2>1, <2>2, WrittenFile, Zenon
<1>7. /\ sent[d] \in Seq(Nat) /\ sent' = [sent EXCEPT ![d] = Append(sent[d], t)] /\ Append(sent[d], t) \in Seq(Nat)
  BY <1>1, <1>4, OneMore DEF BenchTypes
<1>8. /\ sent' \in [Benches -> Seq(Nat)] /\ sent'[d] = Append(sent[d], t)
      /\ \A b \in Benches : b # d => sent'[b] = sent[b]
  BY <1>1, <1>7 DEF BenchTypes
<1>9. BenchTypes'
  BY <1>1, <1>2, <1>6, <1>8 DEF BenchTypes
<1>10. BenchAside(d)
  BY <1>3, <1>8, BenchProcesses DEF BenchAside
<1>11. ChildWaited(d)'
  BY <1>1, <1>3, BenchProcesses DEF ChildWaited
<1>12. ASSUME ~Disturbed(d) PROVE BenchKept(d)'
  <2>1. Alone(d)
    BY <1>1, <1>12, RunsAlone
  <2>2. Counts(sent[d]) /\ Counts(got[d]) /\ Len(sent[d]) = t - 1 /\ Len(got[d]) = t - 1
    BY <1>4, <2>1 DEF Alone, Made
  <2>3. Counts(sent'[d]) /\ Len(sent'[d]) = t
    <3>1. Len(sent[d]) + 1 = t
      BY <1>4, <2>2
    <3>2. /\ Len(Append(sent[d], Len(sent[d]) + 1)) = Len(sent[d]) + 1
          /\ Counts(Append(sent[d], Len(sent[d]) + 1))
      BY <1>7, <2>2, CountsAppend
    <3> QED BY <1>8, <3>1, <3>2
  <2>4. Made(d)'
    BY <1>3, <1>4, <2>2, <2>3 DEF Made
  <2>5. Infile # 0 /\ k = Infile /\ os.file[k] = <<>> /\ k <= Len(os.file) /\ Infile' = Infile
    BY <1>1, <1>5, <1>6, <2>1 DEF Alone, Files, Infile, BenchTypes, FilesApart, FileNames
  <2>6. os'.file[Infile'] = Bench!Input(t)
    BY <1>6, <2>5
  <2>7. Files(d)'
    BY <1>3, <1>4, <2>5, <2>6 DEF Files
  <2>8. Alone(d)'
    BY <1>3, <1>10, <2>1, <2>4, <2>7, AloneStays DEF Alone
  <2> QED BY <1>3, <2>8 DEF BenchKept
<1> QED BY <1>1, <1>9, <1>10, <1>11, <1>12, BenchGoes

\* A bench or its child goes on, and nothing else changes.
LEMMA BenchPlaced ==
  ASSUME BenchOrder, NEW d \in Benches, Bench!Running(d), NEW p \in {d, Bench!Program(d)}, NEW to,
         at' = [at EXCEPT ![p] = to], p \in Benches => to \in BenchPlaces, p \notin Benches => to \in ChildPlaces,
         UNCHANGED <<os, local, sent, got>>, ChildWaited(d)', ~Disturbed(d) /\ Alone(d) => BenchKept(d)'
  PROVE  BenchOrder'
<1>1. p \in Bench!Actors /\ BenchTypes
  BY BenchProcesses DEF BenchOrder
<1>2. BenchTypes'
  BY <1>1, TypesKept
<1>3. \A q \in Bench!Actors : q # p => at'[q] = at[q]
  BY <1>1, OneGoes DEF BenchTypes
<1>4. BenchAside(d)
  BY <1>3, BenchProcesses DEF BenchAside
<1> QED BY <1>2, <1>4, RunsAlone, BenchGoes

\* fork.
LEMMA BenchForks ==
  ASSUME BenchOrder, NEW d \in Benches, Bench!Fork(d)
  PROVE  BenchOrder'
<1>1. /\ d \in Bench!Actors /\ Bench!Program(d) \in Bench!Actors /\ d # Bench!Program(d)
      /\ BenchTypes /\ ChildWaited(d) /\ at[d] = "fork" /\ Bench!Running(d) /\ UNCHANGED <<os, local, sent, got>>
  BY BenchProcesses DEF BenchOrder, Bench!Running, Bench!Over, Bench!Fork
<1>2. CASE at' = [at EXCEPT ![d] = "failed"]
  <2>1. at'[d] = "failed" /\ at'[Bench!Program(d)] = at[Bench!Program(d)]
    BY <1>1, <1>2, OneGoes DEF BenchTypes
  <2>2. ChildWaited(d)'
    BY <1>1, <2>1 DEF ChildWaited
  <2>3. BenchKept(d)'
    BY <2>1 DEF BenchKept, Bench!Running, Bench!Over
  <2> QED BY <1>1, <1>2, <2>2, <2>3, BenchPlaced DEF BenchPlaces
<1>3. CASE at' = [at EXCEPT ![d] = "wait", ![Bench!Program(d)] = "open input"]
  <2>1. at \in [Bench!Actors -> BenchPlaces \cup ChildPlaces]
    BY <1>1 DEF BenchTypes
  <2>2. /\ at' \in [Bench!Actors -> BenchPlaces \cup ChildPlaces]
        /\ at'[d] = "wait" /\ at'[Bench!Program(d)] = "open input"
        /\ \A q \in Bench!Actors : q # d /\ q # Bench!Program(d) => at'[q] = at[q]
    BY <1>1, <1>3, <2>1 DEF BenchPlaces, ChildPlaces
  <2>3. \A b \in Benches : b # d => at'[b] = at[b] /\ at'[Bench!Program(b)] = at[Bench!Program(b)]
    BY <2>2, BenchProcesses
  <2>4. \A b \in Benches : at'[b] \in BenchPlaces /\ at'[Bench!Program(b)] \in ChildPlaces
    BY <1>1, <2>2, <2>3 DEF BenchTypes, BenchPlaces, ChildPlaces
  <2>5. FilesApart'
    BY <1>1 DEF BenchTypes, FilesApart, Infile, Outfile
  <2>6. BenchTypes'
    BY <1>1, <2>2, <2>4, <2>5 DEF BenchTypes
  <2>7. BenchAside(d)
    BY <1>1, <2>3 DEF BenchAside
  <2>8. ChildWaited(d)'
    BY <2>2 DEF ChildWaited
  <2>9. ASSUME ~Disturbed(d) PROVE BenchKept(d)'
    <3>1. Alone(d)
      BY <1>1, <2>9, RunsAlone
    <3>2. Made(d)'
      BY <1>1, <2>2, <3>1 DEF Alone, Made
    <3>3. Files(d)'
      BY <1>1, <2>2, <3>1 DEF Alone, Files, Infile
    <3>4. Child(d)'
      BY <1>1, <2>2, <3>1 DEF Alone, Made, Child
    <3>5. Alone(d)'
      BY <2>7, <3>1, <3>2, <3>3, <3>4, AloneStays DEF Alone
    <3> QED BY <2>2, <3>5 DEF BenchKept
  <2> QED BY <1>1, <2>6, <2>7, <2>8, <2>9, BenchGoes
<1> QED BY <1>2, <1>3 DEF Bench!Fork

\* waitpid.
LEMMA BenchWaits ==
  ASSUME BenchOrder, NEW d \in Benches, Bench!Wait(d)
  PROVE  BenchOrder'
<1>1. /\ d \in Bench!Actors /\ Bench!Program(d) \in Bench!Actors /\ d # Bench!Program(d)
      /\ BenchTypes /\ ChildWaited(d) /\ at[d] = "wait" /\ Bench!Running(d) /\ UNCHANGED <<os, local, sent, got>>
  BY BenchProcesses DEF BenchOrder, Bench!Running, Bench!Over, Bench!Wait, Bench!Go
<1>2. CASE at' = [at EXCEPT ![d] = "failed"] /\ at[Bench!Program(d)] = "exit not 0"
  <2>1. at'[d] = "failed" /\ at'[Bench!Program(d)] = at[Bench!Program(d)]
    BY <1>1, <1>2, OneGoes DEF BenchTypes
  <2>2. ChildWaited(d)'
    BY <1>2, <2>1 DEF ChildWaited
  <2>3. BenchKept(d)'
    BY <2>1 DEF BenchKept, Bench!Running, Bench!Over
  <2> QED BY <1>1, <1>2, <2>2, <2>3, BenchPlaced DEF BenchPlaces
<1>3. CASE at' = [at EXCEPT ![d] = "compare"] /\ at[Bench!Program(d)] = "exit 0"
  <2>1. /\ at'[d] = "compare" /\ at'[Bench!Program(d)] = at[Bench!Program(d)]
        /\ \A q \in Bench!Actors : q # d => at'[q] = at[q]
    BY <1>1, <1>3, OneGoes DEF BenchTypes
  <2>2. ChildWaited(d)'
    BY <1>3, <2>1 DEF ChildWaited
  <2>3. ASSUME Alone(d) PROVE BenchKept(d)'
    <3>1. Outcome(d)
      BY <1>1, <1>3, <2>3 DEF Alone, Child
    <3>2. Outcome(d)'
      BY <1>1, <3>1 DEF Outcome, Outfile
    <3>3. Made(d)'
      BY <1>1, <2>1, <2>3 DEF Alone, Made
    <3>4. Files(d)'
      BY <1>1, <2>1, <2>3, <3>2 DEF Alone, Files, Infile
    <3>5. BenchAside(d)
      BY <1>1, <2>1, BenchProcesses DEF BenchAside
    <3>6. Alone(d)'
      BY <2>1, <2>3, <3>3, <3>4, <3>5, AloneStays DEF Alone
    <3> QED BY <2>1, <3>6 DEF BenchKept
  <2> QED BY <1>1, <1>3, <2>2, <2>3, BenchPlaced DEF BenchPlaces
<1> QED BY <1>2, <1>3 DEF Bench!Wait, Bench!Go

\* compare_file: the files are there, and are equal when the input was copied.
LEMMA BenchCompares ==
  ASSUME BenchOrder, NEW d \in Benches, Bench!compare_file(d)
  PROVE  BenchOrder'
<1>1. /\ d \in Bench!Actors /\ Bench!Program(d) \in Bench!Actors /\ d # Bench!Program(d)
      /\ BenchTypes /\ ChildWaited(d) /\ at[d] = "compare" /\ Bench!Running(d) /\ UNCHANGED <<os, local, sent, got>>
  BY BenchProcesses DEF BenchOrder, Bench!Running, Bench!Over, Bench!compare_file, Bench!Go
<1>2. PICK to \in {"crashed", "unlink input", "failed"} :
        /\ at' = [at EXCEPT ![d] = to]
        /\ to = "crashed" => Infile = 0 \/ Outfile = 0
        /\ to = "unlink input" => os.file[Infile] = os.file[Outfile]
  BY DEF Bench!compare_file, Bench!Go, Infile, Outfile
<1>3. /\ at'[d] = to /\ at'[Bench!Program(d)] = at[Bench!Program(d)]
      /\ \A q \in Bench!Actors : q # d => at'[q] = at[q]
  BY <1>1, <1>2, OneGoes DEF BenchTypes
<1>4. ChildWaited(d)'
  BY <1>1, <1>3 DEF ChildWaited
<1>5. ASSUME Alone(d) PROVE BenchKept(d)'
  <2>1. Infile # 0 /\ Outfile # 0 /\ os.file[Infile] = Bench!Input(local.test[d]) /\ Outcome(d)
    BY <1>1, <1>5 DEF Alone, Files, Outcome
  <2>2. CASE to = "failed"
    BY <1>3, <2>2 DEF BenchKept, Bench!Running, Bench!Over
  <2>3. CASE to = "crashed"
    BY <1>2, <2>1, <2>3
  <2>4. CASE to = "unlink input"
    <3>1. Len(got[d]) = local.test[d]
      BY <1>2, <2>1, <2>4 DEF Outcome
    <3>2. Made(d)'
      BY <1>1, <1>3, <1>5, <2>4, <3>1 DEF Alone, Made
    <3>3. Files(d)'
      BY <1>3, <2>4 DEF Files
    <3>4. BenchAside(d)
      BY <1>1, <1>3, BenchProcesses DEF BenchAside
    <3>5. Alone(d)'
      BY <1>3, <1>5, <2>4, <3>2, <3>3, <3>4, AloneStays DEF Alone
    <3> QED BY <1>3, <2>4, <3>5 DEF BenchKept
  <2> QED BY <1>2, <2>2, <2>3, <2>4
<1> QED BY <1>1, <1>2, <1>4, <1>5, BenchPlaced DEF BenchPlaces

\* unlink takes a name away.
LEMMA BenchUnlinks ==
  ASSUME BenchOrder, NEW d \in Benches, NEW name \in FileNames, NEW from \in {"unlink input", "unlink output"},
         NEW to \in {"unlink output", "next"}, Bench!Unlink(d, name, from, to)
  PROVE  BenchOrder'
<1>1. /\ d \in Bench!Actors /\ Bench!Program(d) \in Bench!Actors /\ d # Bench!Program(d)
      /\ BenchTypes /\ ChildWaited(d) /\ at[d] = from /\ Bench!Running(d) /\ UNCHANGED <<local, sent, got>>
      /\ at' = [at EXCEPT ![d] = to] /\ os' = [os EXCEPT !.named[name] = 0]
  BY BenchProcesses DEF BenchOrder, Bench!Running, Bench!Over, Bench!Unlink, Bench!Go
<1>2. /\ at' \in [Bench!Actors -> BenchPlaces \cup ChildPlaces]
      /\ \A b \in Benches : at'[b] \in BenchPlaces /\ at'[Bench!Program(b)] \in ChildPlaces
  BY <1>1, PlacesKept DEF BenchPlaces
<1>3. at'[d] = to /\ \A q \in Bench!Actors : q # d => at'[q] = at[q]
  BY <1>1, OneGoes DEF BenchTypes
<1>4. /\ os' \in BenchFiles /\ os'.file = os.file /\ os'.named[name] = 0
      /\ \A m \in FileNames \ {name} : os'.named[m] = os.named[m]
  BY <1>1 DEF BenchTypes, BenchFiles
<1>5. FilesApart'
  <2>1. Len(os.file) \in Nat
    BY <1>1, LenProperties DEF BenchTypes, BenchFiles
  <2>2. \A m \in FileNames : os'.named[m] <= Len(os'.file)
    <3> TAKE m \in FileNames
    <3>1. CASE m = name
      <4>1. os'.named[m] = 0 /\ os'.file = os.file
        BY <1>4, <3>1
      <4>2. 0 <= Len(os.file)
        BY <2>1, Longer
      <4> QED BY <4>1, <4>2
    <3>2. CASE m # name
      BY <1>1, <1>4, <3>2 DEF BenchTypes, FilesApart
    <3> QED BY <3>1, <3>2
  <2>3. Infile' # 0 => Infile' # Outfile'
    BY <1>1, <1>4 DEF BenchTypes, FilesApart, Infile, Outfile, FileNames, Bench!inputfile, Bench!outputfile
  <2> QED BY <2>2, <2>3 DEF FilesApart
<1>6. BenchTypes'
  BY <1>1, <1>2, <1>4, <1>5 DEF BenchTypes
<1>7. BenchAside(d)
  BY <1>1, <1>3, BenchProcesses DEF BenchAside
<1>8. ChildWaited(d)'
  BY <1>1, <1>3 DEF ChildWaited
<1>9. ASSUME ~Disturbed(d) PROVE BenchKept(d)'
  <2>1. Alone(d)
    BY <1>1, <1>9, RunsAlone
  <2>2. Made(d)'
    BY <1>1, <1>3, <2>1 DEF Alone, Made
  <2>3. Files(d)'
    BY <1>3 DEF Files
  <2>4. Alone(d)'
    BY <1>3, <1>7, <2>1, <2>2, <2>3, AloneStays DEF Alone
  <2> QED BY <1>3, <2>4 DEF BenchKept
<1> QED BY <1>1, <1>6, <1>7, <1>8, <1>9, BenchGoes

\* Two sequences that count as far are the same.
LEMMA CountSame ==
  ASSUME NEW s \in Seq(Nat), NEW t \in Seq(Nat), Counts(s), Counts(t), Len(s) = Len(t)
  PROVE  s = t
BY SeqEqual DEF Counts

\* The loops: the next test, or the end.
LEMMA BenchGoesOn ==
  ASSUME BenchOrder, NEW d \in Benches, Bench!NextTest(d)
  PROVE  BenchOrder'
<1>1. /\ d \in Bench!Actors /\ Bench!Program(d) \in Bench!Actors /\ d # Bench!Program(d)
      /\ BenchTypes /\ ChildWaited(d) /\ at[d] = "next" /\ Bench!Running(d) /\ UNCHANGED <<os, sent, got>>
  BY BenchProcesses DEF BenchOrder, Bench!Running, Bench!Over, Bench!NextTest, Bench!Go
<1>2. PICK l \in Nat \ {0} : l = Len(Tests)
  BY SomeTest
<1>3. PICK t \in 1 .. l : t = local.test[d]
  BY <1>1, <1>2 DEF BenchTypes, BenchLocals
<1>4. PICK next \in 1 .. l : (IF t = l THEN next = t ELSE next = t + 1) /\ next = Bench!Least(t + 1, l)
  <2>1. CASE t = l
    <3>1. Bench!Least(t + 1, l) = t
      BY <2>1 DEF Bench!Least
    <3> QED BY <2>1, <3>1
  <2>2. CASE t # l
    <3>1. t + 1 \in 1 .. l
      BY <2>2
    <3>2. Bench!Least(t + 1, l) = t + 1
      BY <3>1 DEF Bench!Least
    <3> QED BY <2>2, <3>1, <3>2
  <2> QED BY <2>1, <2>2
<1>5. PICK to \in {"passed", "generate"} : at' = [at EXCEPT ![d] = to] /\ (to = "passed" <=> t = l)
  BY <1>2, <1>3 DEF Bench!NextTest, Bench!Go
<1>6. local' = [local EXCEPT !.test[d] = next]
  BY <1>2, <1>3, <1>4 DEF Bench!NextTest
<1>7. /\ at' \in [Bench!Actors -> BenchPlaces \cup ChildPlaces]
      /\ \A b \in Benches : at'[b] \in BenchPlaces /\ at'[Bench!Program(b)] \in ChildPlaces
  BY <1>1, <1>5, PlacesKept DEF BenchPlaces
<1>8. at'[d] = to /\ \A q \in Bench!Actors : q # d => at'[q] = at[q]
  BY <1>1, <1>5, OneGoes DEF BenchTypes
<1>9. /\ local' \in BenchLocals /\ local'.ifd = local.ifd /\ local'.overlapped = local.overlapped
      /\ local'.kept = local.kept
      /\ local'.test[d] = next /\ \A b \in Benches : b # d => local'.test[b] = local.test[b]
  BY <1>1, <1>2, <1>6 DEF BenchTypes, BenchLocals
<1>10. BenchTypes'
  <2>1. FilesApart'
    BY <1>1 DEF BenchTypes, FilesApart, Infile, Outfile
  <2> QED BY <1>1, <1>7, <1>9, <2>1 DEF BenchTypes
<1>11. BenchAside(d)
  BY <1>1, <1>8, <1>9, BenchProcesses DEF BenchAside
<1>12. ChildWaited(d)'
  BY <1>1, <1>8 DEF ChildWaited
<1>13. ASSUME ~Disturbed(d) PROVE BenchKept(d)'
  <2>1. Alone(d)
    BY <1>1, <1>13, RunsAlone
  <2>2. Counts(sent[d]) /\ Counts(got[d]) /\ Len(sent[d]) = t /\ Len(got[d]) = t
    BY <1>1, <1>3, <2>1 DEF Alone, Made
  <2>3. CASE to = "passed"
    <3>1. got[d] = sent[d]
      BY <1>1, <2>2, CountSame DEF BenchTypes
    <3>2. Len(sent[d]) = Len(Tests)
      BY <1>2, <1>5, <2>2, <2>3
    <3>3. at'[d] = "passed" /\ got'[d] = sent'[d] /\ Len(sent'[d]) = Len(Tests)
      BY <1>1, <1>8, <2>3, <3>1, <3>2
    <3> QED BY <3>3 DEF BenchKept, Bench!Running, Bench!Over
  <2>4. CASE to = "generate"
    <3>1. next = t + 1
      BY <1>4, <1>5, <2>4
    <3>2. t = local'.test[d] - 1
      BY <1>9, <3>1
    <3>3. at'[d] = "generate" /\ sent' = sent /\ got' = got
      BY <1>1, <1>8, <2>4
    <3>4. Made(d)'
      BY <2>2, <3>2, <3>3 DEF Made
    <3>5. Files(d)'
      BY <3>3 DEF Files
    <3>6. Alone(d)'
      BY <1>11, <2>1, <3>3, <3>4, <3>5, AloneStays DEF Alone
    <3> QED BY <3>3, <3>6 DEF BenchKept
  <2> QED BY <2>3, <2>4
<1> QED BY <1>1, <1>10, <1>11, <1>12, <1>13, BenchGoes

\* A child that runs has a bench that waits for it.
LEMMA ChildRuns ==
  ASSUME BenchOrder, NEW d \in Benches, at[Bench!Program(d)] \in {"open input", "open output", "exec", "exit"}
  PROVE  /\ d \in Bench!Actors /\ Bench!Program(d) \in Bench!Actors /\ d # Bench!Program(d)
         /\ Bench!Program(d) \notin Benches
         /\ BenchTypes /\ ChildWaited(d) /\ at[d] = "wait" /\ Bench!Running(d)
BY BenchProcesses DEF BenchOrder, ChildWaited, Bench!Running, Bench!Over

\* What a bench that waits knows of its child is all a step of the child may change.
LEMMA ChildGoes ==
  ASSUME BenchOrder, NEW d \in Benches, at[Bench!Program(d)] \in {"open input", "open output", "exec", "exit"},
         NEW to \in ChildPlaces, at' = [at EXCEPT ![Bench!Program(d)] = to],
         os' \in BenchFiles, FilesApart', Len(os.file) <= Len(os'.file),
         local' \in BenchLocals, \A b \in Benches : local'.ifd[b] = local.ifd[b] \/ local'.ifd[b] = Infile',
         \A b \in Benches : b # d => local'.ifd[b] = local.ifd[b] /\ local'.kept[b] = local.kept[b],
         local.kept[d] => local'.kept[d],
         UNCHANGED <<local.test, local.overlapped, sent>>, got' \in [Benches -> Seq(Nat)],
         \A b \in Benches : b # d => got'[b] = got[b],
         Alone(d) /\ ~local'.kept[d]
           => Counts(got'[d]) /\ Infile' = Infile /\ os'.file[Infile] = os.file[Infile] /\ Child(d)'
  PROVE  BenchOrder'
<1>1. /\ d \in Bench!Actors /\ Bench!Program(d) \in Bench!Actors /\ d # Bench!Program(d)
      /\ Bench!Program(d) \notin Benches
      /\ BenchTypes /\ ChildWaited(d) /\ at[d] = "wait" /\ Bench!Running(d)
  BY ChildRuns
<1>2. /\ at' \in [Bench!Actors -> BenchPlaces \cup ChildPlaces]
      /\ \A b \in Benches : at'[b] \in BenchPlaces /\ at'[Bench!Program(b)] \in ChildPlaces
  BY <1>1, PlacesKept
<1>3. \A q \in Bench!Actors : q # Bench!Program(d) => at'[q] = at[q]
  BY <1>1, OneGoes DEF BenchTypes
<1>4. at'[d] = "wait"
  BY <1>1, <1>3
<1>5. BenchTypes'
  <2>1. ASSUME NEW b \in Benches PROVE local'.ifd[b] <= Len(os'.file)
    <3>1. local.ifd[b] \in Nat /\ local.ifd[b] <= Len(os.file) /\ Len(os.file) \in Nat /\ Len(os'.file) \in Nat
      BY <1>1, LenProperties DEF BenchTypes, BenchLocals, BenchFiles
    <3>2. local.ifd[b] <= Len(os'.file)
      BY <3>1, Longer, Zenon
    <3>3. Infile' <= Len(os'.file)
      BY DEF FilesApart, Infile, FileNames
    <3> QED BY <3>2, <3>3
  <2> QED BY <1>1, <1>2, <2>1 DEF BenchTypes
<1>6. BenchAside(d)
  BY <1>3, BenchProcesses DEF BenchAside
<1>7. ChildWaited(d)'
  BY <1>4 DEF ChildWaited
<1>8. ASSUME ~Disturbed(d) PROVE BenchKept(d)'
  <2> SUFFICES ASSUME ~local'.kept[d] PROVE BenchKept(d)'
    BY DEF BenchKept, Disturbed
  <2>1. Alone(d)
    BY <1>1, <1>8, RunsAlone
  <2>2. Made(d)'
    BY <1>1, <1>4, <2>1 DEF Alone, Made
  <2>3. Infile # 0 /\ os.file[Infile] = Bench!Input(local.test[d])
    BY <1>1, <2>1 DEF Alone, Files
  <2>4. Files(d)'
    BY <1>4, <2>1, <2>3 DEF Files
  <2>5. Alone(d)'
    BY <1>6, <2>1, <2>2, <2>4, AloneStays DEF Alone
  <2> QED BY <1>4, <2>5 DEF BenchKept
<1> QED BY <1>1, <1>5, <1>6, <1>7, <1>8, BenchGoes

\* The child opens the input.
LEMMA ChildOpensInput ==
  ASSUME BenchOrder, NEW d \in Benches, Bench!OpenInput(d)
  PROVE  BenchOrder'
<1>1. /\ at[Bench!Program(d)] = "open input" /\ UNCHANGED <<os, sent, got>>
      /\ local' = [local EXCEPT !.ifd[d] = Infile]
  BY DEF Bench!OpenInput, Infile
<1>2. PICK to \in {"exit not 0", "open output"} : at' = [at EXCEPT ![Bench!Program(d)] = to]
  BY DEF Bench!OpenInput
<1>3. /\ Bench!Program(d) \in Bench!Actors /\ d \in Bench!Actors /\ d # Bench!Program(d) /\ BenchTypes /\ at[d] = "wait"
  BY <1>1, ChildRuns
<1>4. Infile \in Nat /\ Infile' = Infile
  BY <1>1, <1>3 DEF BenchTypes, BenchFiles, Infile, FileNames
<1>5. /\ local' \in BenchLocals /\ local'.test = local.test /\ local'.overlapped = local.overlapped
      /\ local'.kept = local.kept
      /\ local'.ifd[d] = Infile /\ \A b \in Benches : b # d => local'.ifd[b] = local.ifd[b]
  BY <1>1, <1>3, <1>4 DEF BenchTypes, BenchLocals
<1>6. at'[Bench!Program(d)] = to
  BY <1>2, <1>3, OneGoes DEF BenchTypes
<1>7. os' \in BenchFiles /\ FilesApart' /\ Len(os.file) <= Len(os'.file) /\ got' \in [Benches -> Seq(Nat)]
  <2>1. os \in BenchFiles /\ FilesApart /\ got \in [Benches -> Seq(Nat)]
    BY <1>3 DEF BenchTypes
  <2>2. FilesApart'
    BY <1>1, <2>1 DEF FilesApart, Infile, Outfile
  <2>3. Len(os.file) \in Nat
    BY <2>1, LenProperties DEF BenchFiles
  <2>4. Len(os.file) <= Len(os.file)
    BY <2>3, Longer, Zenon
  <2> QED BY <1>1, <2>1, <2>2, <2>4
<1>8. ASSUME Alone(d) PROVE Counts(got'[d]) /\ Infile' = Infile /\ os'.file[Infile] = os.file[Infile] /\ Child(d)'
  <2>1. Len(got[d]) = local.test[d] - 1
    BY <1>1, <1>3, <1>8 DEF Alone, Child
  <2>2. Child(d)'
    BY <1>1, <1>4, <1>5, <1>6, <2>1 DEF Child
  <2> QED BY <1>1, <1>4, <1>8, <2>2 DEF Alone, Made
<1> QED BY <1>1, <1>2, <1>4, <1>5, <1>7, <1>8, ChildGoes DEF ChildPlaces

\* It opens the output, or leaves it; where it keeps nothing, the output is empty.
LEMMA ChildOpensOutput ==
  ASSUME BenchOrder, NEW d \in Benches, Bench!OpenOutput(d)
  PROVE  BenchOrder'
<1> DEFINE keeps == Bench!Kind(d) = "file" /\ (Outfile' = 0 \/ os'.file[Outfile'] # <<>>)
<1>1. /\ at[Bench!Program(d)] = "open output" /\ at' = [at EXCEPT ![Bench!Program(d)] = "exec"]
      /\ local' = [local EXCEPT !.ofd[d] = Outfile', !.kept[d] = @ \/ keeps] /\ UNCHANGED <<sent, got>>
  <2>2. at[Bench!Program(d)] = "open output" /\ at' = [at EXCEPT ![Bench!Program(d)] = "exec"] /\ UNCHANGED <<sent, got>>
    BY DEF Bench!OpenOutput, Bench!Go
  <2>3. local' = [local EXCEPT !.ofd[d] = Outfile', !.kept[d] = @ \/ keeps]
    BY DEF Bench!OpenOutput, Outfile
  <2> QED BY <2>2, <2>3
<1>2. /\ Bench!Program(d) \in Bench!Actors /\ d \in Bench!Actors /\ d # Bench!Program(d) /\ BenchTypes /\ at[d] = "wait"
  BY <1>1, ChildRuns
<1>3. os' = Bench!Truncated(Bench!outputfile) \/ (os' = os /\ Bench!Kind(d) = "file")
  <2>1. Bench!Created(Bench!outputfile) \in {os, Bench!Truncated(Bench!outputfile)}
    <3>1. os \in BenchFiles /\ FilesApart /\ Bench!outputfile \in FileNames
      BY <1>2 DEF BenchTypes, FileNames
    <3> QED BY <3>1, CreatedFile
  <2> QED BY <2>1 DEF Bench!OpenOutput, Bench!Choices
<1>4. /\ os' \in BenchFiles /\ FilesApart' /\ Len(os.file) <= Len(os'.file) /\ Outfile' \in Nat
      /\ Infile' = Infile /\ (Infile # 0 => os'.file[Infile] = os.file[Infile])
      /\ ~keeps => Outfile' # 0 /\ os'.file[Outfile'] = <<>>
  <2>1. Bench!inputfile \in FileNames \ {Bench!outputfile} /\ Bench!outputfile \in FileNames
    BY DEF FileNames, Bench!inputfile, Bench!outputfile
  <2>2. CASE os' = Bench!Truncated(Bench!outputfile)
    BY <1>2, <2>1, <2>2, FileOpened DEF Infile, Outfile
  <2>3. CASE os' = os /\ Bench!Kind(d) = "file"
    <3>1. os \in BenchFiles /\ FilesApart /\ Len(os.file) \in Nat
      BY <1>2, LenProperties DEF BenchTypes, BenchFiles
    <3>2. Len(os.file) <= Len(os.file)
      BY <3>1, Longer, Zenon
    <3>3. FilesApart' /\ Infile' = Infile /\ Outfile' = Outfile
      BY <2>3, <3>1 DEF FilesApart, Infile, Outfile
    <3>4. Outfile \in Nat
      BY <2>1, <3>1 DEF BenchFiles, Outfile
    <3> QED BY <2>3, <3>1, <3>2, <3>3, <3>4
  <2> QED BY <1>3, <2>2, <2>3
<1> HIDE DEF keeps
<1>5. /\ local' \in BenchLocals /\ local'.test = local.test /\ local'.overlapped = local.overlapped
      /\ local'.ifd = local.ifd /\ local'.ofd[d] = Outfile' /\ (local'.kept[d] <=> local.kept[d] \/ keeps)
      /\ \A b \in Benches : b # d => local'.kept[b] = local.kept[b]
  <2>1. local \in BenchLocals /\ (local.kept[d] \/ keeps) \in BOOLEAN
    BY <1>2 DEF BenchTypes
  <2>2. local' = [local EXCEPT !.ofd[d] = Outfile', !.kept[d] = (local.kept[d] \/ keeps)]
    BY <1>1
  <2> QED BY <1>4, <2>1, <2>2 DEF BenchLocals
<1>6. at'[Bench!Program(d)] = "exec"
  BY <1>1, <1>2, OneGoes DEF BenchTypes
<1>7. ASSUME Alone(d), ~local'.kept[d]
      PROVE  Counts(got'[d]) /\ Infile' = Infile /\ os'.file[Infile] = os.file[Infile] /\ Child(d)'
  <2>1. Len(got[d]) = local.test[d] - 1 /\ local.ifd[d] = Infile /\ Infile # 0
    BY <1>1, <1>2, <1>7 DEF Alone, Child, Files
  <2>2. Outfile' # 0 /\ os'.file[Outfile'] = <<>>
    BY <1>4, <1>5, <1>7
  <2>3. Child(d)'
    BY <1>1, <1>4, <1>5, <1>6, <2>1, <2>2 DEF Child
  <2> QED BY <1>1, <1>4, <1>7, <2>1, <2>3 DEF Alone, Made
<1>8. got' \in [Benches -> Seq(Nat)]
  BY <1>1, <1>2 DEF BenchTypes
<1> QED BY <1>1, <1>4, <1>5, <1>7, <1>8, ChildGoes DEF ChildPlaces

\* It fails to start the program, or the program ends.
LEMMA ChildEnds ==
  ASSUME BenchOrder, NEW d \in Benches, Bench!ExecFails(d) \/ Bench!Exit(d)
  PROVE  BenchOrder'
<1>1. PICK to \in {"exit 0", "exit not 0"} :
        /\ at[Bench!Program(d)] \in {"open input", "exec", "exit"} /\ at' = [at EXCEPT ![Bench!Program(d)] = to]
        /\ to = "exit 0" => at[Bench!Program(d)] = "exit"
        /\ UNCHANGED <<os, local, sent, got>>
  BY DEF Bench!ExecFails, Bench!Exit, Bench!Go
<1>2. /\ Bench!Program(d) \in Bench!Actors /\ d \in Bench!Actors /\ d # Bench!Program(d) /\ BenchTypes /\ at[d] = "wait"
      /\ Bench!Program(d) \notin Benches /\ Bench!Running(d)
  BY <1>1, ChildRuns
<1>3. at'[Bench!Program(d)] = to /\ at'[d] = "wait" /\ \A q \in Bench!Actors : q # Bench!Program(d) => at'[q] = at[q]
  BY <1>1, <1>2, OneGoes DEF BenchTypes
<1>4. ChildWaited(d)'
  BY <1>3 DEF ChildWaited
<1>5. ASSUME Alone(d) PROVE BenchKept(d)'
  <2>1. to = "exit 0" => Outcome(d)
    BY <1>1, <1>2, <1>5 DEF Alone, Child
  <2>2. to = "exit 0" => Outcome(d)'
    BY <1>1, <2>1 DEF Outcome, Outfile
  <2>3. Child(d)'
    BY <1>1, <1>3, <2>2 DEF Child
  <2>4. Made(d)'
    BY <1>1, <1>2, <1>3, <1>5 DEF Alone, Made
  <2>5. Files(d)'
    BY <1>1, <1>2, <1>3, <1>5 DEF Alone, Files, Infile
  <2>6. BenchAside(d)
    BY <1>1, <1>3, BenchProcesses DEF BenchAside
  <2>7. Alone(d)'
    BY <1>5, <2>3, <2>4, <2>5, <2>6, AloneStays DEF Alone
  <2> QED BY <1>3, <2>7 DEF BenchKept
<1> QED BY <1>1, <1>2, <1>4, <1>5, BenchPlaced DEF ChildPlaces

\* The beginning of a text is one, and all of it when it is as long.
LEMMA CopiedText ==
  ASSUME NEW text \in Texts, NEW n \in 0 .. Len(text)
  PROVE  /\ SubSeq(text, 1, n) \in Texts /\ Len(SubSeq(text, 1, n)) = n
         /\ n = Len(text) => SubSeq(text, 1, n) = text
<1>1. PICK S : S = Nat \X Halves
  OBVIOUS
<1>2. text \in Seq(S) /\ Len(text) \in Nat
  BY <1>1, LenProperties DEF Texts
<1>3. \A i \in 1 .. n : i \in 1 .. Len(text) /\ text[i] \in S
  BY <1>2, ElementOfSeq
<1>4. /\ SubSeq(text, 1, n) \in Seq(S) /\ Len(SubSeq(text, 1, n)) = IF 1 <= n THEN n - 1 + 1 ELSE 0
      /\ \A i \in 1 .. n - 1 + 1 : SubSeq(text, 1, n)[i] = text[1 + i - 1]
  <2>1. 1 \in Int /\ n \in Int
    BY <1>2
  <2> QED BY <1>3, <2>1, SubSeqProperties
<1>5. n \in Nat /\ n - 1 + 1 = n /\ \A i \in 1 .. n : 1 + i - 1 = i
  BY <1>2
<1>6. Len(SubSeq(text, 1, n)) = n /\ \A i \in 1 .. n : SubSeq(text, 1, n)[i] = text[i]
  BY <1>4, <1>5
<1>7. n = Len(text) => SubSeq(text, 1, n) = text
  BY <1>2, <1>4, <1>6, SeqEqual
<1> QED BY <1>1, <1>4, <1>6, <1>7 DEF Texts

\* The program copies as much of its input as it does; where all of it, the output is the input.
LEMMA ChildCopies ==
  ASSUME BenchOrder, NEW d \in Benches, Bench!Copy(d)
  PROVE  BenchOrder'
<1>1. PICK input : input = IF local.ifd[d] = 0 \/ local.ofd[d] = 0 THEN <<>> ELSE os.file[local.ifd[d]]
  OBVIOUS
<1>2. PICK n \in 0 .. Len(input) :
        /\ at[Bench!Program(d)] = "exec" /\ at' = [at EXCEPT ![Bench!Program(d)] = "exit"]
        /\ os' = IF local.ofd[d] = 0 THEN os
                 ELSE [os EXCEPT !.file[local.ofd[d]] = Bench!Overwrite(SubSeq(input, 1, n), @)]
        /\ got' = IF n = Len(Bench!Input(1)) THEN [got EXCEPT ![d] = Append(@, input[1][1])] ELSE got
        /\ UNCHANGED <<local, sent>>
  BY <1>1 DEF Bench!Copy, Bench!Go
<1>3. /\ Bench!Program(d) \in Bench!Actors /\ d \in Bench!Actors /\ d # Bench!Program(d) /\ BenchTypes /\ at[d] = "wait"
  BY <1>2, ChildRuns
<1>4. PICK i \in Nat, o \in Nat : i = local.ifd[d] /\ o = local.ofd[d]
  BY <1>3 DEF BenchTypes, BenchLocals
<1>5. os.file \in Seq(Texts) /\ Len(os.file) \in Nat /\ i <= Len(os.file) /\ got[d] \in Seq(Nat) /\ os \in BenchFiles /\ FilesApart
  BY <1>3, <1>4, LenProperties DEF BenchTypes, BenchFiles
<1>6. input \in Texts
  <2>1. CASE i = 0 \/ o = 0
    BY <1>1, <1>4, <2>1 DEF Texts
  <2>2. CASE i # 0 /\ o # 0
    <3>1. i \in 1 .. Len(os.file)
      BY <1>5, <2>2
    <3>2. os.file[i] \in Texts
      BY <1>5, <3>1, ElementOfSeq
    <3> QED BY <1>1, <1>4, <2>2, <3>2
  <2> QED BY <2>1, <2>2
<1>7. PICK text \in Texts : text = SubSeq(input, 1, n) /\ Len(text) = n /\ (n = Len(input) => text = input)
  BY <1>6, CopiedText
<1>8. /\ os' \in BenchFiles /\ FilesApart' /\ os'.named = os.named /\ Len(os'.file) = Len(os.file)
      /\ o # 0 /\ o <= Len(os.file) /\ os.file[o] = <<>> => os'.file[o] = text
      /\ \A j \in 1 .. Len(os.file) : j # o => os'.file[j] = os.file[j]
  <2>1. CASE o # 0
    <3>1. os' = [os EXCEPT !.file[o] = Bench!Overwrite(text, @)]
      BY <1>2, <1>4, <1>7, <2>1
    <3> QED BY <1>5, <3>1, WrittenFile
  <2>2. CASE o = 0
    <3>1. os' = os
      BY <1>2, <1>4, <2>2
    <3>2. FilesApart'
      BY <1>5, <3>1 DEF FilesApart, Infile, Outfile
    <3>3. os' \in BenchFiles /\ os'.named = os.named /\ Len(os'.file) = Len(os.file) /\ os'.file = os.file
      BY <1>5, <3>1, Zenon
    <3> QED BY <2>2, <3>2, <3>3, Zenon
  <2> QED BY <2>1, <2>2
<1>9. Len(Bench!Input(1)) = 2
  BY InputText
<1>10. n = 2 => input[1][1] \in Nat
  <2>1. ASSUME n = 2 PROVE input[1][1] \in Nat
    <3>1. Len(input) \in Nat /\ input \in Seq(Nat \X Halves)
      BY <1>6, LenProperties DEF Texts
    <3>2. 1 \in 1 .. Len(input)
      BY <2>1, <3>1
    <3>3. input[1] \in Nat \X Halves
      BY <3>1, <3>2, ElementOfSeq
    <3> QED BY <3>3
  <2> QED BY <2>1
<1>11. got' \in [Benches -> Seq(Nat)] /\ \A b \in Benches : b # d => got'[b] = got[b]
  <2>1. CASE n = 2
    <3>1. Append(got[d], input[1][1]) \in Seq(Nat)
      BY <1>5, <1>10, <2>1, OneMore
    <3>2. got' = [got EXCEPT ![d] = Append(got[d], input[1][1])]
      BY <1>2, <1>9, <2>1
    <3> QED BY <1>3, <3>1, <3>2 DEF BenchTypes
  <2>2. CASE n # 2
    BY <1>2, <1>3, <1>9, <2>2 DEF BenchTypes
  <2> QED BY <2>1, <2>2
<1>12. at'[Bench!Program(d)] = "exit"
  BY <1>2, <1>3, OneGoes DEF BenchTypes
<1>13. Infile' = Infile /\ Outfile' = Outfile
  BY <1>8 DEF Infile, Outfile
<1>14. ASSUME Alone(d) PROVE Counts(got'[d]) /\ Infile' = Infile /\ os'.file[Infile] = os.file[Infile] /\ Child(d)'
  <2>1. PICK t \in Nat : t = local.test[d]
    BY <1>3 DEF BenchTypes, BenchLocals
  <2>2. /\ Counts(got[d]) /\ Len(got[d]) = t - 1 /\ i = Infile /\ Infile # 0 /\ os.file[Infile] = Bench!Input(t)
        /\ Outfile # 0 /\ o = Outfile /\ os.file[Outfile] = <<>>
    BY <1>2, <1>3, <1>4, <1>14, <2>1 DEF Alone, Made, Files, Child
  <2>3. Infile \in 1 .. Len(os.file) /\ Outfile \in 1 .. Len(os.file) /\ Infile # Outfile
    <3>1. /\ os.named \in [FileNames -> Nat]
          /\ Infile <= Len(os.file) /\ Outfile <= Len(os.file) /\ Infile \in Nat /\ Outfile \in Nat
      BY <1>5 DEF FilesApart, Infile, Outfile, FileNames, BenchFiles
    <3> QED BY <1>5, <2>2, <3>1 DEF FilesApart
  <2>4. os'.file[Infile] = os.file[Infile] /\ os'.file[Outfile] = text
    BY <1>8, <2>2, <2>3
  <2>5. input = Bench!Input(t) /\ Len(input) = 2 /\ input[1][1] = t
    BY <1>1, <1>4, <2>2, InputText
  <2>6. CASE n = 2
    <3>1. text = Bench!Input(t)
      BY <1>7, <2>5, <2>6
    <3>2. got'[d] = Append(got[d], Len(got[d]) + 1)
      <4>1. got'[d] = Append(got[d], t)
        BY <1>2, <1>3, <1>9, <2>5, <2>6 DEF BenchTypes
      <4>2. t = Len(got[d]) + 1
        BY <2>1, <2>2
      <4> QED BY <4>1, <4>2
    <3>3. Counts(got'[d]) /\ Len(got'[d]) = Len(got[d]) + 1
      BY <1>5, <2>2, <3>2, CountsAppend
    <3>4. Len(got'[d]) = t
      BY <2>2, <3>3
    <3>5. Outcome(d)'
      BY <1>2, <1>13, <2>1, <2>2, <2>4, <3>1, <3>4 DEF Outcome
    <3> QED BY <1>12, <1>13, <2>4, <3>3, <3>5 DEF Child
  <2>7. CASE n # 2
    <3>1. text # Bench!Input(t)
      BY <1>7, <2>5, <2>7
    <3>2. got' = got
      BY <1>2, <1>9, <2>7
    <3>3. Outcome(d)'
      BY <1>2, <1>13, <2>1, <2>2, <2>4, <3>1, <3>2 DEF Outcome
    <3> QED BY <1>12, <1>13, <2>2, <2>4, <3>2, <3>3 DEF Child
  <2> QED BY <2>6, <2>7
<1>15. Len(os.file) <= Len(os'.file)
  BY <1>5, <1>8
<1>16. local' \in BenchLocals /\ \A b \in Benches : local'.ifd[b] = local.ifd[b] /\ local'.kept[b] = local.kept[b]
  BY <1>2, <1>3 DEF BenchTypes
<1> QED BY <1>2, <1>8, <1>11, <1>14, <1>15, <1>16, ChildGoes DEF ChildPlaces

\* Every step of as1_testbench.c and of its children.
LEMMA BenchOrderStep == BenchOrder /\ [Bench!Next]_vars => BenchOrder'
<1> SUFFICES ASSUME BenchOrder, [Bench!Next]_vars PROVE BenchOrder'
  OBVIOUS
<1>1. ASSUME NEW d \in Benches, Bench!test(d) PROVE BenchOrder'
  <2>1. CASE Bench!Begin(d)
    BY <2>1, BenchBegins
  <2>2. CASE Bench!generate_random_file(d)
    BY <2>2, BenchCreates, BenchWrites DEF Bench!generate_random_file, Bench!Go
  <2>3. CASE Bench!Fork(d) \/ Bench!Wait(d) \/ Bench!compare_file(d) \/ Bench!NextTest(d)
    BY <2>3, BenchForks, BenchWaits, BenchCompares, BenchGoesOn
  <2>4. CASE Bench!Unlink(d, Bench!inputfile, "unlink input", "unlink output")
    BY <2>4, BenchUnlinks DEF FileNames
  <2>5. CASE Bench!Unlink(d, Bench!outputfile, "unlink output", "next")
    BY <2>5, BenchUnlinks DEF FileNames
  <2> QED BY <1>1, <2>1, <2>2, <2>3, <2>4, <2>5 DEF Bench!test
<1>2. ASSUME NEW d \in Benches, Bench!child(d) PROVE BenchOrder'
  BY <1>2, ChildOpensInput, ChildOpensOutput, ChildEnds, ChildCopies DEF Bench!child
<1>3. ASSUME NEW p \in Bench!Actors, Bench!Step(p) PROVE BenchOrder'
  <2>1. CASE p \in Benches
    BY <1>1, <1>3, <2>1 DEF Bench!Step
  <2>2. CASE p \notin Benches
    <3>1. PICK d \in Benches : p = Bench!Program(d)
      BY <1>3, <2>2 DEF Bench!Actors
    <3>2. -p = d
      BY <3>1, BenchProcesses
    <3>3. Bench!child(d)
      BY <1>3, <2>2, <3>2 DEF Bench!Step
    <3> QED BY <1>2, <3>3
  <2> QED BY <2>1, <2>2
<1>4. CASE UNCHANGED vars
  <2>1. UNCHANGED <<at, os, local, sent, got>>
    BY <1>4 DEF vars
  <2>2. BenchTypes'
    BY <2>1 DEF BenchOrder, BenchTypes, FilesApart, Infile, Outfile
  <2>3. ASSUME NEW b \in Benches PROVE ChildWaited(b)' /\ BenchKept(b)'
    <3>1. ChildWaited(b)'
      BY <2>1 DEF BenchOrder, ChildWaited
    <3>2. \A e \in Benches : Bench!Running(e)' <=> Bench!Running(e)
      BY <2>1 DEF Bench!Running
    <3>3. Outcome(b) => Outcome(b)'
      BY <2>1 DEF Outcome, Outfile
    <3>4. Made(b) => Made(b)'
      BY <2>1 DEF Made
    <3>5. Files(b) => Files(b)'
      BY <2>1, <3>3 DEF Files, Infile
    <3>6. Child(b) => Child(b)'
      BY <2>1, <3>3 DEF Child, Infile, Outfile
    <3>7. Alone(b) => Alone(b)'
      BY <2>1, <3>2, <3>4, <3>5, <3>6 DEF Alone
    <3>8. Disturbed(b)' <=> Disturbed(b)
      BY <2>1 DEF Disturbed
    <3>9. BenchKept(b)'
      BY <2>1, <3>2, <3>7, <3>8 DEF BenchOrder, BenchKept
    <3> QED BY <3>1, <3>9
  <2> QED BY <2>2, <2>3 DEF BenchOrder
<1> QED BY <1>3, <1>4 DEF Bench!Next

\* Hence a bench that nobody disturbed goes on only when its input was copied, and does not crash.
LEMMA BenchInOrder == BenchOrder => Bench!InOrder
<1> SUFFICES ASSUME BenchOrder, NEW b \in Benches, ~Disturbed(b)
             PROVE  /\ at[b] \in {"next", "passed", "unlink input", "unlink output"} => got[b] = sent[b]
                    /\ at[b] = "passed" => Len(sent[b]) = Len(Tests)
                    /\ at[b] # "crashed"
  BY DEF Bench!InOrder, Disturbed
<1>1. BenchKept(b) /\ sent[b] \in Seq(Nat) /\ got[b] \in Seq(Nat)
  BY DEF BenchOrder, BenchTypes
<1>2. ASSUME at[b] \in {"next", "unlink input", "unlink output"} PROVE got[b] = sent[b]
  <2>1. Bench!Running(b)
    BY <1>2 DEF Bench!Running, Bench!Over
  <2>2. Counts(sent[b]) /\ Counts(got[b]) /\ Len(sent[b]) = local.test[b] /\ Len(got[b]) = local.test[b]
    BY <1>1, <1>2, <2>1 DEF BenchKept, Alone, Made
  <2> QED BY <1>1, <2>2, CountSame
<1> QED BY <1>1, <1>2 DEF BenchKept
=============================================================================
