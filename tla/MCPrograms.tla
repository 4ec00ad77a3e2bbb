------------------------------ MODULE MCPrograms -----------------------------
(* The lecture programs that wait for input, and the testbench, one at a time: *)
(* `program` says which one runs.                                              *)
EXTENDS CourseProgram

CONSTANTS
  Pipes, Writes, Openings, Block,                   \* Fifos
  Kills, PipeSize,                                  \* SignalLoops
  Senders, Receivers, Lengths, Priorities, MAX_MSG, Old,
  Servers, Clients, Posts,                          \* SharedPosixHax, UnixSockets
  Lockers, Refusals, Peers, Benches, Tests

ASSUME MCProgramsAssumption ==
  /\ Pipes = 0 .. 1 /\ {Writes, Openings, Kills, Posts, Refusals} \subseteq Nat
  /\ {Block, PipeSize, MAX_MSG} \subseteq Nat \ {0}
  /\ Lengths \subseteq Nat /\ Priorities \subseteq Nat
  /\ Senders \cap Receivers = {} /\ Old \notin Senders
  /\ Servers \cap Clients = {} /\ "none" \notin Servers \cup Clients
  /\ Benches \subseteq Nat \ {0} /\ Tests \in Seq({"file", "pipe"}) /\ Tests # <<>>

MCTests == <<"file", "pipe">>

Input == INSTANCE MultiplexedInput
Service == INSTANCE Daemon
Signals == INSTANCE SignalLoops
Queues == INSTANCE MessageQueues
Hax == INSTANCE SharedPosixHax
Lock == INSTANCE RecordLock
Net == INSTANCE ConnectionServer
Sockets == INSTANCE UnixSockets
Bench == INSTANCE TestBench

Init ==
  \/ Input!Init \/ Service!Init \/ Signals!Init \/ Queues!Init \/ Hax!Init
  \/ Lock!Init \/ Net!Init \/ Sockets!Init \/ Bench!Init

InputNext == program \in Input!Programs /\ Input!Next
ServiceNext == program \in Service!Programs /\ Service!Next
SignalsNext == program \in Signals!Programs /\ Signals!Next
QueuesNext == program \in Queues!Programs /\ Queues!Next
HaxNext == program \in Hax!Programs /\ Hax!Next
LockNext == program \in Lock!Programs /\ Lock!Next
NetNext == program \in Net!Programs /\ Net!Next
SocketsNext == program \in Sockets!Programs /\ Sockets!Next
BenchNext == program \in Bench!Programs /\ Bench!Next

Next ==
  \/ InputNext \/ ServiceNext \/ SignalsNext \/ QueuesNext \/ HaxNext
  \/ LockNext \/ NetNext \/ SocketsNext \/ BenchNext

\* Every process that can go on does, and the kernel delivers its signals; strangers,
\* who write, connect, send signals or kill, owe nothing.
Spec ==
  /\ Init /\ [][Next]_vars
  /\ \A p \in Input!Actors : WF_vars(program \in Input!Programs /\ Input!Step(p))
  /\ \A p \in Service!Actors : WF_vars(program \in Service!Programs /\ Service!Step(p))
  /\ \A p \in Signals!Actors : WF_vars(program \in Signals!Programs /\ Signals!Step(p))
  /\ \A p \in Queues!Actors : WF_vars(program \in Queues!Programs /\ Queues!Step(p))
  /\ \A p \in Hax!Actors : WF_vars(program \in Hax!Programs /\ Hax!Step(p))
  /\ \A p \in Lock!Actors : WF_vars(program \in Lock!Programs /\ Lock!Step(p))
  /\ \A p \in Net!Actors : WF_vars(program \in Net!Programs /\ Net!Step(p))
  /\ \A p \in Sockets!Actors : WF_vars(program \in Sockets!Programs /\ Sockets!Step(p))
  /\ \A p \in Bench!Actors : WF_vars(program \in Bench!Programs /\ Bench!Step(p))

----------------------------------------------------------------------------
(* Properties of the programs, each stated in its program's module         *)

\* What a program makes of its input is its input: in order, nothing invented, nothing
\* twice, and no gap where nothing may be lost (the loops and prints of mpx-*.c, daemon.c,
\* signal-good.c, signal-better.c, service.c, the message queues, userver.c, and as1_testbench.c, whose verdict
\* stands for what was delivered).
InOrder ==
  /\ program \in Input!Programs => Input!InOrder
  /\ program \in Service!Programs => Service!InOrder
  /\ program \in Signals!Programs => Signals!InOrder
  /\ program \in Queues!Programs => Queues!InOrder
  /\ program \in Sockets!Programs => Sockets!InOrder
  /\ program \in Bench!Programs => Bench!InOrder

\* A program that gives up, or fails an assertion, has a reason from outside (the exits of
\* mpx-*.c and daemon.c, the assertions of the message queues, shared_posix_hax.c and
\* userver.c).
FailuresExplained ==
  /\ program \in Input!Programs => Input!FailsOnlyAtEnd
  /\ program \in Service!Programs => Service!FailsOnlyWithoutFifo
  /\ program \in Queues!Programs => Queues!AbortsExplained
  /\ program \in Hax!Programs => Hax!AbortsExplained
  /\ program \in Sockets!Programs => Sockets!AbortsExplained

\* One writer of a locked file, or one owner of a buffer, at a time (lock.c, and
\* shared_posix_hax.c while its semaphores are initialised once).
Exclusive ==
  /\ program \in Lock!Programs => Lock!Exclusive
  /\ program \in Hax!Programs => Hax!Exclusive

Settled ==
  /\ program \in Input!Programs => Input!Settled
  /\ program \in Service!Programs => Service!Settled
  /\ program \in Signals!Programs => Signals!Settled
  /\ program \in Queues!Programs => Queues!Settled
  /\ program \in Hax!Programs => Hax!Settled
  /\ program \in Lock!Programs => Lock!Settled
  /\ program \in Net!Programs => Net!Settled
  /\ program \in Sockets!Programs => Sockets!Settled
  /\ program \in Bench!Programs => Bench!Settled

\* When nothing more comes from outside, a program has dealt with all that came: printed
\* it, reaped it, answered it or let it through, but for what its module names (the wait
\* of each program).
EverythingSettles == <>[]Settled
=============================================================================
