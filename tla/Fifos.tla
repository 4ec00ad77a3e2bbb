-------------------------------- MODULE Fifos --------------------------------
(***************************************************************************)
(* The FIFOs of lecture_examples (p1 and p2 of L5/mpx-*.c, /tmp/daemon_fifo *)
(* of L4/daemon.c), as the kernel keeps them, and the strangers who write  *)
(* into them.  The n-th thing written into a FIFO is the number n.         *)
(***************************************************************************)
EXTENDS CourseProgram, SequencesExt

CONSTANTS
  Pipes,      \* the FIFOs
  Writes,     \* at most so much is written into all of them ...
  Openings,   \* ... by so many writers
  Block       \* so much of it fits into one read: 4095 bytes, 4096 or 1024

Empty ==
  [writer |-> [k \in Pipes |-> FALSE],   \* whether a writer has it open
   openings |-> [k \in Pipes |-> 0],     \* how many have had it open so far
   due |-> [k \in Pipes |-> 0],          \* how much the first of them has written
   taken |-> [k \in Pipes |-> 0],        \* how much has been read
   pending |-> {},                       \* signals for the program
   file |-> "fifo"]                      \* what the name of a FIFO leads to

Total(f) == FoldFunction(LAMBDA m, n : m + n, 0, f)

\* A writer's open returns once somebody has FIFO k open for reading, or is about to.
WriterOpens(k) ==
  /\ ~os.writer[k] /\ Total(os.openings) < Openings
  /\ os' = [os EXCEPT !.writer[k] = TRUE, !.openings[k] = @ + 1]
  /\ UNCHANGED <<program, at, local, sent, got>>

WriterWrites(k) ==
  /\ os.writer[k] /\ Total([f \in Pipes |-> Len(sent[f])]) < Writes
  /\ sent' = [sent EXCEPT ![k] = Append(@, Len(@) + 1)]
  /\ os' = [os EXCEPT !.due[k] = IF os.openings[k] = 1 THEN @ + 1 ELSE @]
  /\ UNCHANGED <<program, at, local, got>>

WriterCloses(k) ==
  /\ os.writer[k] /\ os' = [os EXCEPT !.writer[k] = FALSE]
  /\ UNCHANGED <<program, at, local, sent, got>>

More(k) == os.taken[k] < Len(sent[k])
AtEnd(k) == ~More(k) /\ ~os.writer[k]       \* read returns 0
WouldBlock(k) == ~More(k) /\ os.writer[k]   \* read waits, or fails with EAGAIN

\* What a read of FIFO k returns, and what it leaves.
Chunk(k) == SubSeq(sent[k], os.taken[k] + 1, Least(os.taken[k] + Block, Len(sent[k])))
Take(k) == [os EXCEPT !.taken[k] = @ + Len(Chunk(k))]

\* A process reads from k and prints what it has read.
ReadAndPrint(k) ==
  /\ More(k) /\ os' = Take(k) /\ got' = [got EXCEPT ![k] = @ \o Chunk(k)]
  /\ UNCHANGED <<program, sent>>
=============================================================================
