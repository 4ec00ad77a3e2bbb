------------------------------ MODULE Mailbox -------------------------------
(* What lecture_examples/code_l7 builds four times over: a slot for one       *)
(* message.  A message is posted only when the one before has been printed,  *)
(* and every message is printed once, as it was posted, while the printing   *)
(* process is up.                                                            *)
EXTENDS Naturals, Sequences

CONSTANT Messages

VARIABLES posted,    \* every message posted so far
          printed,   \* every message printed so far
          up         \* whether the printing process still runs

vars == <<posted, printed, up>>

Init == posted = <<>> /\ printed = <<>> /\ up = TRUE

Post ==
  /\ posted = printed
  /\ \E m \in Messages : posted' = Append(posted, m)
  /\ UNCHANGED <<printed, up>>

PrintMessage ==
  /\ up /\ Len(printed) < Len(posted)
  /\ printed' = Append(printed, posted[Len(posted)])
  /\ UNCHANGED <<posted, up>>

Stop ==
  /\ up /\ up' = FALSE
  /\ UNCHANGED <<posted, printed>>

Next == Post \/ PrintMessage \/ Stop

SafeSpec == Init /\ [][Next]_vars

Spec == SafeSpec /\ WF_vars(PrintMessage)
=============================================================================
