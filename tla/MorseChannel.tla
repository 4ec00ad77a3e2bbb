---------------------------- MODULE MorseChannel ----------------------------
(* What Assignment1/as1_mockup.c promises of its signals (its main and the   *)
(* test bench's "Transmitted file not identical"): a channel that delivers   *)
(* every symbol sent, once, unchanged and in order.                          *)
EXTENDS Naturals, Sequences

CONSTANT Symbols

VARIABLES sent,       \* the symbols the child has sent so far
          delivered   \* the symbols the parent has stored so far

vars == <<sent, delivered>>

Init == sent = <<>> /\ delivered = <<>>

Send ==
  /\ \E x \in Symbols : sent' = Append(sent, x)
  /\ UNCHANGED delivered

Deliver ==
  /\ Len(delivered) < Len(sent)
  /\ delivered' = Append(delivered, sent[Len(delivered) + 1])
  /\ UNCHANGED sent

Next == Send \/ Deliver

SafeSpec == Init /\ [][Next]_vars

Spec == SafeSpec /\ WF_vars(Deliver)
=============================================================================
