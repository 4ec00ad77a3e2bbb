----------------------------- MODULE MorseCodec -----------------------------
(***************************************************************************)
(* The path of one text through Assignment1/morse.c: the child encodes it, *)
(* the parent ends up with some part of the symbols, and decodes that.     *)
(***************************************************************************)
EXTENDS MorseCode

CONSTANT Texts   \* the contents of buf the child may start from

VARIABLES text,      \* buf of the child
          morse,     \* its morseBuf
          heard,     \* morseBuf of the parent when it stops listening
          damage,    \* what the signals did: the whole arrived, its first k, all but the k-th
          decoded,   \* buf2 of the parent
          stage      \* "text", "encoded", "heard", "decoded"

vars == <<text, morse, heard, damage, decoded, stage>>

Init ==
  /\ text \in Texts
  /\ morse = <<>> /\ heard = <<>> /\ decoded = <<>>
  /\ damage = [kind |-> "none", at |-> 0]
  /\ stage = "text"

Encode ==
  /\ stage = "text" /\ stage' = "encoded"
  /\ morse' = stringToMorse(text)
  /\ UNCHANGED <<text, heard, damage, decoded>>

HearAll ==
  /\ stage = "encoded" /\ stage' = "heard"
  /\ heard' = Sent(morse)
  /\ UNCHANGED <<text, morse, damage, decoded>>

\* The parent's silence limit passes while the child is still sending.
HearPrefix ==
  /\ stage = "encoded" /\ stage' = "heard"
  /\ \E k \in 0 .. Len(Sent(morse)) - 1 :
       /\ heard' = SubSeq(morse, 1, k)
       /\ damage' = [kind |-> "cut", at |-> k]
  /\ UNCHANGED <<text, morse, decoded>>

\* One signal is merged into another, or its flag overwritten.
HearAllButOne ==
  /\ stage = "encoded" /\ stage' = "heard"
  /\ \E k \in DOMAIN Sent(morse) :
       /\ heard' = RemoveAt(Sent(morse), k)
       /\ damage' = [kind |-> "lost", at |-> k]
  /\ UNCHANGED <<text, morse, decoded>>

Decode ==
  /\ stage = "heard" /\ stage' = "decoded"
  /\ decoded' = morseToString(heard)
  /\ UNCHANGED <<text, morse, heard, damage>>

Next == Encode \/ HearAll \/ HearPrefix \/ HearAllButOne \/ Decode

Spec == Init /\ [][Next]_vars

----------------------------------------------------------------------------
(* Properties                                                              *)

Done == stage = "decoded"

\* The number of characters complete in the first k symbols of the child's string.
Complete(k) == Cardinality({n \in 1..k : morse[n] = gap})

\* When every signal arrives, the two searches of the one table undo each other:
\* the parent decodes exactly the normalised text (encodeToMorse, decodeFromMorse).
RoundTrip == Done /\ damage.kind = "none" => decoded = Normalised(text)

\* A parent that stops listening early has every character whose separator it
\* heard, and invents at most one more, from the code it holds the start of
\* (morseToString on an unfinished last token).
CutCostsOneCharacter ==
  Done /\ damage.kind = "cut" =>
    LET whole == Complete(damage.at)
    IN  /\ IsPrefix(SubSeq(Normalised(text), 1, whole), decoded)
        /\ Len(decoded) \in {whole, whole + 1}

\* One lost symbol never spreads: the character it belongs to, or the two that a
\* lost separator joins, become at most one character, and all the others are
\* decoded as they were sent (morseToString starts anew at each separator).
LossIsLocal ==
  Done /\ damage.kind = "lost" =>
    LET sent   == Normalised(text)
        before == Complete(damage.at - 1)
        hit    == IF morse[damage.at] = gap THEN 2 ELSE 1
        after  == SubSeq(sent, before + hit + 1, Len(sent))
    IN  /\ Len(decoded) \in {Len(sent) - hit, Len(sent) - hit + 1}
        /\ IsPrefix(SubSeq(sent, 1, before), decoded)
        /\ IsSuffix(after, decoded)

\* as1_mockup.c:113 sizes morseBuf for a worst case of four symbols and one
\* separator per character.
WorstCaseIsFive == Len(morse) <= 5 * Len(text)
=============================================================================
