------------------------------- MODULE MCMorse -------------------------------
(* Assignment1 without any assumption on timing: its conversions on a text    *)
(* that arrives whole, cut short or with one symbol lost, or its two          *)
(* processes under every schedule; `program` says which.                      *)
EXTENDS MCMorseLink

VARIABLES program, bufText, bufMorse, bufHeard, bufDamage, bufDecoded, bufStage

Table == {morseTable[n][1] : n \in DOMAIN morseTable}

\* E and T are one symbol long, $ the longest, # has no code.
Kinds == {"E", "t", " ", "$", "#"}

\* The texts for the conversions alone: all of up to two characters of the table and three
\* that are not in it, and longer ones of the kinds that differ.
CodecTexts == BoundedSeq(Table \cup {"q", "#", NUL}, 2) \cup BoundedSeq(Kinds, 4)

Codec == INSTANCE MorseCodec WITH Texts <- CodecTexts, text <- bufText, morse <- bufMorse,
  heard <- bufHeard, damage <- bufDamage, decoded <- bufDecoded, stage <- bufStage

codec == <<bufText, bufMorse, bufHeard, bufDamage, bufDecoded, bufStage>>

AnyText(S) == CHOOSE t \in S : TRUE

MCInit ==
  /\ program \in {"as1_mockup", "morse"} /\ Init /\ Codec!Init
  /\ IF program = "morse" THEN text = AnyText(Texts) ELSE bufText = AnyText(CodecTexts)

MCNext ==
  \/ program = "as1_mockup" /\ Next /\ UNCHANGED <<program, codec>>
  \/ program = "morse" /\ Codec!Next /\ UNCHANGED <<program, vars>>

MCSpec == MCInit /\ [][MCNext]_<<program, vars, codec>>

\* The parent decodes exactly the normalised text (encodeToMorse, decodeFromMorse).
RoundTrip == Codec!RoundTrip

\* A parent that stops early has the finished characters, and at most one more (morseToString).
CutCostsOneCharacter == Codec!CutCostsOneCharacter

\* One lost symbol costs one character, or the two it joins (morseToString).
LossIsLocal == Codec!LossIsLocal
=============================================================================
