---------------------------- MODULE MCMorseCodec ----------------------------
(* The codec on every text of up to two characters of the table.             *)
EXTENDS MorseCodec

Table == {morseTable[n][1] : n \in DOMAIN morseTable}

MCTexts == BoundedSeq(Table, 2)
=============================================================================
