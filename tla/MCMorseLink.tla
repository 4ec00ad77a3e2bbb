---------------------------- MODULE MCMorseLink -----------------------------
(* The link on texts short enough for every schedule.  "E T" is ./- and two  *)
(* separators, so all four signals are sent; "I" and "AN" put equal and      *)
(* different signals next to each other; # has no code.                     *)
EXTENDS MorseLink

FreeTexts  == {<<"E", " ", "T">>, <<"A", "N">>, <<"I">>, <<"#">>}
PacedTexts == FreeTexts \cup {<<>>, <<"e", "#", "n">>}
ShortTexts == {<<"A", "N">>, <<"I">>}
=============================================================================
