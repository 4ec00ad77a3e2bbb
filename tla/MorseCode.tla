----------------------------- MODULE MorseCode ------------------------------
(***************************************************************************)
(* The code between text and Morse symbols of Assignment1/morse.c: its     *)
(* table, its two searches and its two walks of a string.                  *)
(*                                                                         *)
(* A character is a one-character string and a C string the sequence of    *)
(* its characters; NUL is the character that ends one.  A Morse string is  *)
(* a sequence over Symbols.                                                *)
(***************************************************************************)
EXTENDS Integers, Sequences, SequencesExt

\* The symbols '.', '-', '/' and ' '.
dit == "dit"
dah == "dah"
slash == "slash"
gap == "gap"
Symbols == {dit, dah, slash, gap}

NUL == "NUL"

\* The pairs of morseTable in the order the two searches visit them.
morseTable == <<
  <<"A", <<dit, dah>> >>, <<"B", <<dah, dit, dit, dit>> >>,
  <<"C", <<dah, dit, dah, dit>> >>, <<"D", <<dah, dit, dit>> >>,
  <<"E", <<dit>> >>, <<"F", <<dit, dit, dah, dit>> >>,
  <<"G", <<dah, dah, dit>> >>, <<"H", <<dit, dit, dit, dit>> >>,
  <<"I", <<dit, dit>> >>, <<"J", <<dit, dah, dah, dah>> >>,
  <<"K", <<dah, dit, dah>> >>, <<"L", <<dit, dah, dit, dit>> >>,
  <<"M", <<dah, dah>> >>, <<"N", <<dah, dit>> >>, <<"O", <<dah, dah, dah>> >>,
  <<"P", <<dit, dah, dah, dit>> >>, <<"Q", <<dah, dah, dit, dah>> >>,
  <<"R", <<dit, dah, dit>> >>, <<"S", <<dit, dit, dit>> >>, <<"T", <<dah>> >>,
  <<"U", <<dit, dit, dah>> >>, <<"V", <<dit, dit, dit, dah>> >>,
  <<"W", <<dit, dah, dah>> >>, <<"X", <<dah, dit, dit, dah>> >>,
  <<"Y", <<dah, dit, dah, dah>> >>, <<"Z", <<dah, dah, dit, dit>> >>,
  <<"0", <<dah, dah, dah, dah, dah>> >>, <<"1", <<dit, dah, dah, dah, dah>> >>,
  <<"2", <<dit, dit, dah, dah, dah>> >>, <<"3", <<dit, dit, dit, dah, dah>> >>,
  <<"4", <<dit, dit, dit, dit, dah>> >>, <<"5", <<dit, dit, dit, dit, dit>> >>,
  <<"6", <<dah, dit, dit, dit, dit>> >>, <<"7", <<dah, dah, dit, dit, dit>> >>,
  <<"8", <<dah, dah, dah, dit, dit>> >>, <<"9", <<dah, dah, dah, dah, dit>> >>,
  <<".", <<dit, dah, dit, dah, dit, dah>> >>,
  <<",", <<dah, dah, dit, dit, dah, dah>> >>,
  <<"?", <<dit, dit, dah, dah, dit, dit>> >>,
  <<"'", <<dit, dah, dah, dah, dah, dit>> >>,
  <<"!", <<dah, dit, dah, dit, dah, dah>> >>,
  <<"/", <<dah, dit, dit, dah, dit>> >>, <<"(", <<dah, dit, dah, dah, dit>> >>,
  <<")", <<dah, dit, dah, dah, dit, dah>> >>,
  <<"&", <<dit, dah, dit, dit, dit>> >>,
  <<":", <<dah, dah, dah, dit, dit, dit>> >>,
  <<";", <<dah, dit, dah, dit, dah, dit>> >>,
  <<"=", <<dah, dit, dit, dit, dah>> >>, <<"+", <<dit, dah, dit, dah, dit>> >>,
  <<"-", <<dah, dit, dit, dit, dit, dah>> >>,
  <<"_", <<dit, dit, dah, dah, dit, dah>> >>,
  <<"\"", <<dit, dah, dit, dit, dah, dit>> >>,
  <<"$", <<dit, dit, dit, dah, dit, dit, dah>> >>,
  <<"@", <<dit, dah, dah, dit, dah, dit>> >>, <<" ", <<slash>> >> >>

\* toupper() of the C library, in the C locale.
Lower == <<"a","b","c","d","e","f","g","h","i","j","k","l","m",
           "n","o","p","q","r","s","t","u","v","w","x","y","z">>
Upper == <<"A","B","C","D","E","F","G","H","I","J","K","L","M",
           "N","O","P","Q","R","S","T","U","V","W","X","Y","Z">>
toupper(c) ==
  IF c \in Range(Lower) THEN Upper[CHOOSE n \in DOMAIN Lower : Lower[n] = c] ELSE c

----------------------------------------------------------------------------
\* The character pointer NULL that encodeToMorse returns for "not in the table".
NULL == <<>>

encodeToMorse(input) ==
  LET hits == {n \in DOMAIN morseTable : morseTable[n][1] = toupper(input)}
  IN  IF hits = {} THEN NULL ELSE morseTable[Min(hits)][2]

\* What a C function that walks a char* sees of it.
CString(str) ==
  LET stops == {n \in DOMAIN str : str[n] = NUL}
  IN  IF stops = {} THEN str ELSE SubSeq(str, 1, Min(stops) - 1)

\* Mutant: the separator is left out.
stringToMorseNoSeparator(str) == FlattenSeq([n \in DOMAIN str |-> encodeToMorse(str[n])])

\* Every character of the table as its code and one separator; the others vanish.
stringToMorse(str) ==
  LET Encoded(c) == IF encodeToMorse(c) = NULL THEN <<>> ELSE Append(encodeToMorse(c), gap)
      chars == CString(str)
  IN  FlattenSeq([n \in DOMAIN chars |-> Encoded(chars[n])])

decodeFromMorse(code) ==
  LET hits == {n \in DOMAIN morseTable : morseTable[n][2] = code}
  IN  IF hits = {} THEN NUL ELSE morseTable[Min(hits)][1]

\* The tokens strtok finds: the maximal runs without a separator, never empty.
Tokens(morse) ==
  LET Inside(n) == n \in DOMAIN morse /\ morse[n] # gap
      starts    == {n \in DOMAIN morse : Inside(n) /\ ~Inside(n - 1)}
      End(n)    == Min({m \in n .. Len(morse) : ~Inside(m + 1)})
      Start(j)  == CHOOSE n \in starts : Cardinality({m \in starts : m <= n}) = j
  IN  [j \in 1 .. Cardinality(starts) |-> SubSeq(morse, Start(j), End(Start(j)))]

\* Mutant: an unknown code ends the loop, as "while (token && decodedChar)" would.
morseToStringStops(morse) ==
  CString([n \in DOMAIN Tokens(morse) |-> decodeFromMorse(Tokens(morse)[n])])

\* Mutant: the terminator is written over the last character.
morseToStringShort(morse) ==
  LET decoded == SelectSeq([n \in DOMAIN Tokens(morse) |-> decodeFromMorse(Tokens(morse)[n])],
                           LAMBDA c : c # NUL)
  IN  IF decoded = <<>> THEN <<>> ELSE Front(decoded)

morseToString(morse) ==
  SelectSeq([n \in DOMAIN Tokens(morse) |-> decodeFromMorse(Tokens(morse)[n])],
            LAMBDA c : c # NUL)

\* The symbols sendMorseAsSignals has a signal for: all but the last, a separator.
Sent(morse) == IF morse = <<>> THEN <<>> ELSE Front(morse)

\* What a transmission should deliver, said without the codes: the text up to
\* its NUL, in upper case, without the characters the table lacks.
Normalised(t) ==
  LET InTable(c) == \E n \in DOMAIN morseTable : morseTable[n][1] = c
  IN  SelectSeq([n \in DOMAIN CString(t) |-> toupper(t[n])], InTable)

=============================================================================
