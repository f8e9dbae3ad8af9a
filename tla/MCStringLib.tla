---------------------------- MODULE MCStringLib -----------------------------
(* Calls for StringLib: 12 bytes of memory at an aligned address, as one   *)
(* region for the moves and as two objects of six bytes for the strings.   *)
EXTENDS StringLib, Sequences, SequencesExt

A == Base
B == Base + 6

Call(fn, m, v, w, c, n) == [fn |-> fn, mem |-> m, v |-> v, w |-> w, c |-> c, n |-> n]

\* Every byte of memory is another one.
Distinct == [a \in Address |-> a]
MoveCalls ==
  [fn : Moves, mem : {Distinct}, v : Address, w : Address, c : {7, 263}, n : 0 .. 8]

\* An object holds a string and garbage.
Text(s, t) ==
  LET byte(r, i) == IF i <= Len(r) THEN r[i] ELSE IF i = Len(r) + 1 THEN 0 ELSE 90
  IN  [a \in Address |-> IF a < B THEN byte(s, a - A + 1) ELSE byte(t, a - B + 1)]
Strings == SeqOf({65, 200}, 2) \cup {<<65, 65, 200>>, <<65, 65, 65>>}
Texts   == {Text(s, t) : s \in Strings, t \in Strings}

\* The second string is the other object's, or the end of the first.
StringCalls ==
  { Call(fn, m, A, w, c, n) :
      fn \in Copies \cup Searches, m \in Texts, w \in {A + 1, B},
      c \in {0, 321, 200}, n \in 0 .. 5 }

Digits == SeqOf({32, 43, 45, 48, 49, 57, 97, 120}, 4)
NumberCalls ==
  { Call("strtol", Text(s, <<>>), A, B, 0, base) : s \in Digits, base \in {0, 8, 10, 16} }

All == {x \in MoveCalls \cup StringCalls \cup NumberCalls : Defined(x)}
=============================================================================
