----------------------------- MODULE MCPrintfmt -----------------------------
(* Formats and arguments for Printfmt.                                     *)
EXTENDS Printfmt, SequencesExt

Letter == {"%", "-", "0", "3", "*", ".", "#", "l", "q", "c", "e", "s", "d", "x", "p"}

\* Any text of up to three characters, and directives of the usual form and
\* of others.
Option(S) == {<<>>} \cup S
Directives ==
  { <<"%">> \o fl \o w \o p \o l \o <<c>> :
      fl \in Option({<<"-">>, <<"0">>, <<"#">>, <<"#", "0">>}),
      w  \in Option({<<"4">>, <<"*">>}),
      p  \in Option({<<".">>, <<".", "1">>, <<".", "*">>}),
      l  \in Option({<<"l">>, <<"l", "l">>}),
      c  \in {"c", "e", "s", "d", "u", "o", "x", "p", "%", "q"} }
Texts == SeqOf(Letter, 3) \cup Directives
           \cup {<<"A">> \o x \o <<"B">> : x \in {<<"%", "5", "3", "x">>, <<"%", "s", "%", "d">>}}

ArgValues(type) ==
  CASE type = "*"         -> {-1, 0, 3}
    [] type = "char"      -> {"A"}
    [] type = "int"       -> {-127, -3, 0, 5, 100}
    [] type = "long long" -> {-2, 300}
    [] type = "string"    -> {NULL, <<>>, <<"a">>, <<"a", "\t", "b", "c">>}
    [] type = "pointer"   -> {0, 200}
=============================================================================
