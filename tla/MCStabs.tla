------------------------------ MODULE MCStabs -------------------------------
(* Symbol tables for Stabs.                                                *)
EXTENDS Stabs, Sequences, SequencesExt

Stab(type, value, desc) == [type |-> type, value |-> value, desc |-> desc]
ZeroBased(t) == [k \in 0 .. Len(t) - 1 |-> t[k + 1]]

Header == <<Stab("UNDF", 0, 0)>>

\* Every arrangement of up to five SO stabs, at increasing addresses, among
\* others.
Arranged(n) ==
  { t \in [0 .. n -> {Stab("UNDF", 0, 0)} \cup {Stab("SO", v, 0) : v \in 1 .. 5}] :
      /\ t[0].type = "UNDF"
      /\ \A j, k \in 0 .. n : j < k /\ t[j].type = "SO" /\ t[k].type = "SO"
                                => t[j].value <= t[k].value }
Arrangements == UNION {Arranged(n) : n \in 1 .. 5}

\* Programs of two files as the compiler writes them, each function with its
\* arguments and its lines, with or without an assembly file between them.
Function(at, nargs, offsets, line) ==
  <<Stab("FUN", at, 0)>> \o [k \in 1 .. nargs |-> Stab("PSYM", 0, 0)]
    \o [k \in 1 .. Len(offsets) |-> Stab("SLINE", offsets[k], line + k)]
Bodies == {<<0>>, <<0, 1>>, <<0, 2>>, <<0, 2, 4>>}
Assembly(at) == <<Stab("SO", at, 0), Stab("SLINE", at, 50), Stab("SLINE", at + 1, 51)>>
Programs ==
  { ZeroBased(Header \o <<Stab("SO", 2, 0)>> \o Function(2, n, b, 10)
        \o inc \o Function(2 + len, 1, <<0, 3>>, 20) \o asm
        \o <<Stab("SO", 6 + len + Len(asm), 0)>>
        \o Function(6 + len + Len(asm), 2 - n, c, 30)) :
      n \in 0 .. 2, b \in Bodies, c \in Bodies, inc \in {<<>>, <<Stab("SOL", 3, 0)>>},
      <<len, asm>> \in {1, 5, 6} \X {<<>>} \cup {<<l, Assembly(6 + l)>> : l \in {1, 5, 6}} }

All == Arrangements \cup Programs
=============================================================================
