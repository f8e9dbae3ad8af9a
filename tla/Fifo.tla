-------------------------------- MODULE Fifo --------------------------------
(***************************************************************************)
(* What the console input buffer promises: the characters of all devices   *)
(* in one queue, each returned once, in the order they were taken from the *)
(* devices, and 0 returned only when none is waiting.                      *)
(***************************************************************************)
EXTENDS Naturals, Sequences

CONSTANTS Char, Capacity

VARIABLES
  q,     \* the characters waiting
  out    \* what the last cons_getc returned

Init == q = <<>> /\ out = 0

Put(c) ==
  /\ Len(q) < Capacity
  /\ q' = Append(q, c)
  /\ UNCHANGED out

Get ==
  /\ out' = IF q = <<>> THEN 0 ELSE Head(q)
  /\ q'   = IF q = <<>> THEN <<>> ELSE Tail(q)

Next == Get \/ \E c \in Char : Put(c)

Spec == Init /\ [][Next]_<<q, out>>
=============================================================================
