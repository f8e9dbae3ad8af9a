------------------------------- MODULE MCEnv --------------------------------
(* Small instances of Env for TLC.                                         *)
EXTENDS Env

AscendingOrder == [i \in 1 .. npages - 1 |-> i]
AllPgdirs == Slot \cup {KernPgdir}
UserWritable == {{"W", "U"}}
=============================================================================
