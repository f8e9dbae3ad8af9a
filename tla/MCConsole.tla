----------------------------- MODULE MCConsole ------------------------------
(* Keyboards for Console: the scan codes a PC keyboard sends.              *)
EXTENDS Console

Key(make, break, mod, plain, shifted, control) ==
  [make |-> make, break |-> break, mod |-> mod,
   plain |-> plain, shifted |-> shifted, control |-> control]

ShiftKey == Key(<<42>>, <<170>>, "SHIFT", 0, 0, 0)
CtrlKey  == Key(<<29>>, <<157>>, "CTL", 0, 0, 0)
RCtrlKey == Key(<<224, 29>>, <<224, 157>>, "CTL", 0, 0, 0)
AltKey   == Key(<<56>>, <<184>>, "ALT", 0, 0, 0)
CapsKey  == Key(<<58>>, <<186>>, "CAPS", 0, 0, 0)
AKey     == Key(<<30>>, <<158>>, "", 97, 65, 1)
DelKey   == Key(<<224, 83>>, <<224, 211>>, "", 233, 233, 233)

\* A keyboard with both keys of Ctrl, one of which is escaped.
Keyboard == {ShiftKey, CtrlKey, RCtrlKey, AltKey, CapsKey, AKey, DelKey}
OneKey   == {AKey}
=============================================================================
