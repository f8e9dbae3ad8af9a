----------------------------- MODULE MCMonitor ------------------------------
(* A small screen and the characters typed on it.                          *)
EXTENDS Monitor

\* a, space, Backspace, Delete, Enter.
Keystrokes == {97, 32, 8, 127, 10}

K        == <<75>>
Outputs  == { <<10>>, <<9>> }
Names    == { <<97, 97>> }
=============================================================================
