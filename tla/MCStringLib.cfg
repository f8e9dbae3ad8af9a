\* Moves on 12 bytes, strings of up to three characters, numbers of up to four.
CONSTANTS
  Base = 4
  Size = 12
  LongMax = 2047
  Calls <- All
SPECIFICATION Spec
INVARIANTS WritesCorrect ResultCorrect
PROPERTIES Returns
CHECK_DEADLOCK FALSE
