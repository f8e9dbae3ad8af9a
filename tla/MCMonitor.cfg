\* Lines of up to five characters on a screen of three rows of four.
CONSTANTS
  CRT_ROWS = 3
  CRT_COLS = 4
  Lost = Lost
  BUFLEN = 6
  MAXARGS = 3
  Typed <- Keystrokes
  Prompt <- K
  Replies <- Outputs
  commands <- Names
SPECIFICATION Spec
INVARIANTS EchoMatchesBuffer
PROPERTIES CommandAsShown
