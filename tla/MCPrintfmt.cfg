\* Texts of up to three characters and all usual directives, in buffers of up
\* to four characters and on the console of the kernel and of a user program.
CONSTANTS
  NULL = NULL
  USER = USER
  NOBUF = NOBUF
  PRINTBUF = 4
  UINTS = 256
  Sizes = {0, 1, 4}
  Formats <- Texts
  Values <- ArgValues
SPECIFICATION Spec
INVARIANTS BufferHoldsPrefix UserTextWhole UnrecognizedAsWritten
PROPERTIES DirectiveAsMeant Returns
CHECK_DEADLOCK FALSE
