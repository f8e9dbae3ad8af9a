\* Every arrangement of up to five stabs of one type, and the symbol tables of
\* small programs.
CONSTANTS
  Tables <- All
  Addrs = {0, 1, 2, 3, 4, 5, 6, 7, 8, 9, 10, 11, 12, 13, 14, 15, 16, 31}
  UINTPTRS = 32
SPECIFICATION LookupSpec
INVARIANTS SearchBrackets FindsFunctionAndLine
PROPERTIES LookupReturns
