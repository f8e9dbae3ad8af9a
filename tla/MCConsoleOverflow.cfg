CONSTANTS
  Keys <- OneKey
  SerialBytes = {120}
  Mouse = FALSE
  CONSBUFSIZE = 4
  MaxEvents = 8
  MaxHeld = 1
  NULL = NULL
SPECIFICATION FastSpec
PROPERTY ZeroOnlyIfNoneWaiting
