\* Typing on all the modifiers and a serial line, polled at any time, next to a mouse;
\* their characters meet in a buffer of four places, which wraps.
CONSTANTS
  Keys <- Keyboard
  SerialBytes = {0, 120}
  Mouse = TRUE
  CONSBUFSIZE = 4
  MaxEvents = 4
  MaxHeld = 3
  NULL = NULL
SPECIFICATION FairSpec
INVARIANTS TypeOK ModifiersTrackKeys CharacterAsTyped
PROPERTIES CtrlAltDelResets ImplementsFifo AllInputReturned
CHECK_DEADLOCK FALSE
