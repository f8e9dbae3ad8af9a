------------------------------ MODULE Console -------------------------------
(***************************************************************************)
(* The input half of kern/console.c: the keyboard driver, the serial       *)
(* driver, the circular buffer both fill, and the kernel that polls them   *)
(* from getchar.                                                           *)
(*                                                                         *)
(* The kernel runs with interrupts disabled, so serial_intr and kbd_intr   *)
(* are called from cons_getc only, but the devices do not wait for it:     *)
(* bytes arrive between any two reads of a device.  One iteration of the   *)
(* loop of cons_intr is a step; the two reads of a status and a data       *)
(* register are in one step, because only the kernel empties a register.   *)
(*                                                                         *)
(* The keyboard sends the scan codes of the keys the typist presses and    *)
(* releases, one byte at a time through the controller's output buffer.    *)
(***************************************************************************)
EXTENDS Integers, Sequences, FiniteSets

CONSTANTS
  Keys,         \* the keys used, records (see KeyType)
  SerialBytes,  \* the bytes that arrive on the serial line
  Mouse,        \* whether a mouse shares the controller
  CONSBUFSIZE,  \* size of the circular buffer, 512 in the code
  MaxEvents,    \* bound: key and mouse events, then the devices are silent
  MaxHeld,      \* bound: keys down at a time
  NULL

Byte == 0 .. 255

(* A key: its scan codes, the modifier it is ("" for none) and the         *)
(* characters printed on it: alone, with Shift, with Ctrl.                 *)
KeyType == [make : Seq(Byte), break : Seq(Byte), mod : {"", "SHIFT", "CTL", "ALT", "CAPS"},
            plain : Byte, shifted : Byte, control : Byte]

ASSUME ConsoleAssumption ==
  /\ Keys \subseteq KeyType
  /\ SerialBytes \subseteq Byte
  /\ CONSBUFSIZE \in Nat /\ CONSBUFSIZE > 1
  /\ MaxEvents \in Nat /\ MaxHeld \in Nat /\ Mouse \in BOOLEAN
  /\ NULL \notin Byte

VARIABLES
  cons,          \* [buf, rpos, wpos], and how many characters were stored
                 \* and not returned (auxiliary)
  shift,         \* the static variable of kbd_proc_data, a set of flags
  serial_exists,
  pc,            \* where cons_getc is: "serial", "kbd", "take"; "reset" at the end
  out,           \* what the last cons_getc returned
  rx,            \* the receive register of the UART, or NULL
  obuf,          \* the output buffer of the keyboard controller, or NULL
  kq,            \* bytes the keyboard and the mouse have to send
  down, caps,    \* the keys that are down, and the Caps Lock state
  events
kernel  == <<cons, shift, pc, out>>
devices == <<rx, obuf, kq, down, caps, events>>
vars    == <<kernel, serial_exists, devices>>

-----------------------------------------------------------------------------
(* The circular buffer.                                                    *)

(* Mutant: a position never wraps (lines 404 and 405 missing).             *)
AdvanceByOne(pos) == pos + 1

Advance(pos) == IF pos + 1 = CONSBUFSIZE THEN 0 ELSE pos + 1

(* Mutant: the position is advanced before the character is stored.        *)
stash_advanced(cs, c) ==
  IF c = 0 THEN cs
  ELSE [cs EXCEPT !.buf[Advance(cs.wpos)] = c, !.wpos = Advance(cs.wpos),
                  !.unread = @ + 1]

(* cons_intr stores every character but 0, whether or not there is room.   *)
stash(cs, c) ==
  IF c = 0 THEN cs
  ELSE [cs EXCEPT !.buf[cs.wpos] = c, !.wpos = Advance(cs.wpos), !.unread = @ + 1]

(* Mutant: a buffer whose write position wrapped looks empty.              *)
HasInputBelow(cs) == cs.rpos < cs.wpos

HasInput(cs) == cs.rpos # cs.wpos

Waiting(cs) == IF cs.rpos <= cs.wpos THEN cs.wpos - cs.rpos
               ELSE cs.wpos + CONSBUFSIZE - cs.rpos
Slot(i)     == IF i < CONSBUFSIZE THEN i ELSE i - CONSBUFSIZE
Contents(cs) == [i \in 1 .. Waiting(cs) |-> cs.buf[Slot(cs.rpos + i - 1)]]

-----------------------------------------------------------------------------
(* The keyboard driver.  The tables are those of the code for the keys     *)
(* A, Enter, Home, Del and the modifiers; another key differs only in its  *)
(* character.                                                              *)

E0 == 224

shiftcode(data) ==
  CASE data \in {29, 157} -> {"CTL"}
    [] data \in {42, 54}  -> {"SHIFT"}
    [] data \in {56, 184} -> {"ALT"}
    [] OTHER              -> {}

togglecode(data) ==
  CASE data = 58 -> {"CAPSLOCK"}
    [] data = 69 -> {"NUMLOCK"}
    [] data = 70 -> {"SCROLLLOCK"}
    [] OTHER     -> {}

KEY_HOME == 224
KEY_DEL  == 233

normalmap(data) ==
  CASE data = 30         -> 97
    [] data \in {28, 156} -> 10
    [] data = 199        -> KEY_HOME
    [] data = 211        -> KEY_DEL
    [] data = 83         -> 46
    [] OTHER             -> 0

shiftmap(data) == IF data = 30 THEN 65 ELSE normalmap(data)

ctlmap(data) ==
  CASE data = 30  -> 1
    [] data = 28  -> 13
    [] data = 151 -> KEY_HOME
    [] data = 211 -> KEY_DEL
    [] OTHER      -> 0

charcode(flags, data) ==
  IF "CTL" \in flags THEN ctlmap(data)
  ELSE IF "SHIFT" \in flags THEN shiftmap(data) ELSE normalmap(data)

SwapCase(c) ==
  CASE c \in 97 .. 122 -> c - 32
    [] c \in 65 .. 90  -> c + 32
    [] OTHER           -> c

Toggle(S, T) == (S \ T) \cup (T \ S)

(* Mutant: the bit of an escaped key's release is dropped (data & 0x7F     *)
(* whatever E0ESC says).                                                   *)
kbd_proc_data_mask(flags, data) ==
  IF data = E0 THEN [shift |-> flags \cup {"E0ESC"}, c |-> 0]
  ELSE IF data >= 128
  THEN [shift |-> flags \ {"E0ESC"}, c |-> 0]
  ELSE LET d == IF "E0ESC" \in flags THEN data + 128 ELSE data
           s == Toggle((flags \ {"E0ESC"}) \cup shiftcode(d), togglecode(d))
           c == charcode(s, d)
       IN  [shift |-> s, c |-> IF "CAPSLOCK" \in s THEN SwapCase(c) ELSE c]

(* Mutant: E0ESC survives the key it belongs to (line 341 missing).        *)
kbd_proc_data_sticky(flags, data) ==
  IF data = E0 THEN [shift |-> flags \cup {"E0ESC"}, c |-> 0]
  ELSE IF data >= 128
  THEN LET d == IF "E0ESC" \in flags THEN data ELSE data - 128
       IN  [shift |-> flags \ (shiftcode(d) \cup {"E0ESC"}), c |-> 0]
  ELSE LET d == IF "E0ESC" \in flags THEN data + 128 ELSE data
           s == Toggle(flags \cup shiftcode(d), togglecode(d))
           c == charcode(s, d)
       IN  [shift |-> s, c |-> IF "CAPSLOCK" \in s THEN SwapCase(c) ELSE c]

(* The flags and the character after a byte of the keyboard.               *)
kbd_proc_data(flags, data) ==
  IF data = E0 THEN [shift |-> flags \cup {"E0ESC"}, c |-> 0]
  ELSE IF data >= 128
  THEN LET d == IF "E0ESC" \in flags THEN data ELSE data - 128
       IN  [shift |-> flags \ (shiftcode(d) \cup {"E0ESC"}), c |-> 0]
  ELSE LET d == IF "E0ESC" \in flags THEN data + 128 ELSE data
           s == Toggle((flags \ {"E0ESC"}) \cup shiftcode(d), togglecode(d))
           c == charcode(s, d)
       IN  [shift |-> s, c |-> IF "CAPSLOCK" \in s THEN SwapCase(c) ELSE c]

(* Mutant: either of Ctrl and Alt is enough.                               *)
RebootsOnEither(flags, c) == flags \cap {"CTL", "ALT"} # {} /\ c = KEY_DEL

Reboots(flags, c) == {"CTL", "ALT"} \subseteq flags /\ c = KEY_DEL

-----------------------------------------------------------------------------
(* The keyboard.  The index of a key in the tables is its scan code, with  *)
(* 128 added where E0 comes first; 96 is not used, for its release would   *)
(* be E0.                                                                  *)
Modifiers == {"CTL", "SHIFT", "ALT"}

HasIndex(k, d) ==
  /\ d \notin {E0 - 128, E0}
  /\ IF d < 128 THEN k.make = <<d>> /\ k.break = <<d + 128>>
                ELSE k.make = <<E0, d - 128>> /\ k.break = <<E0, d>>
  /\ shiftcode(d) = {k.mod} \cap Modifiers
  /\ "CAPSLOCK" \in togglecode(d) <=> k.mod = "CAPS"
  /\ k.plain = normalmap(d) /\ k.shifted = shiftmap(d) /\ k.control = ctlmap(d)

(* Any keys may be there, also both that shiftcode[] has of a modifier;    *)
(* what is printed on them is what the tables hold.                        *)
ASSUME KeyboardAssumption == \A k \in Keys : \E d \in Byte : HasIndex(k, d)

(* The two keys of a modifier share a flag, which the release of either    *)
(* ends: the typist has at most one of the two down at a time.             *)
OneOfEach(keys) ==
  \A j, k \in keys : j.mod = k.mod /\ j.mod \in Modifiers => j = k

(* A byte of the keyboard or the mouse, with the strike it ends.           *)
Strike == [key : Keys, mods : SUBSET Modifiers, caps : BOOLEAN]
Packet == [data : Byte, aux : BOOLEAN, strike : Strike \cup {NULL}]
ASSUME PacketAssumption == NULL \notin Strike /\ NULL \notin Packet

-----------------------------------------------------------------------------
Init ==
  /\ cons = [buf |-> [i \in 0 .. CONSBUFSIZE - 1 |-> 0],
             rpos |-> 0, wpos |-> 0, unread |-> 0]
  /\ shift = {}
  /\ serial_exists \in BOOLEAN
  /\ pc = "serial" /\ out = 0
  /\ rx = NULL /\ obuf = NULL /\ kq = <<>>
  /\ down = {} /\ caps = FALSE /\ events = 0

(* serial_intr: an iteration of cons_intr(serial_proc_data).               *)
serial_intr ==
  /\ pc = "serial"
  /\ IF serial_exists /\ rx # NULL
     THEN cons' = stash(cons, rx) /\ rx' = NULL /\ pc' = pc
     ELSE pc' = "kbd" /\ UNCHANGED <<cons, rx>>
  /\ UNCHANGED <<shift, out, serial_exists, obuf, kq, down, caps, events>>

(* kbd_intr: an iteration of cons_intr(kbd_proc_data).  A byte of the      *)
(* mouse is not read: the driver returns -1 and leaves it where it is.     *)
kbd_intr ==
  /\ pc = "kbd"
  /\ IF obuf # NULL /\ ~obuf.aux
     THEN LET r == kbd_proc_data(shift, obuf.data) IN
          /\ shift' = r.shift
          /\ IF Reboots(r.shift, r.c)
             THEN pc' = "reset" /\ UNCHANGED cons
             ELSE pc' = pc /\ cons' = stash(cons, r.c)
          /\ obuf' = NULL
     ELSE pc' = "take" /\ UNCHANGED <<cons, shift, obuf>>
  /\ UNCHANGED <<out, serial_exists, rx, kq, down, caps, events>>

(* The end of cons_getc.  getchar calls it again and again, and readline   *)
(* calls getchar again and again.                                          *)
cons_getc ==
  /\ pc = "take"
  /\ IF HasInput(cons)
     THEN /\ out' = cons.buf[cons.rpos]
          /\ cons' = [cons EXCEPT !.rpos = Advance(@), !.unread = @ - 1]
     ELSE out' = 0 /\ UNCHANGED cons
  /\ pc' = "serial"
  /\ UNCHANGED <<shift, serial_exists, devices>>

Kernel == serial_intr \/ kbd_intr \/ cons_getc

-----------------------------------------------------------------------------
(* The devices and the typist.                                             *)

(* Characters that may still enter the buffer: input keeps up with it.     *)
Pending == Waiting(cons) + Len(kq) + (IF obuf = NULL THEN 0 ELSE 1)
             + (IF rx = NULL THEN 0 ELSE 1)
InputFits(n) == Pending + n < CONSBUFSIZE

(* A byte of the serial line; with the FIFO off it replaces an unread one. *)
SerialArrives(b) ==
  /\ rx' = b
  /\ events' = events + 1
  /\ UNCHANGED <<kernel, serial_exists, obuf, kq, down, caps>>

(* What is struck is noted on the last byte of the key: the key and the    *)
(* modifiers in force.                                                     *)
Sent(codes, strike) ==
  [i \in 1 .. Len(codes) |->
     [data |-> codes[i], aux |-> FALSE,
      strike |-> IF i = Len(codes) THEN strike ELSE NULL]]

(* A key goes down, or repeats while it is down.                           *)
Press(k) ==
  LET keys == down \cup {k}
      cap  == IF k.mod = "CAPS" THEN ~caps ELSE caps
      mods == {j.mod : j \in keys} \ {"", "CAPS"}
  IN  /\ down' = keys /\ Cardinality(keys) <= MaxHeld /\ OneOfEach(keys)
      /\ caps' = cap
      /\ kq' = kq \o Sent(k.make, [key |-> k, mods |-> mods, caps |-> cap])
      /\ events' = events + 1
      /\ UNCHANGED <<kernel, serial_exists, rx, obuf>>

Release(k) ==
  /\ k \in down
  /\ down' = down \ {k}
  /\ kq' = kq \o Sent(k.break, NULL)
  /\ events' = events + 1
  /\ UNCHANGED <<kernel, serial_exists, rx, obuf, caps>>

MouseMoves ==
  /\ Mouse
  /\ kq' = Append(kq, [data |-> 0, aux |-> TRUE, strike |-> NULL])
  /\ events' = events + 1
  /\ UNCHANGED <<kernel, serial_exists, rx, obuf, down, caps>>

(* The controller takes the next byte when its output buffer was read.     *)
Transfer ==
  /\ obuf = NULL /\ kq # <<>>
  /\ obuf' = Head(kq) /\ kq' = Tail(kq)
  /\ UNCHANGED <<kernel, serial_exists, rx, down, caps, events>>

Input ==
  /\ events < MaxEvents
  /\ \/ \E b \in SerialBytes : InputFits(1) /\ SerialArrives(b)
     \/ \E k \in Keys : InputFits(Len(k.make)) /\ Press(k)
     \/ \E k \in Keys : InputFits(Len(k.break)) /\ Release(k)
     \/ InputFits(1) /\ MouseMoves

(* The same devices with no regard for the size of the buffer.             *)
FastInput ==
  /\ events < MaxEvents
  /\ \/ \E b \in SerialBytes : SerialArrives(b)
     \/ \E k \in Keys : Press(k) \/ Release(k)
     \/ MouseMoves

Next     == pc # "reset" /\ (Kernel \/ Transfer \/ Input)
FastNext == pc # "reset" /\ (Kernel \/ Transfer \/ FastInput)

Spec     == Init /\ [][Next]_vars
FastSpec == Init /\ [][FastNext]_vars

(* The processor runs, and the controller sends what it has.               *)
Fairness == WF_vars(pc # "reset" /\ Kernel) /\ WF_vars(pc # "reset" /\ Transfer)
FairSpec == Spec /\ Fairness

-----------------------------------------------------------------------------
(* Properties.                                                             *)

Flags == {"CTL", "SHIFT", "ALT", "CAPSLOCK", "NUMLOCK", "SCROLLLOCK", "E0ESC"}

(* Positions are in the buffer, registers hold bytes.                      *)
TypeOK ==
  /\ cons \in [buf : [0 .. CONSBUFSIZE - 1 -> Byte],
               rpos : 0 .. CONSBUFSIZE - 1, wpos : 0 .. CONSBUFSIZE - 1,
               unread : Nat]
  /\ shift \subseteq Flags
  /\ serial_exists \in BOOLEAN
  /\ pc \in {"serial", "kbd", "take", "reset"}
  /\ out \in Byte
  /\ rx \in Byte \cup {NULL}
  /\ obuf \in Packet \cup {NULL}
  /\ kq \in Seq(Packet)
  /\ down \subseteq Keys /\ caps \in BOOLEAN
  /\ events \in 0 .. MaxEvents

(* The circular buffer is a queue: while input keeps up, every character   *)
(* cons_intr stored is returned by cons_getc once and in order, and        *)
(* cons_getc returns 0 only when none is waiting.                          *)
Queue == INSTANCE Fifo WITH
           q <- Contents(cons), out <- out,
           Char <- 1 .. 255, Capacity <- CONSBUFSIZE - 1
ImplementsFifo == Queue!Spec

(* A modifier flag is set only while a key of that modifier is down, once  *)
(* the driver has read all the keyboard sent: no Shift, Ctrl or Alt sticks,*)
(* however the polls divide the bytes of an escaped key.  The typist is one *)
(* who has not both keys of a modifier down at once (OneOfEach).           *)
ModifiersTrackKeys ==
  obuf = NULL /\ kq = <<>> =>
    /\ \A m \in Modifiers :
         m \in shift <=> \E k \in down : k.mod = m
    /\ "CAPSLOCK" \in shift <=> caps
    /\ "E0ESC" \notin shift

(* What a strike means to the typist.                                      *)
Meaning(s) ==
  LET c == IF "CTL" \in s.mods THEN s.key.control
           ELSE IF "SHIFT" \in s.mods THEN s.key.shifted ELSE s.key.plain
  IN  IF s.caps THEN SwapCase(c) ELSE c

(* The character the driver makes of a key is the one the modifiers meant  *)
(* when the key was struck, however late the kernel polls the keyboard.    *)
CharacterAsTyped ==
  obuf # NULL /\ ~obuf.aux =>
    kbd_proc_data(shift, obuf.data).c =
      IF obuf.strike = NULL THEN 0 ELSE Meaning(obuf.strike)

(* The machine is reset by Del struck with Ctrl and Alt down, and by       *)
(* nothing else.                                                           *)
CtrlAltDelResets ==
  [][ (pc' = "reset") <=>
      (/\ pc = "kbd" /\ obuf # NULL /\ obuf' = NULL
       /\ obuf.strike # NULL
       /\ obuf.strike.key.plain = KEY_DEL
       /\ {"CTL", "ALT"} \subseteq obuf.strike.mods) ]_vars

(* When the devices fall silent everything they sent was returned: getchar *)
(* leaves nothing in a device or in the buffer.  Only a byte of the mouse  *)
(* stays, with the keyboard behind it, and a reset ends everything.        *)
AllInputReturned ==
  <>[](\/ pc = "reset"
       \/ /\ Contents(cons) = <<>>
          /\ serial_exists => rx = NULL
          /\ IF obuf = NULL THEN kq = <<>> ELSE obuf.aux)

-----------------------------------------------------------------------------
(* A statement of the comments that the code does not keep.                *)

(* console.c:409, cons_getc: "return the next input character from the     *)
(* console, or 0 if none waiting".                                         *)
ZeroOnlyIfNoneWaiting ==
  [][pc = "take" /\ pc' # pc /\ out' = 0 => cons.unread = 0]_vars
=============================================================================
