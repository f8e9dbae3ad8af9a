-------------------------------- MODULE Cga ---------------------------------
(***************************************************************************)
(* Console output of kern/console.c.  cga_putc is an operator on the       *)
(* screen; the attribute byte of a cell is left out.  serial_putc and      *)
(* lpt_putc are an operator on the line a terminal (or printer) at the     *)
(* other end shows up to its cursor, for one that is wide enough.          *)
(***************************************************************************)
EXTENDS Integers, Sequences, SequencesExt

CONSTANTS
  CRT_ROWS, CRT_COLS,   \* 25 and 80
  Lost                  \* a line of which a character did not arrive

ASSUME ScreenAssumption ==
  CRT_ROWS \in Nat \ {0, 1} /\ CRT_COLS \in Nat \ {0}

CRT_SIZE == CRT_ROWS * CRT_COLS
Cell     == 0 .. CRT_SIZE - 1

BS == 8
TAB == 9
LF == 10
CR == 13
SPACE == 32
DEL == 127

(* A cursor past the last cell moves the screen up by one line.            *)
Scroll(s) ==
  IF s.pos < CRT_SIZE THEN s
  ELSE [cell |-> [k \in Cell |-> IF k < CRT_SIZE - CRT_COLS
                                 THEN s.cell[k + CRT_COLS] ELSE SPACE],
        pos  |-> s.pos - CRT_COLS]

Glyph(s, c) == Scroll([cell |-> [s.cell EXCEPT ![s.pos] = c], pos |-> s.pos + 1])

RowStart(pos) == pos - (pos % CRT_COLS)

(* A tab is five spaces, each put through cons_putc.                       *)
Tab(s) ==
  LET put(t) == Glyph(t, SPACE) IN put(put(put(put(put(s)))))

cga_putc(s, c) ==
  CASE c = BS  -> IF s.pos = 0 THEN s
                  ELSE [cell |-> [s.cell EXCEPT ![s.pos - 1] = SPACE],
                        pos  |-> s.pos - 1]
    [] c = LF  -> Scroll([s EXCEPT !.pos = RowStart(@ + CRT_COLS)])
    [] c = CR  -> [s EXCEPT !.pos = RowStart(@)]
    [] c = TAB -> Tab(s)
    [] OTHER   -> Glyph(s, c)

Advance(line, c) ==
  CASE c \in {LF, CR} -> <<>>
    [] c = BS         -> IF line \in {Lost, <<>>} THEN line ELSE Front(line)
    [] OTHER          -> IF line = Lost THEN Lost ELSE Append(line, c)

(* After 12800 polls the character is written all the same, over the one   *)
(* the port has not sent.                                                  *)
port_putc(line, c, ready) == IF ready THEN Advance(line, c) ELSE Lost

(* What a port gets for c: those of a tab are put on it, too.              *)
TabOnPort(line, ready) ==
  LET put(l) == port_putc(l, SPACE, ready)
  IN  put(put(put(put(put(port_putc(line, TAB, ready))))))

OnPort(line, c, ready) ==
  IF c = TAB THEN TabOnPort(line, ready) ELSE port_putc(line, c, ready)

(* The characters of a string one after the other, as cprintf puts them;   *)
(* a port is in time for all of them or not.                               *)
PutAll(s, text) ==
  LET after[n \in 0 .. Len(text)] ==
        IF n = 0 THEN s ELSE cga_putc(after[n - 1], text[n])
  IN  after[Len(text)]

SendAll(line, text, ready) ==
  LET after[n \in 0 .. Len(text)] ==
        IF n = 0 THEN line ELSE OnPort(after[n - 1], text[n], ready)
  IN  after[Len(text)]
=============================================================================
