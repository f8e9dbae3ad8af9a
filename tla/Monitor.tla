------------------------------ MODULE Monitor -------------------------------
(***************************************************************************)
(* The kernel monitor: readline of lib/readline.c, which edits a static    *)
(* buffer and echoes to the display, and runcmd of kern/monitor.c, which   *)
(* cuts that buffer into arguments in place.  This is the program a panic  *)
(* leaves running: _panic calls monitor for ever.                          *)
(*                                                                         *)
(* One character of readline, and one character of the parser of runcmd,   *)
(* is a step.  getchar returns any character typed (module Console).       *)
(***************************************************************************)
EXTENDS Cga, FiniteSets

CONSTANTS
  BUFLEN,     \* size of readline's buffer, 1024
  MAXARGS,    \* size of argv, 16
  Typed,      \* the characters getchar returns
  Prompt,     \* what readline prints first
  Replies,    \* what a command or a message of runcmd may print
  commands    \* the names of the commands, sequences of characters

Char == 0 .. 255

ASSUME MonitorAssumption ==
  /\ BUFLEN \in Nat \ {0} /\ MAXARGS \in Nat \ {0}
  /\ Typed \subseteq Char \ {0} /\ Prompt \in Seq(Char) /\ Replies \subseteq Seq(Char)
  /\ Lost \notin Seq(Char)
  /\ BUFLEN + CRT_COLS <= CRT_SIZE   \* a line fits on the screen

VARIABLES
  crt,      \* crt_buf and crt_pos
  lines,    \* what the terminals on the serial and the parallel port show
  buf, i,   \* readline's buffer and index
  pc,       \* "prompt", "read", "gobble", "scan", "lookup"
  p,        \* runcmd's moving pointer, an index of buf
  argv,     \* the pointers runcmd saved
  result,   \* what became of the last line (see lookup), for the properties
  shown     \* auxiliary: the text on the screen when Enter was typed
vars == <<crt, lines, buf, i, pc, p, argv, result, shown>>

Ports == {"serial", "lpt"}

Init ==
  /\ crt \in [cell : {[k \in Cell |-> SPACE]}, pos : Cell]  \* the BIOS left a cursor
  /\ lines = [q \in Ports |-> <<>>]
  /\ buf = [k \in 0 .. BUFLEN - 1 |-> 0] /\ i = 0
  /\ pc = "prompt" /\ p = 0 /\ argv = <<>>
  /\ result = [kind |-> "none", words |-> <<>>]
  /\ shown = <<>>

(* cons_putc of each character; any of the ports may be out of time.       *)
cons_puts(text) ==
  /\ crt' = PutAll(crt, text)
  /\ \E ready \in SUBSET Ports :
       lines' = [q \in Ports |-> SendAll(lines[q], text, q \in ready)]

-----------------------------------------------------------------------------
(* readline                                                                *)

PrintPrompt ==
  /\ pc = "prompt"
  /\ cons_puts(Prompt)
  /\ i' = 0 /\ pc' = "read"
  /\ UNCHANGED <<buf, p, argv, result, shown>>

(* Mutant: an erased character stays on the screen (line 25 missing).      *)
EraseUnechoed(c) ==
  /\ c \in {BS, DEL} /\ i > 0
  /\ i' = i - 1
  /\ UNCHANGED <<crt, lines, buf, pc, p, argv, result, shown>>

Erase(c) ==
  /\ c \in {BS, DEL} /\ i > 0
  /\ cons_puts(<<BS>>)
  /\ i' = i - 1
  /\ UNCHANGED <<buf, pc, p, argv, result, shown>>

(* A Delete in an empty line is not an erase: it is kept like a letter.    *)
Keep(c) ==
  /\ ~(c \in {BS, DEL} /\ i > 0)
  /\ c >= SPACE /\ i < BUFLEN - 1
  /\ cons_puts(<<c>>)
  /\ buf' = [buf EXCEPT ![i] = c]
  /\ i' = i + 1
  /\ UNCHANGED <<pc, p, argv, result, shown>>

(* Enter ends the line, and runcmd starts on it.                           *)
Enter(c) ==
  /\ c \in {LF, CR}
  /\ cons_puts(<<LF>>)
  /\ buf' = [buf EXCEPT ![i] = 0]
  /\ shown' = [k \in 1 .. i |-> crt.cell[crt.pos - i + k - 1]]
  /\ pc' = "gobble" /\ p' = 0 /\ argv' = <<>>
  /\ UNCHANGED <<i, result>>

(* Anything else is dropped: a control character, or any when the buffer   *)
(* is full.                                                                *)
Drop(c) ==
  /\ c \notin {LF, CR} /\ ~(c \in {BS, DEL} /\ i > 0)
  /\ c < SPACE \/ i = BUFLEN - 1
  /\ UNCHANGED vars

readline == pc = "read" /\ \E c \in Typed : Erase(c) \/ Keep(c) \/ Enter(c) \/ Drop(c)

-----------------------------------------------------------------------------
(* runcmd                                                                  *)

WHITESPACE == {TAB, CR, LF, SPACE}

(* A message of runcmd, or the output of a command, and the prompt again.  *)
Reply(kind, words) ==
  /\ result' = [kind |-> kind, words |-> words]
  /\ \E r \in Replies : cons_puts(r)
  /\ pc' = "prompt"
  /\ UNCHANGED <<buf, i, p, argv, shown>>

(* Mutant: whitespace is skipped, not overwritten.                         *)
GobbleKeeping ==
  /\ buf[p] \in WHITESPACE
  /\ p' = p + 1
  /\ UNCHANGED <<crt, lines, buf, i, pc, argv, result, shown>>

Gobble ==
  /\ buf[p] \in WHITESPACE
  /\ buf' = [buf EXCEPT ![p] = 0]
  /\ p' = p + 1
  /\ UNCHANGED <<crt, lines, i, pc, argv, result, shown>>

SaveArg ==
  /\ buf[p] \notin WHITESPACE \cup {0}
  /\ Len(argv) # MAXARGS - 1
  /\ argv' = Append(argv, p)
  /\ pc' = "scan"
  /\ UNCHANGED <<crt, lines, buf, i, p, result, shown>>

TooManyArgs ==
  /\ buf[p] \notin WHITESPACE \cup {0}
  /\ Len(argv) = MAXARGS - 1
  /\ Reply("refused", <<>>)

EndOfLine ==
  /\ buf[p] = 0
  /\ pc' = "lookup"
  /\ UNCHANGED <<crt, lines, buf, i, p, argv, result, shown>>

gobble == pc = "gobble" /\ (Gobble \/ SaveArg \/ TooManyArgs \/ EndOfLine)

scan ==
  /\ pc = "scan"
  /\ IF buf[p] \in WHITESPACE \cup {0}
     THEN pc' = "gobble" /\ UNCHANGED p
     ELSE p' = p + 1 /\ UNCHANGED pc
  /\ UNCHANGED <<crt, lines, buf, i, argv, result, shown>>

(* The string a pointer into buf points to.                                *)
String(a) ==
  LET end == CHOOSE e \in a .. BUFLEN - 1 :
               buf[e] = 0 /\ \A k \in a .. e - 1 : buf[k] # 0
  IN  [k \in 1 .. end - a |-> buf[a + k - 1]]

lookup ==
  /\ pc = "lookup"
  /\ LET words == [k \in 1 .. Len(argv) |-> String(argv[k])] IN
     IF argv = <<>>
     THEN /\ result' = [kind |-> "empty", words |-> <<>>]
          /\ pc' = "prompt"
          /\ UNCHANGED <<crt, lines, buf, i, p, argv, shown>>
     ELSE Reply(IF words[1] \in commands THEN "run" ELSE "unknown", words)

Next == PrintPrompt \/ readline \/ gobble \/ scan \/ lookup

Spec == Init /\ [][Next]_vars

-----------------------------------------------------------------------------
(* Properties.                                                             *)

(* The characters before the cursor are the line in the buffer, whatever   *)
(* was typed, erased, wrapped to the next row or scrolled: what the user   *)
(* sees is what readline returns.  So does a terminal on a port, unless    *)
(* the port was too slow for a character of the line (or the line holds a  *)
(* Delete, which terminals do not show).  The cursor stays on the screen,  *)
(* the line in the buffer, and argv keeps room for the null that ends it.  *)
EchoMatchesBuffer ==
  /\ crt.pos \in Cell /\ i < BUFLEN /\ Len(argv) < MAXARGS
  /\ pc = "read" =>
       /\ crt.pos >= i
       /\ \A k \in 0 .. i - 1 : crt.cell[crt.pos - i + k] = buf[k]
       /\ \A q \in Ports : lines[q] # Lost /\ (\A k \in 0 .. i - 1 : buf[k] # DEL) =>
            /\ Len(lines[q]) >= i
            /\ \A k \in 0 .. i - 1 : lines[q][Len(lines[q]) - i + k + 1] = buf[k]

(* The words of a text, by definition: the maximal runs without a space.   *)
Starts(text) == {k \in 1 .. Len(text) : text[k] # SPACE /\ (k = 1 \/ text[k - 1] = SPACE)}
WordAt(text, k) ==
  LET last == CHOOSE e \in k .. Len(text) :
                /\ \A j \in k .. e : text[j] # SPACE
                /\ e = Len(text) \/ text[e + 1] = SPACE
  IN  SubSeq(text, k, last)
NthStart(text, n) ==
  CHOOSE k \in Starts(text) : Cardinality({j \in Starts(text) : j < k}) = n - 1
Words(text) ==
  [n \in 1 .. Cardinality(Starts(text)) |-> WordAt(text, NthStart(text, n))]

(* A command runs with the arguments the user saw on the screen when Enter *)
(* was typed, although runcmd parses the buffer in place and leaves the    *)
(* rest of older lines in it.                                              *)
CommandAsShown ==
  [][ pc = "lookup" =>
      /\ result'.words = Words(shown)
      /\ result'.kind = CASE Words(shown) = <<>> -> "empty"
                          [] Words(shown) # <<>> /\ Words(shown)[1] \in commands -> "run"
                          [] OTHER -> "unknown" ]_vars
=============================================================================
