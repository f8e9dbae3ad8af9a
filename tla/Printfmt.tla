------------------------------ MODULE Printfmt ------------------------------
(***************************************************************************)
(* lib/printfmt.c: vprintfmt, which interprets a format, and vsnprintf,    *)
(* which prints to a buffer of a given size; the cprintf of the kernel     *)
(* (kern/printf.c), which prints to the console; and the cprintf of user   *)
(* programs (lib/printf.c), which collects what it prints for the system   *)
(* call sys_cputs.  A character of the format, or the digits of a number   *)
(* in it, is a step; a conversion puts all its characters in one step.     *)
(*                                                                         *)
(* Characters are strings of one letter; the format ends where its         *)
(* sequence ends.  An unsigned int has UINTS values, an unsigned long long *)
(* the square of that.                                                     *)
(***************************************************************************)
EXTENDS Integers, Sequences, Functions

CONSTANTS
  Formats,     \* sequences of characters
  Sizes,       \* sizes given to vsnprintf
  Values(_),   \* what an argument of each type may be
  UINTS,
  PRINTBUF,    \* size of the buffer of a user program (256)
  USER, NULL,
  NOBUF        \* in place of a size: vsnprintf is called with buf NULL

Digit == <<"0", "1", "2", "3", "4", "5", "6", "7", "8", "9",
           "a", "b", "c", "d", "e", "f">>
DecimalDigits == {Digit[i] : i \in 1 .. 10}

E_INVAL  == 3
MAXERROR == 7
ErrorString == <<"unspecified error", "bad environment", "invalid parameter", "out of memory",
                 "out of environments", "segmentation fault">>

Conversions == {"c", "e", "s", "d", "u", "o", "x", "p", "%"}

IsText(s) == s \in Seq(Range(s))

ASSUME PrintfmtAssumption ==
  /\ UINTS \in Nat \ {0} /\ PRINTBUF - 1 \in Nat \ {0}
  /\ Sizes \subseteq Int /\ USER # NULL /\ NOBUF \notin {NULL, USER}
  /\ \A none \in {NULL, USER, NOBUF} : none \notin Sizes
  /\ NULL \notin DecimalDigits \cup {"-", ".", "#", "l", "*"} \cup Conversions
  /\ \A text \in Formats : IsText(text)
  /\ \A v \in Values("string") : v = NULL \/ IsText(v)
  /\ Values("*") \cup Values("int") \cup Values("long long") \subseteq Int
  /\ Values("pointer") \subseteq Nat

VARIABLES
  fmt, f,     \* the format and the position in it
  d,          \* padc, width, precision, lflag and altflag of a directive
  pc,         \* "call", "plain", "switch" in a directive, "end", "done"
  out,        \* what was put
  console,    \* what reached the console
  size,       \* the size of the buffer, or NOBUF; NULL and USER for the cprintfs
  b,          \* struct sprintbuf or printbuf: the buffer, the position in it, cnt
  ret,
  begin, args \* of the directive: where it begins, its arguments (auxiliary)
vars == <<fmt, f, d, pc, out, console, size, b, ret, begin, args>>

Fresh == [padc |-> " ", width |-> -1, precision |-> -1, lflag |-> 0, alt |-> 0]

Init ==
  /\ fmt \in Formats /\ size \in Sizes \cup {NULL, USER, NOBUF}
  /\ f = 1 /\ d = Fresh /\ pc = "call" /\ out = <<>> /\ console = <<>> /\ ret = 0
  /\ b = [mem |-> <<>>, pos |-> 0, cnt |-> 0]
  /\ begin = 1 /\ args = <<>>

-----------------------------------------------------------------------------
(* Where the characters go                                                 *)

(* Mutant: no place is kept for the terminator (ebuf is buf + n).          *)
EbufPast(n) == n

Ebuf(n) == n - 1

(* sprintputch for each character of a text: those for which there is room *)
(* are stored, all are counted.  mem is what was written of the buffer.    *)
sprintputch(text) ==
  LET room   == Ebuf(size) - b.pos
      stored == IF Len(text) < room THEN Len(text) ELSE room
  IN  [mem |-> b.mem \o SubSeq(text, 1, stored),
       pos |-> b.pos + stored, cnt |-> b.cnt + Len(text)]

(* Mutant: a full buffer waits for the next character.                     *)
FullBuffersLate(n) == IF n > 0 THEN (n - 1) - ((n - 1) % (PRINTBUF - 1)) ELSE 0

(* How many of n characters sys_cputs has got, a full buffer each time.    *)
FullBuffers(n) == n - (n % (PRINTBUF - 1))

(* putch of a user program for each character of a text: sys_cputs when    *)
(* the buffer has one place left, and idx is 0 again.                      *)
putch(text) ==
  LET all  == b.mem \o text
      sent == FullBuffers(Len(all))
  IN  [console |-> console \o SubSeq(all, 1, sent), buf |-> SubSeq(all, sent + 1, Len(all))]

(* putch of the kernel writes *cnt++, which advances the pointer: the      *)
(* count stays 0.                                                          *)
Put(text) ==
  /\ out' = out \o text
  /\ \/ size = NULL /\ console' = console \o text /\ b' = b
     \/ /\ size = USER
        /\ LET to == putch(text) IN
           /\ console' = to.console
           /\ b' = [mem |-> to.buf, pos |-> Len(to.buf), cnt |-> b.cnt + Len(text)]
     \/ size \notin {NULL, USER} /\ b' = sprintputch(text) /\ console' = console

Refused == size \notin {NULL, USER} /\ (size = NOBUF \/ size < 1)

vsnprintf ==
  /\ pc = "call"
  /\ IF Refused
     THEN pc' = "done" /\ ret' = -E_INVAL
     ELSE pc' = "plain" /\ UNCHANGED ret
  /\ UNCHANGED <<fmt, f, d, out, console, size, b, begin, args>>

(* The text is ended: vsnprintf puts the null, a user program prints what  *)
(* its buffer still has.                                                   *)
text_ends ==
  /\ pc = "end" /\ pc' = "done"
  /\ ret' = b.cnt
  /\ console' = IF size = USER THEN console \o b.mem ELSE console
  /\ b' = IF size \in {NULL, USER} THEN b ELSE [b EXCEPT !.mem = Append(@, NULL)]
  /\ UNCHANGED <<fmt, f, d, out, size, begin, args>>

-----------------------------------------------------------------------------
(* vprintfmt: the text between directives                                  *)

plain ==
  /\ pc = "plain" /\ f <= Len(fmt)
  /\ f' = f + 1
  /\ IF fmt[f] = "%"
     THEN /\ pc' = "switch" /\ d' = Fresh /\ begin' = f + 1 /\ args' = <<>>
          /\ UNCHANGED <<out, console, b>>
     ELSE Put(<<fmt[f]>>) /\ UNCHANGED <<pc, d, begin, args>>
  /\ UNCHANGED <<fmt, size, ret>>

ends ==
  /\ pc = "plain" /\ f > Len(fmt)
  /\ pc' = "end"
  /\ UNCHANGED <<fmt, f, d, out, console, size, b, ret, begin, args>>

-----------------------------------------------------------------------------
(* The flags, the width and the precision of a directive                   *)

(* The character the switch is on, or NULL at the end of the format.       *)
ch == IF f <= Len(fmt) THEN fmt[f] ELSE NULL

(* A flag: the switch goes on to the next character.                       *)
Flag(new) ==
  /\ d' = new /\ f' = f + 1
  /\ UNCHANGED <<fmt, pc, out, console, size, b, ret, begin>>

flag ==
  /\ pc = "switch"
  /\ \/ ch \in {"-", "0"} /\ Flag([d EXCEPT !.padc = ch])
     \/ ch = "."         /\ Flag([d EXCEPT !.width = IF @ < 0 THEN 0 ELSE @])
     \/ ch = "#"         /\ Flag([d EXCEPT !.alt = 1])
     \/ ch = "l"         /\ Flag([d EXCEPT !.lflag = @ + 1])
  /\ UNCHANGED args

process_precision(precision) ==
  IF d.width < 0 THEN [d EXCEPT !.width = precision, !.precision = -1]
  ELSE [d EXCEPT !.precision = precision]

(* Mutant: the loop over the digits does not advance.                      *)
NumberEndStuck == f

(* Behind the digits from f on.                                            *)
NumberEnd == CHOOSE g \in f .. Len(fmt) + 1 :
               /\ g = Len(fmt) + 1 \/ fmt[g] \notin DecimalDigits
               /\ \A i \in f .. g - 1 : fmt[i] \in DecimalDigits

(* The number of the first i digits, for every i.                          *)
DigitValue(c)  == (CHOOSE i \in 1 .. 10 : Digit[i] = c) - 1
Number(digits) ==
  LET upto[i \in 0 .. Len(digits)] ==
        IF i = 0 THEN 0 ELSE 10 * upto[i - 1] + DigitValue(digits[i])
  IN  upto[Len(digits)]

width ==
  /\ pc = "switch" /\ ch \in DecimalDigits \ {"0"}
  /\ d' = process_precision(Number(SubSeq(fmt, f, NumberEnd - 1)))
  /\ f' = NumberEnd
  /\ UNCHANGED <<fmt, pc, out, console, size, b, ret, begin, args>>

(* va_arg: some value of the type.                                         *)
star ==
  /\ pc = "switch" /\ ch = "*"
  /\ \E v \in Values("*") : Flag(process_precision(v)) /\ args' = Append(args, v)

-----------------------------------------------------------------------------
(* The conversions                                                         *)

Times(n, c) == [i \in 1 .. (IF n > 0 THEN n ELSE 0) |-> c]

(* The padding comes before the first digit.                               *)
printnum(num, base, wid, padc) ==
  LET put[n \in 0 .. num] ==
        [w \in Int |->
           (IF n >= base THEN put[n \div base][w - 1] ELSE Times(w - 1, padc))
             \o <<Digit[(n % base) + 1]>>]
  IN  put[num][wid]

IntType(lflag) == IF lflag >= 2 THEN "long long" ELSE "int"
Modulus(type)  == IF type = "long long" THEN UINTS * UINTS ELSE UINTS

getuint(lflag, v) == v % Modulus(IntType(lflag))

(* The conversion is done: back to the text of the format.                 *)
Convert(text, arguments) ==
  /\ Put(text)
  /\ pc' = "plain" /\ f' = f + 1 /\ args' = args \o arguments
  /\ UNCHANGED <<fmt, d, size, ret, begin>>

character ==
  /\ pc = "switch" /\ ch = "c"
  /\ \E v \in Values("char") : Convert(<<v>>, <<v>>)

(* An error is put by a printfmt of its own: its text is one character.    *)
ErrorText(err) ==
  IF err >= MAXERROR \/ err = 0
  THEN <<"e", "r", "r", "o", "r", " ">> \o printnum(err, 10, -1, " ")
  ELSE <<ErrorString[err]>>

error ==
  /\ pc = "switch" /\ ch = "e"
  /\ \E v \in Values("int") : Convert(ErrorText(IF v < 0 THEN -v ELSE v), <<v>>)

(* What %s puts of a string, when the precision allows it.                 *)
Printable(c) == c # "\t"
Shown(s, n)  == [i \in 1 .. n |-> IF d.alt = 1 /\ ~Printable(s[i]) THEN "?" ELSE s[i]]
strnlen(s, precision) ==
  IF precision < 0 \/ Len(s) < precision THEN Len(s) ELSE precision

(* Mutant: the width counts the whole string, not what is put of it.       *)
FieldOfAll(s) ==
  LET n     == strnlen(s, d.precision)
      first == d.width > 0 /\ d.padc # "-"
      rest  == IF first THEN 0 ELSE d.width - n
  IN  (IF first THEN Times(d.width - Len(s), d.padc) ELSE <<>>) \o Shown(s, n) \o Times(rest, " ")

Field(s) ==
  LET n     == strnlen(s, d.precision)
      first == d.width > 0 /\ d.padc # "-"
      rest  == IF first THEN 0 ELSE d.width - n
  IN  (IF first THEN Times(d.width - n, d.padc) ELSE <<>>) \o Shown(s, n) \o Times(rest, " ")

string ==
  /\ pc = "switch" /\ ch = "s"
  /\ \E v \in Values("string") :
       Convert(Field(IF v = NULL THEN <<"(", "n", "u", "l", "l", ")">> ELSE v), <<v>>)

decimal ==
  /\ pc = "switch" /\ ch = "d"
  /\ \E v \in Values(IntType(d.lflag)) :
       Convert((IF v < 0 THEN <<"-">> ELSE <<>>)
                 \o printnum(IF v < 0 THEN -v ELSE v, 10, d.width, d.padc), <<v>>)

unsigned ==
  /\ pc = "switch" /\ ch \in {"u", "o", "x"}
  /\ \E v \in Values(IntType(d.lflag)) :
       LET base == IF ch = "u" THEN 10 ELSE IF ch = "o" THEN 8 ELSE 16
       IN  Convert(printnum(getuint(d.lflag, v), base, d.width, d.padc), <<v>>)

pointer ==
  /\ pc = "switch" /\ ch = "p"
  /\ \E v \in Values("pointer") :
       Convert(<<"0", "x">> \o printnum(v, 16, d.width, d.padc), <<v>>)

percent ==
  /\ pc = "switch" /\ ch = "%" /\ Convert(<<"%">>, <<>>)

(* Mutant: what was read of the directive is dropped.                      *)
RewindNone(g) == g

(* The position behind the last % before f.                                *)
Rewind(g) == CHOOSE i \in 1 .. g : /\ i > 1 /\ fmt[i - 1] = "%"
                                   /\ \A j \in i .. g - 1 : fmt[j] # "%"

unrecognized ==
  /\ pc = "switch"
  /\ ch \notin DecimalDigits \cup {"-", ".", "#", "l", "*"} \cup Conversions
  /\ Put(<<"%">>)
  /\ f' = Rewind(f) /\ pc' = "plain"
  /\ UNCHANGED <<fmt, d, size, ret, begin, args>>

-----------------------------------------------------------------------------
Next == \/ vsnprintf \/ text_ends \/ plain \/ ends
        \/ flag \/ width \/ star
        \/ character \/ error \/ string \/ decimal \/ unsigned \/ pointer \/ percent
        \/ unrecognized

(* A call takes its steps: nothing else runs.                              *)
Spec == Init /\ [][Next]_vars /\ WF_vars(Next)

-----------------------------------------------------------------------------
(* Properties                                                              *)

(* vsnprintf never writes past the size it is given, and nothing without a *)
(* buffer.  It leaves the longest prefix of the text that fits, ended, and *)
(* returns the length of all of it.                                        *)
BufferHoldsPrefix ==
  size \notin {NULL, USER} =>
    /\ Len(b.mem) <= (IF Refused THEN 0 ELSE size)
    /\ pc = "done" =>
         IF Refused THEN ret = -E_INVAL
         ELSE /\ b.mem = SubSeq(out, 1, IF Len(out) < size - 1 THEN Len(out) ELSE size - 1)
                           \o <<NULL>>
              /\ ret = Len(out)

(* "Collect up to 256 characters into a buffer and perform ONE system call *)
(* to print all of them": a user program loses and doubles nothing, and    *)
(* its text reaches the console in full buffers and at the end.            *)
UserTextWhole ==
  size = USER =>
    IF pc = "done" THEN console = out /\ ret = Len(out)
    ELSE /\ console \o b.mem = out
         /\ Len(b.mem) < PRINTBUF - 1 /\ Len(console) % (PRINTBUF - 1) = 0

(* The parts of a directive that has the usual form, as positions.         *)
Skip(g, S) == CHOOSE h \in g .. Len(fmt) + 1 :
                /\ h > Len(fmt) \/ fmt[h] \notin S
                /\ \A i \in g .. h - 1 : fmt[i] \in S
Has(g, c)     == g <= Len(fmt) /\ fmt[g] = c
FlagsEnd      == Skip(begin, {"-", "0", "#"})
CountEnd(g)   == IF Has(g, "*") THEN g + 1
                 ELSE IF Has(g, "0") THEN g ELSE Skip(g, DecimalDigits)
WidthEnd      == CountEnd(FlagsEnd)
PrecisionEnd  == IF Has(WidthEnd, ".") THEN CountEnd(WidthEnd + 1) ELSE WidthEnd
Flags         == {fmt[i] : i \in begin .. FlagsEnd - 1}
UsualForm     == Skip(PrecisionEnd, {"l"}) = f /\ ~({"-", "0"} \subseteq Flags)

(* The width and the precision it asks for, -1 for none; all is what was   *)
(* read with va_arg.                                                       *)
Count(from, to, given) ==
  IF from = to THEN -1 ELSE IF fmt[from] = "*" THEN given
  ELSE Number(SubSeq(fmt, from, to - 1))
Width(all)     == Count(FlagsEnd, WidthEnd, all[1])
Precision(all) ==
  IF PrecisionEnd = WidthEnd THEN -1
  ELSE Count(WidthEnd + 1, PrecisionEnd, IF Has(FlagsEnd, "*") THEN all[2] ELSE all[1])

Numeral(n, base) ==
  LET k == CHOOSE k \in 1 .. 20 : n < base ^ k /\ (k > 1 => n >= base ^ (k - 1))
  IN  [i \in 1 .. k |-> Digit[((n \div base ^ (k - i)) % base) + 1]]
PadLeft(text, n, c)  == Times(n - Len(text), c) \o text
PadRight(text, n)    == text \o Times(n - Len(text), " ")

(* The digits of a number, v being the argument.                           *)
Numbers == {"d", "u", "o", "x", "p"}
Digits(conv, lflag, v) ==
  LET values == IF lflag >= 2 THEN UINTS * UINTS ELSE UINTS
  IN  CASE conv = "d" -> Numeral(IF v < 0 THEN -v ELSE v, 10)
        [] conv = "u" -> Numeral(v % values, 10)
        [] conv = "o" -> Numeral(v % values, 8)
        [] conv = "x" -> Numeral(v % values, 16)
        [] conv = "p" -> Numeral(v, 16)

(* The characters a directive stands for.  A width counts all of them, the *)
(* sign and the 0x too; zeros come behind those, spaces before them.       *)
Meaning(conv, flags, wid, precision, lflag, v) ==
  LET pad      == IF "0" \in flags THEN "0" ELSE " "
      magn     == IF v < 0 THEN -v ELSE v
      shown(s) == [i \in 1 .. (IF precision \in 0 .. Len(s) THEN precision ELSE Len(s)) |->
                     IF "#" \in flags /\ ~Printable(s[i]) THEN "?" ELSE s[i]]
      text(s)  == IF "-" \in flags THEN PadRight(shown(s), wid)
                  ELSE PadLeft(shown(s), wid, pad)
      digits   == Digits(conv, lflag, v)
      number(front) ==
        IF "-" \in flags THEN PadRight(front \o digits, wid)
        ELSE IF pad = "0" THEN front \o PadLeft(digits, wid - Len(front), "0")
        ELSE PadLeft(front \o digits, wid, " ")
  IN  CASE conv = "%" -> <<"%">>
        [] conv = "c" -> <<v>>
        [] conv = "e" -> IF magn \in DOMAIN ErrorString THEN <<ErrorString[magn]>>
                         ELSE <<"e", "r", "r", "o", "r", " ">> \o Numeral(magn, 10)
        [] conv = "s" -> text(IF v = NULL THEN <<"(", "n", "u", "l", "l", ")">> ELSE v)
        [] conv = "d" -> number(IF v < 0 THEN <<"-">> ELSE <<>>)
        [] conv = "p" -> number(<<"0", "x">>)
        [] conv \in {"u", "o", "x"} -> number(<<>>)

(* What the code prints otherwise, of the numbers the width is wider than: *)
(* with the flag "-" there are dashes before the number instead of spaces  *)
(* behind it, and the padding of a negative number and of a pointer comes  *)
(* behind the sign and the 0x and does not count them.                     *)
Misprinted(conv, flags, wid, lflag, v) ==
  /\ conv \in Numbers /\ wid > Len(Digits(conv, lflag, v))
  /\ "-" \in flags \/ conv = "p" \/ (conv = "d" /\ v < 0)

Converts == pc = "switch" /\ pc' = "plain"

(* A directive of the usual form - flags, width, precision, longs - puts   *)
(* what it stands for, and takes as many arguments as it asks for: all of  *)
(* them but the numbers Misprinted names.  A string is padded too, which   *)
(* the code does although the comment at its top speaks of numbers only.   *)
DirectiveAsMeant ==
  [][ Converts /\ UsualForm /\ f' = f + 1 =>
        LET own   == IF fmt[f] = "%" THEN 0 ELSE args'[Len(args')]
            wid   == Width(args')
            lflag == f - PrecisionEnd
        IN  Misprinted(fmt[f], Flags, wid, lflag, own)
              \/ out' = out \o Meaning(fmt[f], Flags, wid, Precision(args'), lflag, own)
    ]_vars

(* A directive that is none is put as it is written, whatever flags it     *)
(* has and wherever the format ends.                                       *)
UnrecognizedAsWritten ==
  (/\ pc = "end" /\ \A i \in 1 .. Len(fmt) : fmt[i] \notin Conversions \ {"%"}
   /\ \A i, j \in 1 .. Len(fmt) : fmt[i] = "%" /\ fmt[j] = "%" => i = j)
    => out = fmt

(* Every call returns, whatever the format.                                *)
Returns == <>(pc = "done")
=============================================================================
