----------------------------- MODULE StringLib ------------------------------
(***************************************************************************)
(* lib/string.c: the routines on bytes in memory.  A call is chosen in     *)
(* Init; an iteration of its loop, or of the rep prefix of a string        *)
(* instruction, is a step.  Characters are their codes.                    *)
(***************************************************************************)
EXTENDS Integers, FiniteSets

CONSTANTS
  Base, Size,   \* memory is the addresses Base .. Base + Size - 1
  LongMax,      \* the largest long, 2^31 - 1
  Calls         \* what is called: the memory, the function and its arguments

Address == Base .. Base + Size - 1
Byte    == 0 .. 255

Moves    == {"memmove", "memcpy", "memset"}
Copies   == {"strcpy", "strcat", "strncpy", "strlcpy"}
Searches == {"strlen", "strnlen", "strchr", "strfind", "memfind",
             "strcmp", "strncmp", "memcmp"}

(* v and w are pointers, c a character (an int), n a size or a base.       *)
CallType == [fn : Moves \cup Copies \cup Searches \cup {"strtol"},
             mem : [Address -> Byte], v : Address, w : Address, c : Int, n : Nat]

(* The string at a in a memory: the bytes before the first zero.           *)
IsString(m, a)  == \E e \in Address : a <= e /\ m[e] = 0
StringEnd(m, a) == CHOOSE e \in Address :
                     a <= e /\ m[e] = 0 /\ \A b \in a .. e - 1 : m[b] # 0
LengthIn(m, a)  == StringEnd(m, a) - a

(* What a caller must see to, for C to say what a call does: strings end,  *)
(* what is written fits at its destination, and a string that is copied    *)
(* is not written over before it is read.                                  *)
Defined(x) ==
  LET fits(a, n) == a + n <= Base + Size
      len(a)     == LengthIn(x.mem, a)
      ahead(to)  == to \notin x.w + 1 .. x.w + len(x.w)
  IN  /\ x.fn \in {"memmove", "memcpy", "memcmp"} => fits(x.v, x.n) /\ fits(x.w, x.n)
      /\ x.fn \in {"memset", "memfind", "strncpy", "strlcpy"} => fits(x.v, x.n)
      /\ x.fn \in {"strcat", "strlen", "strnlen", "strchr", "strfind", "strcmp", "strncmp",
                    "strtol"} => IsString(x.mem, x.v)
      /\ x.fn \in Copies \cup {"strcmp", "strncmp"} => IsString(x.mem, x.w)
      /\ x.fn \in {"strcpy", "strncpy", "strlcpy"} => ahead(x.v)
      /\ x.fn = "strcpy" => fits(x.v, len(x.w) + 1)
      /\ x.fn = "strcat" => /\ ahead(x.v + len(x.v))
                            /\ fits(x.v + len(x.v), len(x.w) + 1)
      /\ x.fn = "strtol" => x.n \in {0} \cup 2 .. 36

ASSUME StringLibAssumption ==
  /\ Base \in Nat \ {0} /\ Base % 4 = 0 /\ Size \in Nat \ {0}
  /\ LongMax \in Nat
  /\ Calls \subseteq CallType /\ \A x \in Calls : Defined(x)

VARIABLES
  call,
  mem,
  df,        \* the direction flag of the processor
  p, q, k,   \* the pointers and the counter of the running loop
  unit,      \* bytes moved by an iteration of rep: 1 or 4
  num,       \* strtol: the sign, the base and the value so far
  pc,        \* "call", "rep", "copy", "digit", "done"
  ret
vars == <<call, mem, df, p, q, k, unit, num, pc, ret>>
Is(fns) == call.fn \in fns

Init ==
  /\ call \in Calls
  /\ mem = call.mem /\ df = FALSE /\ p = call.v /\ q = call.w /\ k = call.n
  /\ unit = 1 /\ num = [neg |-> FALSE, base |-> 10, val |-> 0]
  /\ pc = "call" /\ ret = 0

Return(value) == pc' = "done" /\ ret' = value

-----------------------------------------------------------------------------
(* memmove and memset: string instructions                                 *)

Words(addresses, n) == n % 4 = 0 /\ \A a \in addresses : a % 4 = 0

(* Mutant: overlap is seen only when the source starts at the destination. *)
BackwardsNever(src, dst, n) == src = dst

Backwards(src, dst, n) == src < dst /\ src + n > dst

memmove ==
  /\ pc = "call" /\ Is({"memmove", "memcpy"})
  /\ LET back == Backwards(q, p, k)
         from == IF back THEN q + k ELSE q
         to   == IF back THEN p + k ELSE p
         u    == IF Words({from, to}, k) THEN 4 ELSE 1
     IN  /\ df' = back /\ unit' = u /\ k' = k \div u
         /\ p' = IF back THEN to - u ELSE to
         /\ q' = IF back THEN from - u ELSE from
  /\ pc' = "rep"
  /\ UNCHANGED <<call, mem, num, ret>>

memset ==
  /\ pc = "call" /\ Is({"memset"})
  /\ IF k = 0 THEN Return(call.v) /\ UNCHANGED <<unit, k>>
     ELSE /\ unit' = (IF Words({p}, k) THEN 4 ELSE 1)
          /\ k' = k \div unit'
          /\ pc' = "rep" /\ UNCHANGED ret
  /\ UNCHANGED <<call, mem, df, p, q, num>>

(* The argument c, as the char it is made.                                 *)
CharArg == call.c % 256

(* rep movs and rep stos: the bytes of a unit are read, then written.      *)
rep ==
  /\ pc = "rep" /\ k > 0
  /\ mem' = [a \in Address |->
               IF a \in p .. p + unit - 1
               THEN IF Is({"memset"}) THEN CharArg ELSE mem[q + a - p]
               ELSE mem[a]]
  /\ p' = IF df THEN p - unit ELSE p + unit
  /\ q' = IF df THEN q - unit ELSE q + unit
  /\ k' = k - 1
  /\ UNCHANGED <<call, df, unit, num, pc, ret>>

(* Mutant: the last iteration is left out.                                 *)
repEndsEarly ==
  /\ pc = "rep" /\ k = 1 /\ Return(call.v)
  /\ df' = FALSE
  /\ UNCHANGED <<call, mem, p, q, k, unit, num>>

repEnds ==
  /\ pc = "rep" /\ k = 0 /\ Return(call.v)
  /\ df' = FALSE
  /\ UNCHANGED <<call, mem, p, q, k, unit, num>>

-----------------------------------------------------------------------------
(* The copies of strings                                                   *)

(* --size > 0                                                              *)
Room(n) == n - 1 > 0

Store(a, b) == mem' = [mem EXCEPT ![a] = b]

(* strcat calls strlen, then strcpy.                                       *)
strcat ==
  /\ pc = "call" /\ Is({"strcat"})
  /\ IF mem[p] # 0 THEN p' = p + 1 /\ pc' = pc ELSE pc' = "copy" /\ p' = p
  /\ UNCHANGED <<call, mem, df, q, k, unit, num, ret>>

strlcpy ==
  /\ pc = "call" /\ Is({"strlcpy"})
  /\ IF k = 0
     THEN Return(p - call.v) /\ UNCHANGED <<mem, p, q, k>>
     ELSE IF Room(k) /\ mem[q] # 0
     THEN Store(p, mem[q]) /\ p' = p + 1 /\ q' = q + 1 /\ k' = k - 1 /\ UNCHANGED <<pc, ret>>
     ELSE Store(p, 0) /\ Return(p - call.v) /\ UNCHANGED <<p, q, k>>
  /\ UNCHANGED <<call, df, unit, num>>

strncpy ==
  /\ pc = "call" /\ Is({"strncpy"})
  /\ IF k > 0
     THEN /\ Store(p, mem[q])
          /\ p' = p + 1 /\ k' = k - 1
          /\ q' = IF mem[q] # 0 THEN q + 1 ELSE q
          /\ UNCHANGED <<pc, ret>>
     ELSE Return(call.v) /\ UNCHANGED <<mem, p, q, k>>
  /\ UNCHANGED <<call, df, unit, num>>

strcpy ==
  /\ \/ pc = "call" /\ Is({"strcpy"})
     \/ pc = "copy"
  /\ Store(p, mem[q]) /\ p' = p + 1 /\ q' = q + 1
  /\ IF mem[q] # 0 THEN UNCHANGED <<pc, ret>> ELSE Return(call.v)
  /\ UNCHANGED <<call, df, k, unit, num>>

-----------------------------------------------------------------------------
(* Searches and comparisons                                                *)

(* A loop goes on to the next byte, or the function returns the value.  A  *)
(* loop that does not use q or k ignores them.                             *)
Scan(fn, goes, value) ==
  /\ pc = "call" /\ Is({fn})
  /\ IF goes
     THEN p' = p + 1 /\ q' = q + 1 /\ k' = k - 1 /\ UNCHANGED <<pc, ret>>
     ELSE Return(value) /\ UNCHANGED <<p, q, k>>
  /\ UNCHANGED <<call, mem, df, unit, num>>

(* Mutant: the byte past the last is looked at.                            *)
LeftInclusive == k >= 0

(* The test of the size, before the byte is read.                          *)
Left == k > 0

Same == mem[p] # 0 /\ mem[p] = mem[q]

strlen  == Scan("strlen", mem[p] # 0, p - call.v)
strnlen == Scan("strnlen", Left /\ mem[p] # 0, p - call.v)
strchr  == Scan("strchr", mem[p] \notin {0, CharArg}, IF mem[p] = 0 THEN 0 ELSE p)
strfind == Scan("strfind", mem[p] \notin {0, CharArg}, p)
memfind == Scan("memfind", Left /\ mem[p] # CharArg, p)
strcmp  == Scan("strcmp", Same, mem[p] - mem[q])
strncmp == Scan("strncmp", Left /\ Same, IF k = 0 THEN 0 ELSE mem[p] - mem[q])
memcmp  == Scan("memcmp", Left /\ mem[p] = mem[q], IF k = 0 THEN 0 ELSE mem[p] - mem[q])

-----------------------------------------------------------------------------
(* strtol                                                                  *)

Blank   == {32, 9}
PLUS    == 43
MINUS   == 45
ZERO    == 48
SmallX  == 120

(* The value of a character as a digit, 99 for none.                       *)
Digit(c) ==
  CASE c \in 48 .. 57  -> c - 48
    [] c \in 97 .. 122 -> c - 97 + 10
    [] c \in 65 .. 90  -> c - 65 + 10
    [] OTHER           -> 99

strtol ==
  /\ pc = "call" /\ Is({"strtol"})
  /\ IF mem[p] \in Blank
     THEN p' = p + 1 /\ UNCHANGED <<num, pc>>
     ELSE LET s     == IF mem[p] \in {PLUS, MINUS} THEN p + 1 ELSE p
              hex   == call.n \in {0, 16} /\ mem[s] = ZERO /\ mem[s + 1] = SmallX
              octal == ~hex /\ call.n = 0 /\ mem[s] = ZERO
          IN  /\ p' = IF hex THEN s + 2 ELSE IF octal THEN s + 1 ELSE s
              /\ num' = [neg |-> mem[p] = MINUS, val |-> 0,
                         base |-> IF hex THEN 16 ELSE IF octal THEN 8
                                  ELSE IF call.n = 0 THEN 10 ELSE call.n]
              /\ pc' = "digit"
  /\ UNCHANGED <<call, mem, df, q, k, unit, ret>>

Accepts(d) == d < num.base

(* "We don't properly detect overflow": a long wraps as the imul of the    *)
(* compiled code does.                                                     *)
Long(x) == ((x + LongMax + 1) % (2 * LongMax + 2)) - (LongMax + 1)

(* *endptr is p when the loop ends.                                        *)
digit ==
  /\ pc = "digit"
  /\ LET d == Digit(mem[p]) IN
     IF d # 99 /\ Accepts(d)
     THEN /\ num' = [num EXCEPT !.val = Long(@ * num.base + d)]
          /\ p' = p + 1 /\ UNCHANGED <<pc, ret>>
     ELSE Return(IF num.neg THEN Long(-num.val) ELSE num.val) /\ UNCHANGED <<num, p>>
  /\ UNCHANGED <<call, mem, df, q, k, unit>>

-----------------------------------------------------------------------------
Next == \/ memmove \/ memset \/ rep \/ repEnds
        \/ strcat \/ strlcpy \/ strncpy \/ strcpy
        \/ strlen \/ strnlen \/ strchr \/ strfind \/ memfind
        \/ strcmp \/ strncmp \/ memcmp \/ strtol \/ digit

(* A call takes its steps: nothing else runs.                              *)
Spec == Init /\ [][Next]_vars /\ WF_vars(Next)

-----------------------------------------------------------------------------
(* Properties                                                              *)

Length(a)   == LengthIn(call.mem, a)
Lower(m, n) == IF m < n THEN m ELSE n

(* Memory is as it was but for n bytes from address to: byte[i] is the     *)
(* i-th of them.                                                           *)
Holds(to, n, byte) ==
  \A a \in Address :
    mem[a] = IF a \in to .. to + n - 1 THEN byte[a - to] ELSE call.mem[a]

Done(fns) == pc = "done" /\ Is(fns)

(* memmove copies what the source held when it was called, whatever the    *)
(* overlap, the direction and the width of the moves; memset fills; and    *)
(* neither touches another byte.  "Some versions of GCC rely on DF being   *)
(* clear": it is, though memmove may copy backwards.                       *)
MovesOK ==
  /\ Done({"memmove", "memcpy"}) =>
       ret = call.v /\ Holds(call.v, call.n, [i \in 0 .. call.n - 1 |-> call.mem[call.w + i]])
  /\ Done({"memset"}) =>
       ret = call.v /\ Holds(call.v, call.n, [i \in 0 .. call.n - 1 |-> CharArg])
  /\ pc # "rep" => ~df

(* The first n bytes of the string at w, and zeros behind its end.         *)
Copied(n) == [i \in Nat |-> IF i < n THEN call.mem[call.w + i] ELSE 0]

(* The copies of strings: strlcpy ends what it copied with a zero within   *)
(* the size and returns its length, strncpy writes exactly the size, and   *)
(* no byte past them is written.                                           *)
CopiesOK ==
  LET len == Length(call.w)
      cut == Lower(call.n - 1, len)
  IN  /\ Done({"strcpy"}) => ret = call.v /\ Holds(call.v, len + 1, Copied(len))
      /\ Done({"strcat"}) =>
           ret = call.v /\ Holds(call.v + Length(call.v), len + 1, Copied(len))
      /\ Done({"strncpy"}) => ret = call.v /\ Holds(call.v, call.n, Copied(len))
      /\ Done({"strlcpy"}) =>
           IF call.n = 0 THEN ret = 0 /\ mem = call.mem
           ELSE ret = cut /\ Holds(call.v, cut + 1, Copied(cut))

(* Every write of the library: the right bytes, and no other.              *)
WritesCorrect == MovesOK /\ CopiesOK

(* The first place of a set of places, or n if there is none.              *)
First(n, S) == IF S = {} THEN n ELSE CHOOSE i \in S : \A j \in S : i <= j
Found(n, bytes) == First(n, {i \in 0 .. n - 1 : call.mem[call.v + i] \in bytes})
Differ(n) == First(n, {i \in 0 .. n - 1 : call.mem[call.v + i] # call.mem[call.w + i]})
Compared(n) == LET d == Differ(n) IN
               IF d = n THEN 0 ELSE call.mem[call.v + d] - call.mem[call.w + d]

(* A search stops at the first byte it is for, and a comparison compares   *)
(* the first bytes that differ, as unsigned ones, and looks no further     *)
(* than the size or the end of the strings.                                *)
SearchesOK ==
  LET len == Length(call.v)
      hit == Found(len, {CharArg})
  IN  /\ Done({"strlen"})  => ret = len
      /\ Done({"strnlen"}) => ret = Found(call.n, {0})
      /\ Done({"strchr"})  => ret = IF hit = len THEN 0 ELSE call.v + hit
      /\ Done({"strfind"}) => ret = call.v + hit
      /\ Done({"memfind"}) => ret = call.v + Found(call.n, {CharArg})
      /\ Done({"strcmp"})  => ret = Compared(len + 1)
      /\ Done({"strncmp"}) => ret = Compared(Lower(call.n, len + 1))
      /\ Done({"memcmp"})  => ret = Compared(call.n)

(* The parts of the text strtol is given: where the blanks, the sign and   *)
(* the prefix of the base end, and the value of the digits before a.       *)
NumStart(x) == CHOOSE a \in Address : /\ a >= x.v /\ x.mem[a] \notin Blank
                                      /\ \A b \in x.v .. a - 1 : x.mem[b] \in Blank
SignEnd(x)  == IF x.mem[NumStart(x)] \in {PLUS, MINUS} THEN NumStart(x) + 1 ELSE NumStart(x)
IsHex(x)    == /\ x.mem[SignEnd(x)] = ZERO /\ x.mem[SignEnd(x) + 1] = SmallX
               /\ x.n \in {0, 16}
NumBase(x)  == IF IsHex(x) THEN 16 ELSE IF x.n # 0 THEN x.n
               ELSE IF x.mem[SignEnd(x)] = ZERO THEN 8 ELSE 10
From(x)     == IF IsHex(x) THEN SignEnd(x) + 2 ELSE SignEnd(x)
NumValue(x, a) ==
  LET value[b \in From(x) .. a] ==
        IF b = From(x) THEN 0 ELSE value[b - 1] * NumBase(x) + Digit(x.mem[b - 1])
  IN  value[a]

(* strtol reads as many digits as there are: it returns their value with   *)
(* the sign, if a long can hold it, and the pointer behind them.           *)
StrtolOK ==
  Done({"strtol"}) =>
    /\ \A a \in From(call) .. p - 1 : Digit(call.mem[a]) < NumBase(call)
    /\ Digit(call.mem[p]) >= NumBase(call)
    /\ NumValue(call, p) <= LongMax =>
         ret = IF call.mem[NumStart(call)] = MINUS THEN -NumValue(call, p) ELSE NumValue(call, p)

(* Every result of the library that is not memory.                         *)
ResultCorrect == SearchesOK /\ StrtolOK

(* Every call returns.                                                     *)
Returns == <>(pc = "done")
=============================================================================
