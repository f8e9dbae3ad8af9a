---------------------------- MODULE MonitorProofs ----------------------------
(***************************************************************************)
(* What the user sees is what readline returns and what runcmd parses, for *)
(* every size of the screen and of the buffer, every prompt, output and    *)
(* line that is typed.  And what the backtrace, a command of the monitor,  *)
(* looks up: debuginfo_eip finds the function and the line of every        *)
(* address, in every symbol table that compiler and linker may make.       *)
(***************************************************************************)
EXTENDS Monitor, Stabs, SequenceTheorems, FiniteSetTheorems, FunctionTheorems,
        WellFoundedInduction, TLAPS

-----------------------------------------------------------------------------
(* Induction over the natural numbers.  It speaks of a set, where that of  *)
(* the library has an operator for its parameter; and functions that       *)
(* iterate another.                                                        *)

(* A set of natural numbers has a least element, so one that holds 0 and   *)
(* each successor holds them all.                                          *)
LEMMA LeastNat ==
  ASSUME NEW T \in SUBSET Nat, T # {}
  PROVE  \E x \in T : \A y \in T : ~(y < x)
<1> DEFINE R == OpToRel(<, Nat)
<1>1. IsWellFoundedOn(R, Nat)
  BY NatLessThanWellFounded
<1>2. \E x \in T : \A y \in T : ~(<<y, x>> \in R)
  <2> HIDE DEF R
  <2> QED
    BY <1>1, WFMin
<1>3. \A x, y \in Nat : y < x => <<y, x>> \in R
  BY DEF OpToRel
<1> QED
  BY <1>2, <1>3

LEMMA SetInduction ==
  ASSUME NEW S, 0 \in S, \A n \in Nat : n \in S => n + 1 \in S
  PROVE  Nat \subseteq S
<1> DEFINE T == Nat \ S
<1> SUFFICES ASSUME T # {} PROVE FALSE
  OBVIOUS
<1>1. PICK x \in T : \A y \in T : ~(y < x)
  BY LeastNat
<1>2. x # 0 /\ x - 1 \in Nat /\ x - 1 \notin T
  BY <1>1
<1> QED
  BY <1>1, <1>2

(* f begins at b, and R gives its next value from a value and the place.   *)
Iteration(f, b, R, N) ==
  \A m \in 0 .. N : f[m] = IF m = 0 THEN b ELSE R[f[m - 1]][m]

LEMMA Iterates ==
  ASSUME NEW T, NEW b \in T, NEW N \in Nat, NEW R \in [T -> [1 .. N -> T]]
  PROVE  \E f \in [0 .. N -> T] : Iteration(f, b, R, N)
<1> DEFINE S == {n \in Nat : n <= N => \E f \in [0 .. n -> T] : Iteration(f, b, R, n)}
<1>1. 0 \in S
  <2>1. [m \in 0 .. 0 |-> b] \in [0 .. 0 -> T]
    OBVIOUS
  <2>2. Iteration([m \in 0 .. 0 |-> b], b, R, 0)
    BY DEF Iteration
  <2> QED
    BY <2>1, <2>2
<1>2. ASSUME NEW n \in Nat, n \in S PROVE n + 1 \in S
  <2> SUFFICES ASSUME n + 1 <= N PROVE \E g \in [0 .. n + 1 -> T] : Iteration(g, b, R, n + 1)
    OBVIOUS
  <2>1. PICK f \in [0 .. n -> T] : Iteration(f, b, R, n)
    BY <1>2
  <2> DEFINE g == [m \in 0 .. n + 1 |-> IF m <= n THEN f[m] ELSE R[f[n]][n + 1]]
  <2>2. f[n] \in T /\ n + 1 \in 1 .. N
    OBVIOUS
  <2>3. R[f[n]][n + 1] \in T
    BY <2>2
  <2>4. g \in [0 .. n + 1 -> T]
    BY <2>3
  <2>5. \A m \in 0 .. n : g[m] = f[m]
    OBVIOUS
  <2>6. g[n + 1] = R[f[n]][n + 1]
    OBVIOUS
  <2> HIDE DEF g
  <2>7. ASSUME NEW m \in 0 .. n + 1
        PROVE  g[m] = IF m = 0 THEN b ELSE R[g[m - 1]][m]
    <3>1. CASE m = n + 1
      <4>1. m # 0 /\ m - 1 = n /\ n \in 0 .. n
        BY <3>1
      <4>2. g[n] = f[n]
        BY <2>5, <4>1
      <4> QED
        BY <2>6, <3>1, <4>1, <4>2
    <3>2. CASE m \in 0 .. n
      <4>0. m # 0 => m - 1 \in 0 .. n
        BY <3>2
      <4>1. m # 0 => g[m - 1] = f[m - 1]
        BY <2>5, <4>0
      <4>2. f[m] = IF m = 0 THEN b ELSE R[f[m - 1]][m]
        BY <2>1, <3>2 DEF Iteration
      <4>3. g[m] = f[m]
        BY <2>5, <3>2
      <4> QED
        BY <4>1, <4>2, <4>3
    <3>3. m = n + 1 \/ m \in 0 .. n
      OBVIOUS
    <3> QED
      BY <3>1, <3>2, <3>3
  <2> QED
    BY <2>4, <2>7 DEF Iteration
<1> HIDE DEF S
<1>3. N \in S
  BY <1>1, <1>2, SetInduction
<1> QED
  BY <1>3 DEF S

(* A function whose steps stay in a set stays there.                       *)
LEMMA StaysIn ==
  ASSUME NEW T, NEW N \in Nat, NEW f, f[0] \in T,
         \A m \in 1 .. N : f[m - 1] \in T => f[m] \in T
  PROVE  \A m \in 0 .. N : f[m] \in T
<1> DEFINE S == {m \in Nat : m <= N => f[m] \in T}
<1>1. 0 \in S
  OBVIOUS
<1>2. ASSUME NEW m \in Nat, m \in S PROVE m + 1 \in S
  <2>1. (m + 1) - 1 = m /\ (m + 1 <= N => m + 1 \in 1 .. N /\ m <= N)
    OBVIOUS
  <2> QED
    BY <1>2, <2>1
<1> HIDE DEF S
<1>3. Nat \subseteq S
  BY <1>1, <1>2, SetInduction
<1> QED
  BY <1>3 DEF S

-----------------------------------------------------------------------------
(* Texts of the program, put character by character.                       *)

Screen == [cell : [Cell -> Char], pos : Cell]
Line   == Seq(Char) \cup {Lost}

LEMMA Sizes ==
  /\ CRT_COLS \in Nat /\ CRT_COLS > 0 /\ CRT_SIZE \in Nat
  /\ CRT_SIZE >= 2 * CRT_COLS
  /\ BUFLEN \in Nat /\ BUFLEN > 0 /\ BUFLEN + CRT_COLS <= CRT_SIZE
  /\ Char = 0 .. 255
<1>1. /\ CRT_ROWS \in Nat /\ CRT_ROWS >= 2 /\ CRT_COLS \in Nat /\ CRT_COLS > 0
  BY ScreenAssumption
<1>2. CRT_ROWS * CRT_COLS \in Nat /\ CRT_ROWS * CRT_COLS >= 2 * CRT_COLS
  BY <1>1
<1> QED
  BY <1>1, <1>2, MonitorAssumption DEF CRT_SIZE, Char

(* A cursor past the screen scrolls it, and the text before it with it.    *)
LEMMA ScrollScreen ==
  ASSUME NEW f \in [Cell -> Char], NEW n \in 0 .. CRT_SIZE + CRT_COLS - 1,
         NEW t, t = Scroll([cell |-> f, pos |-> n])
  PROVE  /\ t \in Screen
         /\ \A k \in 1 .. CRT_SIZE - CRT_COLS :
              k <= n /\ n <= CRT_SIZE => t.pos >= k /\ t.cell[t.pos - k] = f[n - k]
<1>1. CASE n < CRT_SIZE
  <2>1. t = [cell |-> f, pos |-> n] /\ n \in Cell
    BY <1>1, Sizes DEF Scroll, Cell
  <2> QED
    BY <2>1, Sizes DEF Screen
<1>2. CASE ~(n < CRT_SIZE)
  <2> DEFINE g == [k \in Cell |-> IF k < CRT_SIZE - CRT_COLS THEN f[k + CRT_COLS] ELSE SPACE]
  <2>1. t = [cell |-> g, pos |-> n - CRT_COLS]
    BY <1>2 DEF Scroll
  <2>2. n - CRT_COLS \in Cell
    BY <1>2, Sizes DEF Cell
  <2>3. ASSUME NEW k \in Cell PROVE g[k] \in Char
    <3>1. k < CRT_SIZE - CRT_COLS => k + CRT_COLS \in Cell
      BY Sizes DEF Cell
    <3> QED
      BY <3>1, Sizes DEF SPACE
  <2>4. g \in [Cell -> Char]
    BY <2>3
  <2>5. ASSUME NEW k \in 1 .. CRT_SIZE - CRT_COLS, n <= CRT_SIZE
        PROVE  n - CRT_COLS >= k /\ g[n - CRT_COLS - k] = f[n - k]
    <3>1. n = CRT_SIZE /\ n - CRT_COLS - k \in Cell /\ n - CRT_COLS - k < CRT_SIZE - CRT_COLS
      BY <1>2, <2>5, Sizes DEF Cell
    <3>2. (n - CRT_COLS - k) + CRT_COLS = n - k
      BY <3>1, Sizes
    <3> QED
      BY <3>1, <3>2, Sizes
  <2> HIDE DEF g
  <2> QED
    BY <2>1, <2>2, <2>4, <2>5 DEF Screen
<1> QED
  BY <1>1, <1>2

(* A letter is put at the cursor, behind the text before it.               *)
LEMMA GlyphScreen ==
  ASSUME NEW s \in Screen, NEW c \in Char, NEW t, t = Glyph(s, c)
  PROVE  /\ t \in Screen
         /\ \A k \in 1 .. CRT_SIZE - CRT_COLS - 1 :
              k <= s.pos => t.pos >= k + 1 /\ t.cell[t.pos - 1 - k] = s.cell[s.pos - k]
         /\ t.pos >= 1 /\ t.cell[t.pos - 1] = c
<1> DEFINE f == [s.cell EXCEPT ![s.pos] = c]
           n == s.pos + 1
<1>1. f \in [Cell -> Char] /\ n \in 0 .. CRT_SIZE + CRT_COLS - 1 /\ n <= CRT_SIZE
  BY Sizes DEF Screen, Cell
<1>2. t = Scroll([cell |-> f, pos |-> n])
  BY DEF Glyph
<1>3. s.pos \in Cell /\ f[s.pos] = c /\ \A j \in Cell : j # s.pos => f[j] = s.cell[j]
  BY DEF Screen
<1> HIDE DEF f
<1>4. /\ t \in Screen
      /\ \A k \in 1 .. CRT_SIZE - CRT_COLS :
           k <= n => t.pos >= k /\ t.cell[t.pos - k] = f[n - k]
  BY <1>1, <1>2, ScrollScreen
<1>5. t.pos >= 1 /\ t.cell[t.pos - 1] = c
  <2>1. 1 \in 1 .. CRT_SIZE - CRT_COLS /\ 1 <= n /\ n - 1 = s.pos
    BY <1>3, Sizes DEF Cell
  <2> QED
    BY <1>3, <1>4, <2>1
<1>6. ASSUME NEW k \in 1 .. CRT_SIZE - CRT_COLS - 1, k <= s.pos
      PROVE  t.pos >= k + 1 /\ t.cell[t.pos - 1 - k] = s.cell[s.pos - k]
  <2>1. /\ k + 1 \in 1 .. CRT_SIZE - CRT_COLS /\ k + 1 <= n
        /\ n - (k + 1) = s.pos - k /\ s.pos - k \in Cell /\ s.pos - k # s.pos
    BY <1>3, <1>6, Sizes DEF Cell
  <2>2. t.pos \in Nat /\ t.pos - (k + 1) = t.pos - 1 - k
    BY <1>4, Sizes DEF Screen, Cell
  <2> QED
    BY <1>3, <1>4, <2>1, <2>2
<1> QED
  BY <1>4, <1>5, <1>6

LEMMA RowStartRange ==
  ASSUME NEW n \in Nat
  PROVE  RowStart(n) \in 0 .. n
<1>1. n % CRT_COLS \in 0 .. CRT_COLS - 1 /\ n % CRT_COLS <= n
  BY Sizes
<1> QED
  BY <1>1, Sizes DEF RowStart

LEMMA TabScreen ==
  ASSUME NEW s \in Screen
  PROVE  Tab(s) \in Screen
<1>1. SPACE \in Char
  BY Sizes DEF SPACE
<1>2. ASSUME NEW t \in Screen PROVE Glyph(t, SPACE) \in Screen
  <2>1. PICK u : u = Glyph(t, SPACE)
    OBVIOUS
  <2>2. u \in Screen
    BY <1>1, <2>1, GlyphScreen
  <2> QED
    BY <2>1, <2>2
<1> QED
  BY <1>2 DEF Tab

(* cga_putc, a character at a time.                                        *)
LEMMA PutCases ==
  ASSUME NEW s, NEW c
  PROVE  /\ c = BS => cga_putc(s, c) = IF s.pos = 0 THEN s
                                       ELSE [cell |-> [s.cell EXCEPT ![s.pos - 1] = SPACE],
                                             pos  |-> s.pos - 1]
         /\ c = LF => cga_putc(s, c) = Scroll([s EXCEPT !.pos = RowStart(s.pos + CRT_COLS)])
         /\ c = CR => cga_putc(s, c) = [s EXCEPT !.pos = RowStart(s.pos)]
         /\ c = TAB => cga_putc(s, c) = Tab(s)
         /\ c \notin {BS, LF, CR, TAB} => cga_putc(s, c) = Glyph(s, c)
<1> DEFINE b == [cell |-> [s.cell EXCEPT ![s.pos - 1] = SPACE], pos  |-> s.pos - 1]
           l == Scroll([s EXCEPT !.pos = RowStart(s.pos + CRT_COLS)])
           r == [s EXCEPT !.pos = RowStart(s.pos)]
<1>1. cga_putc(s, c) = CASE c = BS -> (IF s.pos = 0 THEN s ELSE b)
                         [] c = LF -> l [] c = CR -> r
                         [] c = TAB -> Tab(s) [] OTHER -> Glyph(s, c)
  BY DEF cga_putc
<1> HIDE DEF b, l, r
<1>2. /\ c = BS => cga_putc(s, c) = IF s.pos = 0 THEN s ELSE b
      /\ c = LF => cga_putc(s, c) = l
      /\ c = CR => cga_putc(s, c) = r
      /\ c = TAB => cga_putc(s, c) = Tab(s)
      /\ c \notin {BS, LF, CR, TAB} => cga_putc(s, c) = Glyph(s, c)
  BY <1>1 DEF BS, LF, CR, TAB
<1> QED
  BY <1>2 DEF b, l, r

(* The cursor stays on the screen whatever is put there.                   *)
LEMMA PutScreen ==
  ASSUME NEW s \in Screen, NEW c \in Char
  PROVE  cga_putc(s, c) \in Screen
<1>1. s = [cell |-> s.cell, pos |-> s.pos] /\ s.cell \in [Cell -> Char] /\ s.pos \in Cell
  BY DEF Screen
<1>2. s.pos \in Nat /\ s.pos < CRT_SIZE /\ s.pos + CRT_COLS \in Nat
  BY <1>1, Sizes DEF Cell
<1>3. CASE c = BS
  <2> DEFINE f == [s.cell EXCEPT ![s.pos - 1] = SPACE]
  <2>1. s.pos # 0 => s.pos - 1 \in Cell
    BY <1>2, Sizes DEF Cell
  <2>2. SPACE \in Char
    BY Sizes DEF SPACE
  <2>3. f \in [Cell -> Char]
    BY <1>1, <2>2
  <2>4. cga_putc(s, c) = IF s.pos = 0 THEN s ELSE [cell |-> f, pos |-> s.pos - 1]
    BY <1>3, PutCases
  <2> HIDE DEF f
  <2> QED
    BY <2>1, <2>3, <2>4 DEF Screen
<1>4. CASE c = LF
  <2> DEFINE n == RowStart(s.pos + CRT_COLS)
  <2>1. n \in 0 .. CRT_SIZE + CRT_COLS - 1
    BY <1>2, Sizes, RowStartRange
  <2>2. cga_putc(s, c) = Scroll([s EXCEPT !.pos = n])
    BY <1>4, PutCases
  <2> HIDE DEF n
  <2>3. [s EXCEPT !.pos = n] = [cell |-> s.cell, pos |-> n]
    BY <1>1
  <2> QED
    BY <1>1, <2>1, <2>2, <2>3, ScrollScreen
<1>5. CASE c = CR
  <2>1. RowStart(s.pos) \in Cell
    BY <1>2, Sizes, RowStartRange DEF Cell
  <2>2. cga_putc(s, c) = [s EXCEPT !.pos = RowStart(s.pos)]
    BY <1>5, PutCases
  <2> QED
    BY <2>1, <2>2 DEF Screen
<1>6. CASE c = TAB
  BY <1>6, TabScreen, PutCases
<1>7. CASE c \notin {BS, LF, CR, TAB}
  <2>1. cga_putc(s, c) = Glyph(s, c)
    BY <1>7, PutCases
  <2> QED
    BY <2>1, GlyphScreen
<1> QED
  BY <1>3, <1>4, <1>5, <1>6, <1>7

-----------------------------------------------------------------------------
(* A text, put character by character: the recursive functions of Cga are  *)
(* defined, and end in the type they begin in.                             *)

LEMMA PutAllScreen ==
  ASSUME NEW s \in Screen, NEW text \in Seq(Char)
  PROVE  /\ PutAll(s, text) \in Screen
         /\ Len(text) = 1 => PutAll(s, text) = cga_putc(s, text[1])
<1> DEFINE N == Len(text)
           Step(h) == [n \in 0 .. N |-> IF n = 0 THEN s ELSE cga_putc(h[n - 1], text[n])]
           after == CHOOSE h : h = Step(h)
           R == [t \in Screen |-> [n \in 1 .. N |-> cga_putc(t, text[n])]]
<1>1. N \in Nat /\ \A n \in 1 .. N : text[n] \in Char
  BY LenProperties, ElementOfSeq
<1>2. R \in [Screen -> [1 .. N -> Screen]]
  BY <1>1, PutScreen
<1>3. \A t \in Screen, n \in 1 .. N : R[t][n] = cga_putc(t, text[n])
  OBVIOUS
<1>4. PutAll(s, text) = after[N]
  BY DEF PutAll
<1> HIDE DEF R, N
<1>5. \E h : h = Step(h)
  <2>1. PICK f \in [0 .. N -> Screen] : Iteration(f, s, R, N)
    BY <1>1, <1>2, Iterates
  <2>2. ASSUME NEW m \in 0 .. N
        PROVE  f[m] = IF m = 0 THEN s ELSE cga_putc(f[m - 1], text[m])
    <3>1. m # 0 => m - 1 \in 0 .. N /\ m \in 1 .. N /\ f[m - 1] \in Screen
      BY <1>1
    <3>2. m # 0 => R[f[m - 1]][m] = cga_putc(f[m - 1], text[m])
      BY <1>3, <3>1
    <3> QED
      BY <2>1, <3>2 DEF Iteration
  <2>3. f = Step(f)
    BY <2>2
  <2> QED
    BY <2>3
<1>6. after = Step(after)
  <2> HIDE DEF Step
  <2> QED
    BY <1>5
<1> HIDE DEF after
<1>7. /\ after[0] = s
      /\ \A m \in 1 .. N : after[m] = cga_putc(after[m - 1], text[m])
  BY <1>1, <1>6
<1>8. \A m \in 0 .. N : after[m] \in Screen
  BY <1>1, <1>7, PutScreen, StaysIn
<1>9. PutAll(s, text) \in Screen
  BY <1>1, <1>4, <1>8
<1>10. N = 1 => PutAll(s, text) = cga_putc(s, text[1])
  BY <1>4, <1>7
<1> QED
  BY <1>9, <1>10 DEF N

-----------------------------------------------------------------------------
(* The terminals on the ports.                                             *)

LEMMA LostLine ==
  ASSUME NEW l \in Line, l # Lost
  PROVE  l \in Seq(Char) /\ Len(l) \in Nat
BY LenProperties DEF Line

LEMMA AdvanceLine ==
  ASSUME NEW l \in Line, NEW c \in Char
  PROVE  Advance(l, c) \in Line
<1>1. CASE c \in {LF, CR}
  <2>1. Advance(l, c) = <<>>
    BY <1>1 DEF Advance, LF, CR, BS
  <2> QED
    BY <2>1, EmptySeq DEF Line
<1>2. CASE c = BS
  <2>1. Advance(l, c) = IF l \in {Lost, <<>>} THEN l ELSE Front(l)
    BY <1>2 DEF Advance, LF, CR, BS
  <2>2. ASSUME l # Lost PROVE Front(l) \in Seq(Char)
    <3>1. l \in Seq(Char) /\ Len(l) \in Nat /\ \A j \in 1 .. Len(l) - 1 : l[j] \in Char
      BY <2>2, LostLine, ElementOfSeq
    <3> QED
      BY <3>1, SubSeqProperties DEF Front
  <2> QED
    BY <2>1, <2>2 DEF Line
<1>3. CASE c \notin {LF, CR, BS}
  <2>1. Advance(l, c) = IF l = Lost THEN Lost ELSE Append(l, c)
    BY <1>3 DEF Advance, LF, CR, BS
  <2> QED
    BY <2>1, AppendProperties DEF Line
<1> QED
  BY <1>1, <1>2, <1>3

LEMMA OnPortLine ==
  ASSUME NEW l \in Line, NEW c \in Char, NEW ready \in BOOLEAN
  PROVE  OnPort(l, c, ready) \in Line
<1>1. \A m \in Line, d \in Char : port_putc(m, d, ready) \in Line
  BY AdvanceLine DEF port_putc, Line
<1>2. SPACE \in Char /\ TAB \in Char
  BY Sizes DEF SPACE, TAB
<1>3. TabOnPort(l, ready) \in Line
  BY <1>1, <1>2 DEF TabOnPort
<1> QED
  BY <1>1, <1>3 DEF OnPort

LEMMA SendAllLine ==
  ASSUME NEW l \in Line, NEW text \in Seq(Char), NEW ready \in BOOLEAN
  PROVE  /\ SendAll(l, text, ready) \in Line
         /\ Len(text) = 1 => SendAll(l, text, ready) = OnPort(l, text[1], ready)
<1> DEFINE N == Len(text)
           Step(h) == [n \in 0 .. N |-> IF n = 0 THEN l ELSE OnPort(h[n - 1], text[n], ready)]
           after == CHOOSE h : h = Step(h)
           R == [t \in Line |-> [n \in 1 .. N |-> OnPort(t, text[n], ready)]]
<1>1. N \in Nat /\ \A n \in 1 .. N : text[n] \in Char
  BY LenProperties, ElementOfSeq
<1>2. R \in [Line -> [1 .. N -> Line]]
  BY <1>1, OnPortLine
<1>3. \A t \in Line, n \in 1 .. N : R[t][n] = OnPort(t, text[n], ready)
  OBVIOUS
<1>4. SendAll(l, text, ready) = after[N]
  BY DEF SendAll
<1> HIDE DEF R, N
<1>5. \E h : h = Step(h)
  <2>1. PICK f \in [0 .. N -> Line] : Iteration(f, l, R, N)
    BY <1>1, <1>2, Iterates
  <2>2. ASSUME NEW m \in 0 .. N
        PROVE  f[m] = IF m = 0 THEN l ELSE OnPort(f[m - 1], text[m], ready)
    <3>1. m # 0 => m - 1 \in 0 .. N /\ m \in 1 .. N /\ f[m - 1] \in Line
      BY <1>1
    <3>2. m # 0 => R[f[m - 1]][m] = OnPort(f[m - 1], text[m], ready)
      BY <1>3, <3>1
    <3> QED
      BY <2>1, <3>2 DEF Iteration
  <2>3. f = Step(f)
    BY <2>2
  <2> QED
    BY <2>3
<1>6. after = Step(after)
  <2> HIDE DEF Step
  <2> QED
    BY <1>5
<1> HIDE DEF after
<1>7. /\ after[0] = l
      /\ \A m \in 1 .. N : after[m] = OnPort(after[m - 1], text[m], ready)
  BY <1>1, <1>6
<1>8. \A m \in 0 .. N : after[m] \in Line
  BY <1>1, <1>7, OnPortLine, StaysIn
<1>9. SendAll(l, text, ready) \in Line
  BY <1>1, <1>4, <1>8
<1>10. N = 1 => SendAll(l, text, ready) = OnPort(l, text[1], ready)
  BY <1>4, <1>7
<1> QED
  BY <1>9, <1>10 DEF N

-----------------------------------------------------------------------------
(* The inductive invariant.                                                *)

States == {"prompt", "read", "gobble", "scan", "lookup"}

TypeOK ==
  /\ crt \in Screen
  /\ lines \in [Ports -> Line]
  /\ buf \in [0 .. BUFLEN - 1 -> Char] /\ i \in 0 .. BUFLEN - 1
  /\ pc \in States
  /\ p \in Nat
  /\ argv \in Seq(Nat) /\ Len(argv) < MAXARGS

(* The line is printable text, and is the end of what the screen and the   *)
(* terminals show, a Delete included.                                      *)
OnScreen == crt.pos >= i /\ \A k \in 0 .. i - 1 : crt.cell[crt.pos - i + k] = buf[k]
OnLine(l) ==
  l # Lost => Len(l) >= i /\ \A k \in 0 .. i - 1 : l[Len(l) - i + k + 1] = buf[k]
Edited ==
  pc = "read" =>
    OnScreen /\ (\A q \in Ports : OnLine(lines[q])) /\ \A k \in 0 .. i - 1 : buf[k] >= SPACE

(* While runcmd works on it, the buffer is the text that was shown, with a *)
(* null at its end and for each space it has passed.                       *)
Shown ==
  /\ shown \in Seq(Char) /\ Len(shown) = i /\ \A k \in 1 .. i : shown[k] >= SPACE
  /\ p <= i /\ buf[i] = 0
  /\ \A k \in 0 .. i - 1 :
       buf[k] = IF k < p /\ shown[k + 1] = SPACE THEN 0 ELSE shown[k + 1]

(* argv points at the words that start before r, in their order.           *)
Arguments(r) ==
  /\ \A m, n \in 1 .. Len(argv) : m < n => argv[m] < argv[n]
  /\ \A k \in Nat : (\E n \in 1 .. Len(argv) : argv[n] = k)
                      <=> k < r /\ k + 1 \in Starts(shown)

(* No word goes on from before a to a.                                     *)
Between(a) == a > 0 => shown[a] = SPACE \/ a + 1 \notin 1 .. Len(shown) \/ shown[a + 1] = SPACE
Parsed ==
  /\ pc \in {"gobble", "scan", "lookup"} => Shown
  /\ pc = "gobble" => Arguments(p) /\ Between(p)
  /\ pc = "scan" => /\ Arguments(p + 1)
                    /\ p + 1 \in Starts(shown) \/ (p > 0 /\ shown[p] # SPACE)
  /\ pc = "lookup" => Arguments(p) /\ p = i

IInv == TypeOK /\ Edited /\ Parsed

LEMMA PutsType ==
  ASSUME crt \in Screen, lines \in [Ports -> Line], NEW text \in Seq(Char), cons_puts(text)
  PROVE  crt' \in Screen /\ lines' \in [Ports -> Line]
<1>1. crt' \in Screen
  BY PutAllScreen DEF cons_puts
<1>2. PICK ready \in SUBSET Ports :
        lines' = [q \in Ports |-> SendAll(lines[q], text, q \in ready)]
  BY DEF cons_puts
<1>3. ASSUME NEW q \in Ports PROVE SendAll(lines[q], text, q \in ready) \in Line
  <2>1. lines[q] \in Line
    OBVIOUS
  <2>2. (q \in ready) \in BOOLEAN
    OBVIOUS
  <2> QED
    BY <2>1, <2>2, SendAllLine, Zenon
<1> QED
  BY <1>1, <1>2, <1>3

(* A single character on the screen and on the ports.                      *)
LEMMA PutsOne ==
  ASSUME crt \in Screen, lines \in [Ports -> Line], NEW c \in Char \ {TAB}, cons_puts(<<c>>)
  PROVE  /\ crt' = cga_putc(crt, c)
         /\ \A q \in Ports : lines'[q] \in {Lost, Advance(lines[q], c)}
<1>1. <<c>> \in Seq(Char) /\ Len(<<c>>) = 1 /\ <<c>>[1] = c
  OBVIOUS
<1>2. crt' = cga_putc(crt, c)
  BY <1>1, PutAllScreen DEF cons_puts
<1>3. PICK ready \in SUBSET Ports :
        lines' = [q \in Ports |-> SendAll(lines[q], <<c>>, q \in ready)]
  BY DEF cons_puts
<1>4. ASSUME NEW q \in Ports PROVE lines'[q] \in {Lost, Advance(lines[q], c)}
  <2>1. lines'[q] = SendAll(lines[q], <<c>>, q \in ready) /\ lines[q] \in Line
    BY <1>3
  <2>2. (q \in ready) \in BOOLEAN
    OBVIOUS
  <2>3. SendAll(lines[q], <<c>>, q \in ready) = OnPort(lines[q], <<c>>[1], q \in ready)
    BY <1>1, <2>1, <2>2, SendAllLine, Zenon
  <2> QED
    BY <1>1, <2>1, <2>3 DEF OnPort, port_putc
<1> QED
  BY <1>2, <1>4

-----------------------------------------------------------------------------
(* readline.                                                               *)

LEMMA PromptStep ==
  ASSUME IInv, PrintPrompt
  PROVE  IInv'
<1> USE DEF IInv, TypeOK
<1>1. crt' \in Screen /\ lines' \in [Ports -> Line]
  BY PutsType, MonitorAssumption DEF PrintPrompt
<1>2. TypeOK'
  BY <1>1, Sizes DEF PrintPrompt, States
<1>3. lines' \in [Ports -> Line] /\ \A q \in Ports : OnLine(lines[q])'
  <2>1. i' = 0
    BY DEF PrintPrompt
  <2>2. ASSUME NEW q \in Ports, lines'[q] # Lost PROVE Len(lines'[q]) >= 0
    BY <1>1, <2>2, LostLine
  <2> QED
    BY <1>1, <2>1, <2>2 DEF OnLine
<1>4. Edited'
  BY <1>1, <1>3, Sizes DEF PrintPrompt, Edited, OnScreen, Screen, Cell
<1>5. Parsed'
  BY DEF PrintPrompt, Parsed
<1> QED
  BY <1>2, <1>4, <1>5

LEMMA EraseStep ==
  ASSUME IInv, pc = "read", NEW c \in Typed, Erase(c)
  PROVE  IInv'
<1> USE DEF IInv, TypeOK
<1>1. i > 0 /\ i' = i - 1 /\ buf' = buf /\ pc' = pc /\ p' = p /\ argv' = argv /\ shown' = shown
  BY DEF Erase
<1>2. /\ crt' = cga_putc(crt, BS)
      /\ \A q \in Ports : lines'[q] \in {Lost, Advance(lines[q], BS)}
  <2>1. BS \in Char \ {TAB}
    BY Sizes DEF BS, TAB
  <2> QED
    BY <2>1, PutsOne DEF Erase
<1>3. crt' \in Screen /\ lines' \in [Ports -> Line]
  <2>1. <<BS>> \in Seq(Char)
    BY Sizes DEF BS
  <2> QED
    BY <2>1, PutsType DEF Erase
<1>4. OnScreen /\ (\A q \in Ports : OnLine(lines[q])) /\ \A k \in 0 .. i - 1 : buf[k] >= SPACE
  BY DEF Edited
<1>5. OnScreen'
  <2>1. crt.pos >= i /\ crt.pos # 0 /\ crt.pos \in Cell
    BY <1>1, <1>4, Sizes DEF OnScreen, Screen, Cell
  <2>2. crt' = [cell |-> [crt.cell EXCEPT ![crt.pos - 1] = SPACE], pos |-> crt.pos - 1]
    BY <1>2, <2>1, PutCases
  <2>3. ASSUME NEW k \in 0 .. i' - 1
        PROVE  crt'.cell[crt'.pos - i' + k] = buf[k]
    <3>1. /\ crt'.pos - i' + k = crt.pos - i + k
          /\ crt.pos - i + k \in Cell /\ crt.pos - i + k # crt.pos - 1
      <4>1. CRT_SIZE \in Nat /\ Cell = 0 .. CRT_SIZE - 1
        BY Sizes DEF Cell
      <4>2. PICK n, m \in Nat : n = crt.pos /\ m = i /\ n >= m /\ n <= CRT_SIZE - 1
        BY <2>1, <4>1
      <4>3. crt'.pos = n - 1 /\ i' = m - 1 /\ m > 0
        BY <1>1, <2>2, <4>2
      <4>4. k \in Nat /\ k <= m - 2
        BY <4>2, <4>3
      <4>5. (n - 1) - (m - 1) + k = n - m + k /\ n - m + k \in Cell /\ n - m + k # n - 1
        BY <4>1, <4>2, <4>3, <4>4
      <4> QED
        BY <4>2, <4>3, <4>5
    <3>2. crt'.cell[crt.pos - i + k] = crt.cell[crt.pos - i + k]
      BY <2>2, <3>1 DEF Screen
    <3>3. k \in 0 .. i - 1
      BY <1>1
    <3>4. crt.cell[crt.pos - i + k] = buf[k]
      BY <1>4, <3>3 DEF OnScreen
    <3> QED
      BY <3>1, <3>2, <3>4
  <2> QED
    BY <1>1, <2>1, <2>2, <2>3, Sizes DEF OnScreen, Cell
<1>6. ASSUME NEW q \in Ports, lines'[q] # Lost
      PROVE  /\ Len(lines'[q]) >= i'
             /\ \A k \in 0 .. i' - 1 : lines'[q][Len(lines'[q]) - i' + k + 1] = buf[k]
  <2>1. lines'[q] = Advance(lines[q], BS) /\ lines[q] \in Line
    BY <1>2, <1>6
  <2>2. Advance(lines[q], BS) = IF lines[q] \in {Lost, <<>>} THEN lines[q] ELSE Front(lines[q])
    BY DEF Advance, BS, LF, CR
  <2>3. lines[q] # Lost
    BY <1>6, <2>1, <2>2
  <2>4. PICK l \in Seq(Char) : l = lines[q]
    BY <2>1, <2>3, LostLine
  <2>5. Len(l) \in Nat /\ Len(l) >= i /\ \A k \in 0 .. i - 1 : l[Len(l) - i + k + 1] = buf[k]
    BY <1>4, <2>3, <2>4, LenProperties DEF OnLine
  <2>6. l # <<>>
    BY <1>1, <2>5, EmptySeq
  <2>7. lines'[q] = SubSeq(l, 1, Len(l) - 1)
    BY <2>1, <2>2, <2>3, <2>4, <2>6 DEF Front
  <2>8. /\ Len(SubSeq(l, 1, Len(l) - 1)) = Len(l) - 1
        /\ \A j \in 1 .. Len(l) - 1 : SubSeq(l, 1, Len(l) - 1)[j] = l[j]
    <3>1. Len(l) - 1 \in Nat
      BY <1>1, <2>5, Sizes
    <3>2. PICK n \in Nat : n = Len(l) - 1
      BY <3>1
    <3>3. \A j \in 1 .. n : l[j] \in Char
      BY <2>5, <3>2, ElementOfSeq
    <3>4. /\ Len(SubSeq(l, 1, n)) = IF 1 <= n THEN n - 1 + 1 ELSE 0
          /\ \A j \in 1 .. n - 1 + 1 : SubSeq(l, 1, n)[j] = l[1 + j - 1]
      BY <3>3, SubSeqProperties
    <3>5. \A j \in 1 .. n : j \in 1 .. n - 1 + 1 /\ 1 + j - 1 = j
      OBVIOUS
    <3> QED
      BY <3>2, <3>4, <3>5
  <2>9. ASSUME NEW k \in 0 .. i' - 1
        PROVE  lines'[q][Len(lines'[q]) - i' + k + 1] = buf[k]
    <3>1. PICK n, m \in Nat : n = Len(l) /\ m = i /\ n >= m /\ m > 0 /\ i' = m - 1
      BY <1>1, <2>5
    <3>2. Len(lines'[q]) = n - 1
      BY <2>7, <2>8, <3>1
    <3>3. k \in 0 .. m - 2
      BY <3>1
    <3>4. n - m + k + 1 \in 1 .. n - 1 /\ k \in 0 .. m - 1 /\ (n - 1) - (m - 1) + k + 1 = n - m + k + 1
      BY <3>1, <3>3
    <3>5. Len(lines'[q]) - i' + k + 1 = n - m + k + 1
      BY <3>1, <3>2, <3>4
    <3>6. lines'[q][n - m + k + 1] = l[n - m + k + 1]
      BY <2>7, <2>8, <3>1, <3>4
    <3>7. l[n - m + k + 1] = buf[k]
      BY <2>5, <3>1, <3>4
    <3> QED
      BY <3>5, <3>6, <3>7
  <2> QED
    BY <1>1, <2>5, <2>7, <2>8, <2>9
<1>7. Edited'
  BY <1>1, <1>4, <1>5, <1>6 DEF Edited, OnLine
<1>8. i' \in 0 .. BUFLEN - 1
  BY <1>1, Sizes
<1>9. TypeOK'
  BY <1>1, <1>3, <1>8
<1>10. Parsed'
  BY <1>1 DEF Parsed
<1> QED
  BY <1>7, <1>9, <1>10

LEMMA KeepStep ==
  ASSUME IInv, pc = "read", NEW c \in Typed, Keep(c)
  PROVE  IInv'
<1> USE DEF IInv, TypeOK
<1>1. /\ c \in Char /\ c >= SPACE /\ c \notin {BS, LF, CR, TAB} /\ i < BUFLEN - 1
      /\ buf' = [buf EXCEPT ![i] = c] /\ i' = i + 1
      /\ pc' = pc /\ p' = p /\ argv' = argv /\ shown' = shown
  BY MonitorAssumption DEF Keep, SPACE, BS, LF, CR, TAB
<1>2. crt' = cga_putc(crt, c) /\ \A q \in Ports : lines'[q] \in {Lost, Advance(lines[q], c)}
  BY <1>1, PutsOne DEF Keep
<1>3. crt' \in Screen /\ lines' \in [Ports -> Line]
  <2>1. <<c>> \in Seq(Char)
    BY <1>1
  <2> QED
    BY <2>1, PutsType DEF Keep
<1>4. OnScreen /\ (\A q \in Ports : OnLine(lines[q])) /\ \A k \in 0 .. i - 1 : buf[k] >= SPACE
  BY DEF Edited
<1>5. /\ i' \in 0 .. BUFLEN - 1 /\ buf' \in [0 .. BUFLEN - 1 -> Char]
      /\ buf'[i] = c /\ \A k \in 0 .. i - 1 : buf'[k] = buf[k]
  BY <1>1, Sizes
<1>6. OnScreen'
  <2>1. crt' = Glyph(crt, c)
    BY <1>1, <1>2, PutCases
  <2>2. /\ crt'.pos >= 1 /\ crt'.cell[crt'.pos - 1] = c
        /\ \A k \in 1 .. CRT_SIZE - CRT_COLS - 1 :
             k <= crt.pos => /\ crt'.pos >= k + 1
                             /\ crt'.cell[crt'.pos - 1 - k] = crt.cell[crt.pos - k]
    BY <1>1, <2>1, GlyphScreen
  <2>3. crt.pos \in Nat /\ crt'.pos \in Nat /\ i \in Nat
    BY <1>3, Sizes DEF Screen, Cell
  <2>4. crt'.pos >= i'
    <3>1. CASE i = 0
      BY <1>1, <2>2, <2>3, <3>1
    <3>2. CASE i # 0
      <4>1. i \in 1 .. CRT_SIZE - CRT_COLS - 1 /\ i <= crt.pos
        BY <1>1, <1>4, <2>3, <3>2, Sizes DEF OnScreen
      <4> QED
        BY <1>1, <2>2, <4>1
    <3> QED
      BY <3>1, <3>2
  <2>5. ASSUME NEW k \in 0 .. i' - 1
        PROVE  crt'.cell[crt'.pos - i' + k] = buf'[k]
    <3>1. CASE k = i
      BY <1>1, <1>5, <2>2, <2>3, <3>1
    <3>2. CASE k # i
      <4>1. PICK j \in 1 .. CRT_SIZE - CRT_COLS - 1 : j = i - k /\ j <= crt.pos
        BY <1>1, <1>4, <2>3, <3>2, Sizes DEF OnScreen
      <4>2. /\ crt'.pos - 1 - j = crt'.pos - i' + k /\ crt.pos - j = crt.pos - i + k
            /\ k \in 0 .. i - 1
        BY <1>1, <2>3, <3>2, <4>1
      <4>3. crt'.cell[crt'.pos - 1 - j] = crt.cell[crt.pos - j]
        BY <2>2, <4>1
      <4>4. crt.cell[crt.pos - i + k] = buf[k]
        BY <1>4, <4>2 DEF OnScreen
      <4> QED
        BY <1>5, <4>2, <4>3, <4>4
    <3> QED
      BY <3>1, <3>2
  <2> QED
    BY <2>4, <2>5 DEF OnScreen
<1>7. ASSUME NEW q \in Ports, lines'[q] # Lost
      PROVE  /\ Len(lines'[q]) >= i'
             /\ \A k \in 0 .. i' - 1 : lines'[q][Len(lines'[q]) - i' + k + 1] = buf'[k]
  <2>1. lines'[q] = Advance(lines[q], c) /\ lines[q] \in Line
    BY <1>2, <1>7
  <2>2. Advance(lines[q], c) = IF lines[q] = Lost THEN Lost ELSE Append(lines[q], c)
    BY <1>1 DEF Advance
  <2>3. lines[q] # Lost
    BY <1>7, <2>1, <2>2
  <2>4. PICK l \in Seq(Char) : l = lines[q]
    BY <2>1, <2>3, LostLine
  <2>5. Len(l) \in Nat /\ Len(l) >= i /\ \A k \in 0 .. i - 1 : l[Len(l) - i + k + 1] = buf[k]
    BY <1>4, <2>3, <2>4, LenProperties DEF OnLine
  <2>6. lines'[q] = Append(l, c)
    BY <2>1, <2>2, <2>3, <2>4
  <2>7. /\ Len(lines'[q]) = Len(l) + 1 /\ lines'[q][Len(l) + 1] = c
        /\ \A j \in 1 .. Len(l) : lines'[q][j] = l[j]
    BY <1>1, <2>6, AppendProperties
  <2>8. ASSUME NEW k \in 0 .. i' - 1
        PROVE  lines'[q][Len(lines'[q]) - i' + k + 1] = buf'[k]
    <3>1. i \in Nat /\ Len(lines'[q]) - i' + k + 1 = Len(l) - i + k + 1
      BY <1>1, <2>5, <2>7, Sizes
    <3>2. CASE k = i
      BY <1>5, <2>5, <2>7, <3>1, <3>2
    <3>3. CASE k # i
      <4>1. k \in 0 .. i - 1 /\ Len(l) - i + k + 1 \in 1 .. Len(l)
        BY SMTT(30), <1>1, <2>5, <3>1, <3>3
      <4> QED
        BY <1>5, <2>5, <2>7, <3>1, <4>1
    <3> QED
      BY <3>2, <3>3
  <2> QED
    BY <1>1, <2>5, <2>7, <2>8, Sizes
<1>8. \A k \in 0 .. i' - 1 : buf'[k] >= SPACE
  <2>1. \A k \in 0 .. i' - 1 : k = i \/ k \in 0 .. i - 1
    BY <1>1, Sizes
  <2> QED
    BY <1>1, <1>4, <1>5, <2>1
<1>9. Edited'
  BY <1>6, <1>7, <1>8 DEF Edited, OnLine
<1>10. TypeOK'
  BY <1>1, <1>3, <1>5
<1>11. Parsed'
  BY <1>1 DEF Parsed
<1> QED
  BY <1>9, <1>10, <1>11

LEMMA EnterStep ==
  ASSUME IInv, pc = "read", NEW c \in Typed, Enter(c)
  PROVE  IInv'
<1> USE DEF IInv, TypeOK
<1>1. /\ pc' = "gobble" /\ p' = 0 /\ argv' = <<>> /\ i' = i /\ i \in Nat
      /\ buf' = [buf EXCEPT ![i] = 0]
      /\ shown' = [k \in 1 .. i |-> crt.cell[crt.pos - i + k - 1]]
  BY Sizes DEF Enter
<1>2. OnScreen /\ \A k \in 0 .. i - 1 : buf[k] >= SPACE
  BY DEF Edited
<1>3. crt' \in Screen /\ lines' \in [Ports -> Line]
  <2>1. <<LF>> \in Seq(Char)
    BY Sizes DEF LF
  <2> QED
    BY <2>1, PutsType DEF Enter
<1>4. /\ buf' \in [0 .. BUFLEN - 1 -> Char]
      /\ buf'[i] = 0 /\ \A k \in 0 .. i - 1 : buf'[k] = buf[k]
  <2>1. 0 \in Char /\ \A k \in 0 .. i - 1 : k # i /\ k \in 0 .. BUFLEN - 1
    BY <1>1, Sizes
  <2> QED
    BY <1>1, <2>1
<1>5. TypeOK'
  <2>1. Len(argv') < MAXARGS /\ argv' \in Seq(Nat)
    BY <1>1, MonitorAssumption, EmptySeq
  <2> QED
    BY <1>1, <1>3, <1>4, <2>1 DEF States
<1>6. \A k \in 1 .. i : shown'[k] = buf[k - 1] /\ shown'[k] \in Char /\ shown'[k] >= SPACE
  <2> TAKE k \in 1 .. i
  <2>1. /\ k - 1 \in 0 .. i - 1 /\ k - 1 \in 0 .. BUFLEN - 1 /\ crt.pos \in Nat
        /\ crt.pos - i + k - 1 = crt.pos - i + (k - 1)
    BY <1>1, Sizes DEF Screen, Cell
  <2>2. shown'[k] = buf[k - 1]
    BY <1>1, <1>2, <2>1 DEF OnScreen
  <2> QED
    BY <1>2, <2>1, <2>2
<1>7. shown' \in Seq(Char) /\ Len(shown') = i
  <2> DEFINE t == [k \in 1 .. i |-> crt.cell[crt.pos - i + k - 1]]
  <2>1. \A k \in 1 .. i : t[k] \in Char
    BY <1>1, <1>6
  <2>2. t \in [1 .. i -> Char]
    BY <2>1
  <2> HIDE DEF t
  <2>3. t \in Seq(Char) /\ Len(t) = i
    BY <1>1, <2>2
  <2> QED
    BY <1>1, <2>3 DEF t
<1>8. Shown'
  <2>1. ASSUME NEW k \in 0 .. i' - 1
        PROVE  buf'[k] = IF k < p' /\ shown'[k + 1] = SPACE THEN 0 ELSE shown'[k + 1]
    <3>1. k \in 0 .. i - 1 /\ k + 1 \in 1 .. i /\ (k + 1) - 1 = k /\ ~(k < p')
      BY <1>1
    <3> QED
      BY <1>4, <1>6, <3>1
  <2>2. p' <= i' /\ buf'[i'] = 0
    BY <1>1, <1>4
  <2>3. \A k \in 1 .. i' : shown'[k] >= SPACE
    BY <1>1, <1>6
  <2> QED
    BY <1>1, <1>7, <2>1, <2>2, <2>3 DEF Shown
<1>9. Arguments(p)' /\ Between(p)'
  <2>1. Len(argv') = 0
    BY <1>1, EmptySeq
  <2>2. \A k \in Nat : ~(k < 0)
    OBVIOUS
  <2> QED
    BY <1>1, <2>1, <2>2 DEF Arguments, Between
<1>10. Edited' /\ Parsed'
  BY <1>1, <1>8, <1>9 DEF Edited, Parsed
<1> QED
  BY <1>5, <1>10

LEMMA SameStep ==
  ASSUME IInv, UNCHANGED vars
  PROVE  IInv'
<1>1. /\ crt' = crt /\ lines' = lines /\ buf' = buf /\ i' = i /\ pc' = pc
      /\ p' = p /\ argv' = argv /\ shown' = shown
  BY DEF vars
<1>2. TypeOK'
  BY <1>1 DEF IInv, TypeOK
<1>3. Edited'
  BY <1>1 DEF IInv, Edited, OnScreen, OnLine
<1>4. (Shown <=> Shown') /\ (Arguments(p) <=> Arguments(p)')
      /\ (Arguments(p + 1) <=> Arguments(p + 1)') /\ (Between(p) <=> Between(p)')
      /\ Starts(shown)' = Starts(shown)
  BY <1>1 DEF Shown, Arguments, Between, Starts
<1>5. Parsed'
  BY <1>1, <1>4 DEF IInv, Parsed
<1> QED
  BY <1>2, <1>3, <1>5 DEF IInv

LEMMA ReadStep ==
  ASSUME IInv, readline
  PROVE  IInv'
<1>1. pc = "read" /\ \E c \in Typed : Erase(c) \/ Keep(c) \/ Enter(c) \/ Drop(c)
  BY DEF readline
<1>2. ASSUME NEW c \in Typed, Drop(c) PROVE IInv'
  BY <1>2, SameStep DEF Drop
<1> QED
  BY <1>1, <1>2, EraseStep, KeepStep, EnterStep

-----------------------------------------------------------------------------
(* runcmd.                                                                 *)

(* What the character at p tells of the text.                              *)
LEMMA AtP ==
  ASSUME IInv, pc \in {"gobble", "scan"}
  PROVE  /\ p \in Nat /\ i \in Nat /\ p <= i /\ p \in 0 .. BUFLEN - 1
         /\ buf[p] = 0 <=> p = i
         /\ buf[p] \in WHITESPACE => p < i /\ p + 1 \in 1 .. Len(shown) /\ shown[p + 1] = SPACE
         /\ buf[p] \notin WHITESPACE \cup {0} =>
              p < i /\ p + 1 \in 1 .. Len(shown) /\ shown[p + 1] # SPACE
<1>1. Shown /\ i \in Nat /\ p \in Nat /\ i \in 0 .. BUFLEN - 1
  BY Sizes DEF IInv, TypeOK, Parsed
<1>2. p <= i /\ buf[i] = 0 /\ Len(shown) = i
  BY <1>1 DEF Shown
<1>3. CASE p < i
  <2>1. p \in 0 .. i - 1 /\ p + 1 \in 1 .. i
    BY <1>1, <1>3
  <2>2. buf[p] = shown[p + 1] /\ shown[p + 1] >= SPACE /\ shown[p + 1] \in Char
    BY <1>1, <1>2, <2>1, ElementOfSeq DEF Shown
  <2>3. buf[p] # 0 /\ (buf[p] \in WHITESPACE <=> shown[p + 1] = SPACE)
    BY <2>2, Sizes DEF WHITESPACE, TAB, CR, LF, SPACE
  <2> QED
    BY <1>1, <1>2, <1>3, <2>1, <2>2, <2>3, Sizes
<1>4. CASE p = i
  <2>1. buf[p] = 0 /\ 0 \notin WHITESPACE
    BY <1>2, <1>4 DEF WHITESPACE, TAB, CR, LF, SPACE
  <2> QED
    BY <1>1, <1>2, <1>4, <2>1
<1> QED
  BY <1>1, <1>2, <1>3, <1>4

(* Past a place where no word starts the arguments are the same.           *)
LEMMA NoStart ==
  ASSUME NEW r \in Nat, Arguments(r), r + 1 \notin Starts(shown)
  PROVE  Arguments(r + 1)
<1>1. \A k \in Nat : k < r + 1 /\ k + 1 \in Starts(shown) <=> k < r /\ k + 1 \in Starts(shown)
  <2> TAKE k \in Nat
  <2>1. k < r + 1 <=> k < r \/ k = r
    OBVIOUS
  <2> QED
    BY <2>1
<1> QED
  BY <1>1 DEF Arguments

LEMMA StartsAt ==
  ASSUME NEW r \in Nat
  PROVE  r + 1 \in Starts(shown) <=>
           /\ r + 1 \in 1 .. Len(shown) /\ shown[r + 1] # SPACE
           /\ r = 0 \/ shown[r] = SPACE
<1>1. (r + 1) - 1 = r /\ (r + 1 = 1 <=> r = 0)
  OBVIOUS
<1> QED
  BY <1>1 DEF Starts

LEMMA GobbleStep ==
  ASSUME IInv, pc = "gobble", Gobble
  PROVE  IInv'
<1> USE DEF IInv, TypeOK
<1>1. /\ buf' = [buf EXCEPT ![p] = 0] /\ p' = p + 1 /\ pc' = pc /\ i' = i
      /\ crt' = crt /\ lines' = lines /\ argv' = argv /\ shown' = shown
  BY DEF Gobble
<1>2. /\ p \in Nat /\ i \in Nat /\ p < i /\ p + 1 \in 1 .. Len(shown) /\ shown[p + 1] = SPACE
      /\ p \in 0 .. BUFLEN - 1
  BY AtP DEF Gobble
<1>3. Shown /\ Arguments(p)
  BY DEF Parsed
<1>4. 0 \in Char
  BY Sizes
<1>5. TypeOK'
  BY <1>1, <1>2, <1>4
<1>6. Shown'
  <2>1. ASSUME NEW k \in 0 .. i - 1
        PROVE  buf'[k] = IF k < p' /\ shown[k + 1] = SPACE THEN 0 ELSE shown[k + 1]
    <3>1. k \in 0 .. BUFLEN - 1 /\ (k # p => (k < p <=> k < p'))
      BY <1>1, <1>2, Sizes
    <3>2. CASE k = p
      BY <1>1, <1>2, <3>1, <3>2
    <3>3. CASE k # p
      BY <1>1, <1>3, <3>1, <3>3 DEF Shown
    <3> QED
      BY <3>2, <3>3
  <2>2. p' <= i /\ buf'[i] = 0
    <3>1. i # p /\ i \in 0 .. BUFLEN - 1 /\ p' <= i
      BY <1>1, <1>2
    <3> QED
      BY <1>1, <1>3, <3>1 DEF Shown
  <2> QED
    BY <1>1, <1>3, <2>1, <2>2 DEF Shown
<1>7. Arguments(p + 1)
  BY <1>2, <1>3, StartsAt, NoStart
<1>8. Arguments(p)'
  BY <1>1, <1>7 DEF Arguments
<1>9. Between(p)'
  BY <1>1, <1>2 DEF Between
<1>10. Edited' /\ Parsed'
  BY <1>1, <1>6, <1>8, <1>9 DEF Edited, Parsed
<1> QED
  BY <1>5, <1>10

LEMMA SaveArgStep ==
  ASSUME IInv, pc = "gobble", SaveArg
  PROVE  IInv'
<1> USE DEF IInv, TypeOK
<1>1. /\ argv' = Append(argv, p) /\ p' = p /\ pc' = "scan" /\ i' = i
      /\ crt' = crt /\ lines' = lines /\ buf' = buf /\ shown' = shown
      /\ Len(argv) # MAXARGS - 1
  BY DEF SaveArg
<1>2. p \in Nat /\ p + 1 \in 1 .. Len(shown) /\ shown[p + 1] # SPACE
  BY AtP DEF SaveArg
<1>3. Shown /\ Arguments(p) /\ Between(p)
  BY DEF Parsed
<1>4. PICK n \in Nat : n = Len(argv)
  BY LenProperties
<1>5. /\ argv' \in Seq(Nat) /\ Len(argv') = n + 1 /\ argv'[n + 1] = p
      /\ \A m \in 1 .. n : argv'[m] = argv[m] /\ argv[m] \in Nat
  BY <1>1, <1>2, <1>4, AppendProperties, ElementOfSeq
<1>6. TypeOK'
  <2>1. Len(argv') < MAXARGS
    BY <1>1, <1>4, <1>5, MonitorAssumption
  <2> QED
    BY <1>1, <1>5, <2>1 DEF States
<1>7. p + 1 \in Starts(shown)
  <2>1. p = 0 \/ shown[p] = SPACE
    BY <1>2, <1>3 DEF Between
  <2> QED
    BY <1>2, <2>1, StartsAt
<1>8. \A m \in 1 .. n : argv[m] < p
  BY <1>3, <1>4, <1>5 DEF Arguments
<1>9. \A m, j \in 1 .. n + 1 : m < j => argv'[m] < argv'[j]
  <2> TAKE m, j \in 1 .. n + 1
  <2> HAVE m < j
  <2>1. m \in 1 .. n
    BY <1>4
  <2>2. CASE j = n + 1
    BY <1>5, <1>8, <2>1, <2>2
  <2>3. CASE j # n + 1
    <3>1. j \in 1 .. n
      BY SMTT(30), <1>4, <2>3
    <3>2. argv[m] < argv[j]
      BY <1>3, <1>4, <2>1, <3>1 DEF Arguments
    <3>3. argv'[m] = argv[m] /\ argv'[j] = argv[j]
      BY <1>4, <1>5, <2>1, <3>1
    <3> QED
      BY <3>2, <3>3
  <2> QED
    BY <2>2, <2>3
<1>10. ASSUME NEW k \in Nat
       PROVE  (\E m \in 1 .. n + 1 : argv'[m] = k) <=> k < p + 1 /\ k + 1 \in Starts(shown)
  <2>1. (\E m \in 1 .. n + 1 : argv'[m] = k) <=> k = p \/ \E m \in 1 .. n : argv[m] = k
    <3>1. \A m \in 1 .. n + 1 : m = n + 1 \/ m \in 1 .. n
      OBVIOUS
    <3>2. n + 1 \in 1 .. n + 1 /\ \A m \in 1 .. n : m \in 1 .. n + 1
      OBVIOUS
    <3> QED
      BY <1>5, <3>1, <3>2
  <2>2. (\E m \in 1 .. n : argv[m] = k) <=> k < p /\ k + 1 \in Starts(shown)
    BY <1>3, <1>4 DEF Arguments
  <2>3. k < p + 1 <=> k < p \/ k = p
    BY <1>2
  <2> QED
    BY <1>7, <2>1, <2>2, <2>3
<1>11. Arguments(p + 1)'
  BY <1>1, <1>5, <1>9, <1>10 DEF Arguments
<1>12. Shown'
  BY <1>1, <1>3 DEF Shown
<1>13. (p + 1 \in Starts(shown))'
  BY <1>1, <1>7 DEF Starts
<1>14. Edited' /\ Parsed'
  BY <1>1, <1>11, <1>12, <1>13 DEF Edited, Parsed
<1> QED
  BY <1>6, <1>14

LEMMA EndOfLineStep ==
  ASSUME IInv, pc = "gobble", EndOfLine
  PROVE  IInv'
<1> USE DEF IInv, TypeOK
<1>1. /\ pc' = "lookup" /\ p' = p /\ i' = i /\ argv' = argv
      /\ crt' = crt /\ lines' = lines /\ buf' = buf /\ shown' = shown
  BY DEF EndOfLine
<1>2. p = i
  BY AtP DEF EndOfLine
<1>3. Shown /\ Arguments(p)
  BY DEF Parsed
<1>4. Shown' /\ Arguments(p)'
  BY <1>1, <1>3 DEF Shown, Arguments
<1>5. Edited' /\ Parsed'
  BY <1>1, <1>2, <1>4 DEF Edited, Parsed
<1>6. TypeOK'
  BY <1>1 DEF States
<1> QED
  BY <1>5, <1>6

LEMMA ScanStep ==
  ASSUME IInv, scan
  PROVE  IInv'
<1> USE DEF IInv, TypeOK
<1>1. /\ pc = "scan" /\ i' = i /\ argv' = argv
      /\ crt' = crt /\ lines' = lines /\ buf' = buf /\ shown' = shown
  BY DEF scan
<1>2. Shown /\ Arguments(p + 1) /\ (p + 1 \in Starts(shown) \/ (p > 0 /\ shown[p] # SPACE))
  BY <1>1 DEF Parsed
<1>3. p \in Nat /\ p + 1 \in Nat
  OBVIOUS
<1>4. CASE buf[p] \in WHITESPACE \cup {0}
  <2>1. pc' = "gobble" /\ p' = p
    BY <1>4 DEF scan
  <2>2. p + 1 \notin 1 .. Len(shown) \/ shown[p + 1] = SPACE
    <3>1. Len(shown) = i
      BY <1>2 DEF Shown
    <3> QED
      BY <1>1, <1>3, <1>4, <3>1, AtP
  <2>3. p + 1 \notin Starts(shown)
    BY <1>3, <2>2, StartsAt
  <2>4. Arguments(p)
    <3>1. \A k \in Nat : k < p /\ k + 1 \in Starts(shown) <=> k < p + 1 /\ k + 1 \in Starts(shown)
      <4> TAKE k \in Nat
      <4>1. k < p + 1 <=> k < p \/ k = p
        BY <1>3
      <4> QED
        BY <2>3, <4>1
    <3> QED
      BY <1>2, <3>1 DEF Arguments
  <2>5. Shown' /\ Arguments(p)' /\ Between(p)'
    BY <1>1, <1>2, <2>1, <2>2, <2>4 DEF Shown, Arguments, Between
  <2>6. Edited' /\ Parsed'
    BY <1>1, <2>1, <2>5 DEF Edited, Parsed
  <2>7. TypeOK'
    BY <1>1, <2>1 DEF States
  <2> QED
    BY <2>6, <2>7
<1>5. CASE buf[p] \notin WHITESPACE \cup {0}
  <2>1. pc' = "scan" /\ p' = p + 1
    BY <1>1, <1>5 DEF scan
  <2>2. p < i /\ i \in Nat /\ p + 1 \in 1 .. Len(shown) /\ shown[p + 1] # SPACE
    BY <1>1, <1>5, AtP
  <2>3. (p + 1) + 1 \notin Starts(shown)
    <3>1. PICK r \in Nat : r = p + 1 /\ r # 0 /\ shown[r] # SPACE
      BY <1>3, <2>2
    <3>2. r + 1 \notin Starts(shown)
      BY <3>1, StartsAt
    <3> QED
      BY <3>1, <3>2
  <2>4. Arguments((p + 1) + 1)
    BY <1>2, <1>3, <2>3, NoStart
  <2>5. Arguments(p + 1)'
    BY <1>1, <2>1, <2>4 DEF Arguments
  <2>6. Shown'
    <3>1. ASSUME NEW k \in 0 .. i - 1
          PROVE  k < p' /\ shown[k + 1] = SPACE <=> k < p /\ shown[k + 1] = SPACE
      <4>1. k < p' <=> k < p \/ k = p
        BY <1>3, <2>1
      <4> QED
        BY <2>2, <4>1
    <3>2. p' <= i
      BY <1>3, <2>1, <2>2
    <3> QED
      BY <1>1, <1>2, <3>1, <3>2 DEF Shown
  <2>7. p' > 0 /\ shown'[p'] # SPACE
    BY <1>1, <1>3, <2>1, <2>2
  <2>8. Edited' /\ Parsed'
    BY <1>1, <2>1, <2>5, <2>6, <2>7 DEF Edited, Parsed
  <2>9. TypeOK'
    BY <1>1, <1>3, <2>1
  <2> QED
    BY <2>8, <2>9
<1> QED
  BY <1>4, <1>5

LEMMA PromptAgain ==
  ASSUME IInv, pc' = "prompt", UNCHANGED <<buf, i, p, argv, shown>>,
         crt' \in Screen, lines' \in [Ports -> Line]
  PROVE  IInv'
BY DEF IInv, TypeOK, Edited, Parsed, States

LEMMA ReplyStep ==
  ASSUME IInv, NEW kind, NEW words, Reply(kind, words)
  PROVE  IInv'
<1>1. PICK r \in Replies : cons_puts(r)
  BY DEF Reply
<1>2. r \in Seq(Char)
  BY MonitorAssumption
<1>3. crt' \in Screen /\ lines' \in [Ports -> Line]
  BY <1>1, <1>2, PutsType DEF IInv, TypeOK
<1> QED
  BY <1>3, PromptAgain DEF Reply

LEMMA LookupStep ==
  ASSUME IInv, lookup
  PROVE  IInv'
<1>1. CASE argv = <<>>
  BY <1>1, PromptAgain DEF lookup, IInv, TypeOK
<1>2. CASE argv # <<>>
  <2>1. PICK kind, words : Reply(kind, words)
    BY <1>2 DEF lookup
  <2> QED
    BY <2>1, ReplyStep
<1> QED
  BY <1>1, <1>2

-----------------------------------------------------------------------------
LEMMA InitInv == Init => IInv
<1> SUFFICES ASSUME Init PROVE IInv
  OBVIOUS
<1>1. 0 \in Char /\ SPACE \in Char
  BY Sizes DEF SPACE
<1>2. crt \in Screen
  <2>1. [k \in Cell |-> SPACE] \in [Cell -> Char]
    BY <1>1
  <2> QED
    BY <2>1 DEF Init, Screen
<1>3. lines \in [Ports -> Line]
  <2>1. <<>> \in Line
    BY EmptySeq DEF Line
  <2> QED
    BY <2>1 DEF Init
<1>4. argv \in Seq(Nat) /\ Len(argv) < MAXARGS
  BY EmptySeq, MonitorAssumption DEF Init
<1>5. TypeOK
  BY <1>1, <1>2, <1>3, <1>4, Sizes DEF TypeOK, Init, States
<1> QED
  BY <1>5 DEF IInv, Edited, Parsed, Init

LEMMA NextInv == IInv /\ [Next]_vars => IInv'
<1> SUFFICES ASSUME IInv, [Next]_vars PROVE IInv'
  OBVIOUS
<1>1. CASE PrintPrompt
  BY <1>1, PromptStep
<1>2. CASE readline
  BY <1>2, ReadStep
<1>3. CASE gobble
  BY <1>3, GobbleStep, SaveArgStep, EndOfLineStep, ReplyStep DEF gobble, TooManyArgs
<1>4. CASE scan
  BY <1>4, ScanStep
<1>5. CASE lookup
  BY <1>5, LookupStep
<1>6. CASE UNCHANGED vars
  BY <1>6, SameStep
<1> QED
  BY <1>1, <1>2, <1>3, <1>4, <1>5, <1>6 DEF Next

(* The invariant on which the theorems rest: each step of readline and of  *)
(* runcmd keeps it.                                                        *)
THEOREM Invariance == Spec => []IInv
<1>1. Init => IInv
  BY InitInv
<1>2. IInv /\ [Next]_vars => IInv'
  BY NextInv
<1> QED
  BY <1>1, <1>2, PTL DEF Spec

(* The line in the buffer is what the screen and the terminals show before *)
(* the cursor, and cursor, line and argv stay in their bounds              *)
(* (EchoMatchesBuffer).                                                    *)
THEOREM EchoCorrect == Spec => []EchoMatchesBuffer
<1>1. IInv => EchoMatchesBuffer
  <2> SUFFICES ASSUME IInv PROVE EchoMatchesBuffer
    OBVIOUS
  <2>1. crt.pos \in Cell /\ i < BUFLEN /\ Len(argv) < MAXARGS
    BY Sizes DEF IInv, TypeOK, Screen
  <2>2. pc = "read" => OnScreen /\ \A q \in Ports : OnLine(lines[q])
    BY DEF IInv, Edited
  <2> QED
    BY <2>1, <2>2 DEF EchoMatchesBuffer, OnScreen, OnLine
<1> QED
  BY <1>1, Invariance, PTL

-----------------------------------------------------------------------------
(* What runcmd finds is what was shown.                                    *)

(* An increasing enumeration of a set counts it.                           *)
LEMMA Enumerated ==
  ASSUME NEW S \in SUBSET Nat, NEW n \in Nat, NEW f \in [1 .. n -> S],
         \A m, j \in 1 .. n : m < j => f[m] < f[j],
         \A k \in S : \E m \in 1 .. n : f[m] = k
  PROVE  /\ Cardinality(S) = n
         /\ \A m \in 1 .. n : Cardinality({k \in S : k < f[m]}) = m - 1
<1>1. \A m, j \in 1 .. n : f[m] = f[j] => m = j
  <2> TAKE m, j \in 1 .. n
  <2> HAVE f[m] = f[j]
  <2>1. f[m] \in S /\ f[j] \in S
    OBVIOUS
  <2>2. f[m] \in Nat /\ f[j] \in Nat
    BY <2>1
  <2>3. ~(f[m] < f[j]) /\ ~(f[j] < f[m])
    BY <2>2
  <2>4. ~(m < j) /\ ~(j < m)
    BY <2>3
  <2> QED
    BY <2>4
<1>2. Cardinality(S) = n
  <2>1. f \in Bijection(1 .. n, S)
    BY <1>1, Fun_IsBij
  <2> QED
    BY <2>1, FS_CountingElements DEF ExistsBijection
<1>3. ASSUME NEW m \in 1 .. n
      PROVE  Cardinality({k \in S : k < f[m]}) = m - 1
  <2> DEFINE T == {k \in S : k < f[m]}
             g == [j \in 1 .. m - 1 |-> f[j]]
  <2>1. m - 1 \in Nat /\ \A j \in 1 .. m - 1 : j \in 1 .. n /\ j < m
    OBVIOUS
  <2>2. g \in [1 .. m - 1 -> T]
    BY <2>1
  <2>3. \A j, h \in 1 .. m - 1 : g[j] = g[h] => j = h
    BY <1>1, <2>1
  <2>4. ASSUME NEW k \in T PROVE \E j \in 1 .. m - 1 : g[j] = k
    <3>1. PICK j \in 1 .. n : f[j] = k
      OBVIOUS
    <3>2. f[j] < f[m] /\ f[m] \in Nat /\ f[j] \in Nat
      BY <3>1
    <3>3. j # m /\ ~(m < j)
      BY <3>2
    <3> QED
      BY <3>1, <3>3
  <2> HIDE DEF T, g
  <2>5. g \in Bijection(1 .. m - 1, T)
    BY <2>2, <2>3, <2>4, Fun_IsBij
  <2>6. Cardinality(T) = m - 1
    BY <2>1, <2>5, FS_CountingElements DEF ExistsBijection
  <2> QED
    BY <2>6 DEF T
<1> QED
  BY <1>2, <1>3

LEMMA StartOfArgument ==
  ASSUME IInv, pc = "lookup"
  PROVE  /\ Cardinality(Starts(shown)) = Len(argv)
         /\ \A m \in 1 .. Len(argv) : /\ argv[m] \in Nat /\ argv[m] + 1 \in Starts(shown)
                                      /\ NthStart(shown, m) = argv[m] + 1
<1> DEFINE S == Starts(shown)
<1>1. PICK n \in Nat : n = Len(argv) /\ \A m \in 1 .. n : argv[m] \in Nat
  BY LenProperties, ElementOfSeq DEF IInv, TypeOK
<1> DEFINE f == [m \in 1 .. n |-> argv[m] + 1]
<1>2. /\ \A m, j \in 1 .. n : m < j => argv[m] < argv[j]
      /\ \A k \in Nat : (\E m \in 1 .. n : argv[m] = k) <=> k < p /\ k + 1 \in S
  BY <1>1 DEF IInv, Parsed, Arguments
<1>3. p = i /\ Len(shown) = i /\ i \in Nat
  BY Sizes DEF IInv, TypeOK, Parsed, Shown
<1>4. S \subseteq 1 .. i
  BY <1>3 DEF Starts
<1>5. ASSUME NEW m \in 1 .. n PROVE argv[m] + 1 \in S
  BY <1>1, <1>2
<1>6. ASSUME NEW k \in S PROVE \E m \in 1 .. n : argv[m] + 1 = k
  <2>1. k - 1 \in Nat /\ k - 1 < p /\ (k - 1) + 1 = k
    BY <1>3, <1>4
  <2>2. PICK m \in 1 .. n : argv[m] = k - 1
    BY <1>2, <2>1
  <2> QED
    BY <1>4, <2>2
<1>7. /\ f \in [1 .. n -> S]
      /\ \A m, j \in 1 .. n : m < j => f[m] < f[j]
      /\ \A k \in S : \E m \in 1 .. n : f[m] = k
      /\ \A m \in 1 .. n : f[m] = argv[m] + 1
  BY SMTT(30), <1>1, <1>2, <1>5, <1>6
<1> HIDE DEF S, f
<1>8. /\ Cardinality(S) = n
      /\ \A m \in 1 .. n : Cardinality({k \in S : k < f[m]}) = m - 1
  <2>1. S \in SUBSET Nat
    BY <1>3, <1>4
  <2>2. PICK U, h : U = S /\ h = f
    OBVIOUS
  <2>3. /\ U \in SUBSET Nat /\ h \in [1 .. n -> U]
        /\ \A m, j \in 1 .. n : m < j => h[m] < h[j]
        /\ \A k \in U : \E m \in 1 .. n : h[m] = k
    BY <1>7, <2>1, <2>2
  <2>4. /\ Cardinality(U) = n
        /\ \A m \in 1 .. n : Cardinality({k \in U : k < h[m]}) = m - 1
    BY ZenonT(30), <2>3, Enumerated
  <2> QED
    BY <2>2, <2>4
<1>9. ASSUME NEW m \in 1 .. n PROVE NthStart(shown, m) = f[m]
  <2>1. f[m] \in S /\ Cardinality({k \in S : k < f[m]}) = m - 1
    BY <1>7, <1>8
  <2>2. ASSUME NEW h \in S, Cardinality({k \in S : k < h}) = m - 1 PROVE h = f[m]
    <3>1. PICK j \in 1 .. n : f[j] = h
      BY <1>7
    <3>2. j - 1 = m - 1
      BY <1>8, <2>2, <3>1
    <3> QED
      BY <3>1, <3>2
  <2>3. NthStart(shown, m) = CHOOSE h \in S : Cardinality({k \in S : k < h}) = m - 1
    BY DEF NthStart, S
  <2> QED
    BY <2>1, <2>2, <2>3
<1> QED
  BY <1>1, <1>5, <1>7, <1>8, <1>9 DEF S

(* runcmd ends a word where the text does or has a space.                  *)
LEMMA WordOfArgument ==
  ASSUME IInv, pc = "lookup", NEW a \in Nat, a + 1 \in Starts(shown)
  PROVE  String(a) = WordAt(shown, a + 1)
<1>1. /\ i \in Nat /\ i < BUFLEN /\ Len(shown) = i /\ p = i
      /\ shown \in Seq(Char) /\ \A k \in 1 .. i : shown[k] >= SPACE
  BY Sizes DEF IInv, TypeOK, Parsed, Shown
<1>2. a < i /\ shown[a + 1] # SPACE
  BY <1>1 DEF Starts
<1>3. \A k \in 0 .. i - 1 : buf[k] = 0 <=> shown[k + 1] = SPACE
  <2> TAKE k \in 0 .. i - 1
  <2>1. k < p /\ k + 1 \in 1 .. i
    BY <1>1
  <2>2. buf[k] = IF shown[k + 1] = SPACE THEN 0 ELSE shown[k + 1]
    BY <2>1 DEF IInv, Parsed, Shown
  <2>3. shown[k + 1] >= SPACE
    BY <1>1, <2>1
  <2> QED
    BY <2>2, <2>3 DEF SPACE
<1>4. buf[i] = 0
  BY DEF IInv, Parsed, Shown
<1> DEFINE Ends(e) == e = i \/ shown[e + 1] = SPACE
<1>5. PICK e \in a + 1 .. i : Ends(e) /\ \A k \in a .. e - 1 : ~Ends(k)
  <2> DEFINE T == {k \in a .. i : Ends(k)}
  <2>1. T \in SUBSET Nat /\ T # {}
    BY <1>1, <1>2
  <2>2. PICK e \in T : \A k \in T : ~(k < e)
    BY <2>1, LeastNat
  <2>3. e # a
    BY <1>2, <2>2
  <2> QED
    BY <1>1, <2>2, <2>3
<1>6. String(a) = [k \in 1 .. e - a |-> buf[a + k - 1]]
  <2> DEFINE Null(f) == buf[f] = 0 /\ \A k \in a .. f - 1 : buf[k] # 0
  <2>1. e \in a .. BUFLEN - 1 /\ Null(e)
    BY <1>1, <1>3, <1>4, <1>5, Sizes
  <2>2. ASSUME NEW f \in a .. BUFLEN - 1, Null(f) PROVE f = e
    <3>1. f \in Nat /\ e \in Nat
      BY <1>1, <1>5, <2>1, Sizes
    <3>2. ~(f < e) /\ ~(e < f)
      BY <2>1, <2>2, <3>1
    <3> QED
      BY <3>1, <3>2
  <2> HIDE DEF Null
  <2>3. (CHOOSE f \in a .. BUFLEN - 1 : Null(f)) = e
    BY <2>1, <2>2
  <2> QED
    BY <2>3 DEF String, Null
<1>7. WordAt(shown, a + 1) = SubSeq(shown, a + 1, e)
  <2> DEFINE Last1(f) == /\ \A j \in a + 1 .. f : shown[j] # SPACE
                         /\ f = Len(shown) \/ shown[f + 1] = SPACE
  <2>1. e \in a + 1 .. Len(shown) /\ Last1(e)
    <3>1. ASSUME NEW j \in a + 1 .. e PROVE shown[j] # SPACE
      <4>1. j - 1 \in a .. e - 1 /\ (j - 1) + 1 = j
        BY <1>1
      <4>2. ~Ends(j - 1)
        BY <1>5, <4>1
      <4> QED
        BY <4>1, <4>2
    <3> QED
      BY <1>1, <1>5, <3>1
  <2>2. ASSUME NEW f \in a + 1 .. Len(shown), Last1(f) PROVE f = e
    <3>1. f \in Nat /\ e \in Nat
      BY <1>1, <1>5
    <3>2. ASSUME f < e PROVE FALSE
      <4>1. f \in a .. e - 1
        BY <1>1, <3>1, <3>2
      <4> QED
        BY <1>1, <1>5, <2>2, <4>1
    <3>3. ASSUME e < f PROVE FALSE
      <4>1. e + 1 \in a + 1 .. f /\ e # i
        BY <1>1, <3>1, <3>3
      <4> QED
        BY <1>5, <2>2, <4>1
    <3> QED
      BY <3>1, <3>2, <3>3
  <2> HIDE DEF Last1
  <2>3. (CHOOSE f \in a + 1 .. Len(shown) : Last1(f)) = e
    BY <2>1, <2>2
  <2> QED
    BY <2>3 DEF WordAt, Last1
<1>8. \A k \in 1 .. e - a : buf[a + k - 1] = shown[a + k]
  <2> TAKE k \in 1 .. e - a
  <2>1. a + k - 1 \in 0 .. i - 1 /\ (a + k - 1) + 1 = a + k /\ a + k - 1 \in a .. e - 1
    BY <1>1, <1>5
  <2>2. shown[a + k] # SPACE
    BY <1>5, <2>1
  <2>3. buf[a + k - 1] = IF shown[a + k] = SPACE THEN 0 ELSE shown[a + k]
    BY <1>1, <2>1 DEF IInv, Parsed, Shown
  <2> QED
    BY <2>2, <2>3
<1>9. SubSeq(shown, a + 1, e) = [k \in 1 .. e - a |-> shown[a + k]]
  <2>1. e - (a + 1) + 1 = e - a /\ \A k \in 1 .. e - a : (a + 1) + k - 1 = a + k
    BY <1>1, <1>5
  <2>2. SubSeq(shown, a + 1, e) = [k \in 1 .. e - (a + 1) + 1 |-> shown[(a + 1) + k - 1]]
    BY <1>1, <1>5
  <2> QED
    BY <2>1, <2>2
<1> QED
  BY <1>6, <1>7, <1>8, <1>9

LEMMA ParseCorrect ==
  ASSUME IInv, pc = "lookup"
  PROVE  [k \in 1 .. Len(argv) |-> String(argv[k])] = Words(shown)
<1>1. /\ Cardinality(Starts(shown)) = Len(argv)
      /\ \A m \in 1 .. Len(argv) : String(argv[m]) = WordAt(shown, NthStart(shown, m))
  BY StartOfArgument, WordOfArgument
<1> QED
  BY <1>1 DEF Words

(* A command runs with the arguments the user saw when Enter was typed,    *)
(* and only a command that was named (CommandAsShown).                     *)
THEOREM CommandCorrect == Spec => CommandAsShown
<1> DEFINE A == pc = "lookup" =>
             /\ result'.words = Words(shown)
             /\ result'.kind = CASE Words(shown) = <<>> -> "empty"
                                 [] Words(shown) # <<>> /\ Words(shown)[1] \in commands -> "run"
                                 [] OTHER -> "unknown"
<1>1. IInv /\ [Next]_vars => [A]_vars
  <2> SUFFICES ASSUME IInv, Next, pc = "lookup" PROVE A
    OBVIOUS
  <2>1. lookup
    BY DEF Next, PrintPrompt, readline, gobble, scan
  <2> DEFINE W == [k \in 1 .. Len(argv) |-> String(argv[k])]
  <2>2. W = Words(shown)
    BY ParseCorrect
  <2>3. argv \in Seq(Nat)
    BY DEF IInv, TypeOK
  <2>4. CASE argv = <<>>
    <3>1. W = <<>>
      BY <2>4
    <3>2. result' = [kind |-> "empty", words |-> <<>>]
      BY <2>1, <2>4 DEF lookup
    <3> HIDE DEF W
    <3> QED
      BY <2>2, <3>1, <3>2
  <2>5. CASE argv # <<>>
    <3>1. W # <<>>
      <4>1. Len(argv) # 0 /\ Len(argv) \in Nat
        BY <2>3, <2>5, EmptySeq, LenProperties
      <4>2. 1 \in DOMAIN W
        BY <4>1
      <4>3. DOMAIN <<>> = {}
        OBVIOUS
      <4> HIDE DEF W
      <4> QED
        BY <4>2, <4>3
    <3>2. result' = [kind |-> IF W[1] \in commands THEN "run" ELSE "unknown", words |-> W]
      BY <2>1, <2>5 DEF lookup, Reply
    <3> HIDE DEF W
    <3> QED
      BY <2>2, <3>1, <3>2
  <2> QED
    BY <2>4, <2>5
<1>2. []IInv /\ [][Next]_vars => [][A]_vars
  BY <1>1, PTL
<1> QED
  BY <1>2, Invariance, PTL DEF Spec, CommandAsShown

-----------------------------------------------------------------------------
(* The lookup of an address (Stabs)                                        *)

LastOf(t) == Cardinality(DOMAIN t) - 1

(* The calls of stab_binsearch: for the file, then in the file g that was  *)
(* found for the function, then for the line in the function f, or in the  *)
(* file if no function was found.                                          *)
CallSO(t, e)  == [region |-> Region(0, LastOf(t)), type |-> "SO", addr |-> e]
CallFUN(e, g) == [region |-> g, type |-> "FUN", addr |-> e]
CallSLINE(t, e, g, f) ==
  IF f.left <= f.right
  THEN [region |-> f, type |-> "SLINE", addr |-> (e - t[f.left].value) % UINTPTRS]
  ELSE [region |-> g, type |-> "SLINE", addr |-> e]

OfType(t, c)  == {k \in c.region.left .. c.region.right : t[k].type = c.type}
Twins(t, c)  == \E j, k \in OfType(t, c) : t[j].value = c.addr /\ t[k].value = c.addr + 1

(* A region stab_binsearch can search: in the table, its stabs of the type *)
(* in order, and the first stab of another type.                           *)
Searchable(t, c) ==
  /\ c.region.left \in Nat /\ c.region.right \in Nat /\ c.addr \in 0 .. UINTPTRS - 1
  /\ c.region.left <= c.region.right /\ c.region.right \in DOMAIN t
  /\ t[c.region.left].type # c.type
  /\ \A j, k \in OfType(t, c) : j <= k => t[j].value <= t[k].value

(* What it makes of the region of c.                                       *)
Found(t, c, g) ==
  /\ g.left \in Nat /\ g.right \in Int
  /\ OfType(t, c) = {} => g.left = c.region.left /\ g.right = g.left - 1
  /\ OfType(t, c) # {} =>
       /\ c.region.left <= g.left /\ g.left <= g.right /\ g.right <= c.region.right
       /\ g.left = c.region.left \/ g.left \in OfType(t, c)
       /\ g.right = c.region.right \/ g.right + 1 \in OfType(t, c)
       /\ \A k \in OfType(t, c) : k <= g.left \/ k > g.right
       /\ ~Twins(t, c) => \A k \in OfType(t, c) : t[k].value <= c.addr <=> k <= g.left

(* The loop of stab_binsearch: what lies left of l begins at or before the *)
(* address, what lies right of r begins behind it.                         *)
Bisects(t, c, l, r, addr, any, left) ==
  /\ c.region.left <= l /\ l <= c.region.right + 1
  /\ c.region.left <= r /\ r <= c.region.right
  /\ r = c.region.right \/ r + 1 \in OfType(t, c)
  /\ \/ left = c.region.left
     \/ /\ left \in OfType(t, c) /\ left <= r
        /\ left < l \/ (left = l /\ t[left].value < addr)
  /\ any = 1 => OfType(t, c) # {}
  /\ any = 0 => /\ left = c.region.left /\ r = c.region.right
                /\ \A k \in OfType(t, c) : k >= l
  /\ ~Twins(t, c) =>
       /\ addr = c.addr \/ (addr = c.addr + 1 /\ \E k \in OfType(t, c) : t[k].value = c.addr)
       /\ \A k \in OfType(t, c) : /\ k < l => t[k].value <= c.addr
                                  /\ k > r => t[k].value > c.addr
       /\ left # c.region.left => t[left].value <= c.addr
Bisecting(t, c, b) == b.right = b.r /\ Bisects(t, c, b.l, b.r, b.addr, b.any, b.left)

LookupTyping ==
  /\ stabs \in Tables /\ eip \in Addrs /\ stage \in {"search", "found", "file", "done"}
  /\ bs \in [l : Int, r : Int, addr : 0 .. UINTPTRS - 1, any : {0, 1}, left : Int, right : Int]
  /\ call.type \in {"SO", "FUN", "SLINE"}
  /\ ret \in {-1, 0, 1} /\ DOMAIN info = {"file", "line", "fn", "addr", "narg"}

(* The searches before this one, and what of them is in info.              *)
Stepwise ==
  /\ call.type = "SO" => call = CallSO(stabs, eip)
  /\ call.type # "SO" => file.left # 0 /\ Found(stabs, CallSO(stabs, eip), file)
  /\ call.type = "FUN" => call = CallFUN(eip, file)
  /\ call.type = "SLINE" =>
       /\ Found(stabs, CallFUN(eip, file), fun) /\ call = CallSLINE(stabs, eip, file, fun)
       /\ fun.left <= fun.right => info.fn = fun.left /\ info.addr = stabs[fun.left].value
  /\ stage = "file" => call.type = "SLINE"
  /\ IF stage = "search" THEN Bisecting(stabs, call, bs) ELSE Found(stabs, call, bs)

(* What the last search and the two loops behind it have put into info.    *)
FileNames == {k \in file.left .. bs.left : NamesFile(k)}
Filled ==
  /\ stage \in {"file", "done"} /\ call.type = "SLINE" /\ bs.left <= bs.right =>
       info.line = stabs[bs.left].desc
  /\ stage = "done" /\ call.type = "SLINE" =>
       /\ ret = 0
       /\ FileNames # {} => info.file = Max(FileNames)
       /\ fun.left < fun.right => info.narg = Cardinality(Args)
       /\ fun.left >= fun.right => info.narg = 0
  /\ stage # "done" => info.narg = 0
  /\ stage = "done" /\ call.type # "SLINE" => call.type = "SO" /\ bs.left = 0

LookupInv == LookupTyping /\ Stepwise /\ Filled

(* The stabs the step after this one may read.                             *)
StabsRead ==
  IF stage = "search" THEN bs.l .. bs.r \cup bs.left .. bs.right
  ELSE IF stage = "found" THEN bs.left .. bs.right
  ELSE IF stage = "file" THEN file.left .. bs.left \cup fun.left .. fun.right
  ELSE {}
OnlyTableRead == StabsRead \subseteq DOMAIN stabs

-----------------------------------------------------------------------------
(* Symbol tables, and the largest member of a set                          *)

LEMMA TableTyped ==
  ASSUME NEW t \in Tables
  PROVE  /\ LastOf(t) \in Nat /\ DOMAIN t = 0 .. LastOf(t) /\ Compiled(t)
         /\ UINTPTRS \in Nat \ {0}
         /\ \A k \in 0 .. LastOf(t) : t[k].value \in 0 .. UINTPTRS - 2
<1>1. IsFiniteSet(DOMAIN t) /\ DOMAIN t # {} /\ DOMAIN t = 0 .. LastOf(t)
  BY StabsAssumption DEF LastOf
<1>2. Cardinality(DOMAIN t) \in Nat
  BY <1>1, FS_CardinalityType
<1>3. LastOf(t) \in Nat
  BY <1>1, <1>2 DEF LastOf
<1> QED
  BY <1>1, <1>3, StabsAssumption

LEMMA LargestIs ==
  ASSUME NEW S \in SUBSET Int, NEW m \in S, \A k \in S : k <= m
  PROVE  Max(S) = m
<1>1. m \in S /\ \A k \in S : m >= k
  OBVIOUS
<1>2. \A x \in S : (\A k \in S : x >= k) => x = m
  OBVIOUS
<1>3. Max(S) \in S /\ \A k \in S : Max(S) >= k
  BY <1>1 DEF Max
<1> QED
  BY <1>2, <1>3

LEMMA SmallestIs ==
  ASSUME NEW S \in SUBSET Int, NEW m \in S, \A k \in S : k >= m
  PROVE  Min(S) = m
<1>1. m \in S /\ \A k \in S : m <= k
  OBVIOUS
<1>2. \A x \in S : (\A k \in S : x <= k) => x = m
  OBVIOUS
<1>3. Min(S) \in S /\ \A k \in S : Min(S) <= k
  BY <1>1 DEF Min
<1> QED
  BY <1>2, <1>3

LEMMA Largest ==
  ASSUME NEW a \in Int, NEW b \in Int, NEW S \in SUBSET (a .. b), S # {}
  PROVE  /\ Max(S) \in S /\ \A k \in S : k <= Max(S)
<1> DEFINE T == {b - k : k \in S}
<1>1. T \in SUBSET Nat /\ T # {}
  <2>1. \A k \in S : b - k \in Nat
    OBVIOUS
  <2> QED
    BY <2>1
<1>2. PICK x \in T : \A y \in T : ~(y < x)
  BY <1>1, LeastNat
<1>3. PICK m \in S : x = b - m
  BY <1>2
<1>4. ASSUME NEW k \in S PROVE k <= m
  <2>1. b - k \in T
    OBVIOUS
  <2>2. ~(b - k < b - m)
    BY <1>2, <1>3, <2>1
  <2>3. k \in Int /\ m \in Int
    BY <1>3
  <2> QED
    BY <2>2, <2>3
<1> QED
  BY <1>3, <1>4, LargestIs

-----------------------------------------------------------------------------
(* stab_binsearch                                                          *)

LEMMA TypedStabs ==
  ASSUME NEW t \in Tables, NEW c, Searchable(t, c)
  PROVE  /\ c.region.left \in Nat /\ c.region.right \in Nat /\ c.addr \in Nat
         /\ c.region.left <= c.region.right /\ c.region.right \in DOMAIN t
         /\ LastOf(t) \in Nat
         /\ \A k \in OfType(t, c) : /\ k \in Nat /\ t[k].value \in Nat
                                    /\ c.region.left < k /\ k <= c.region.right
                                    /\ t[k].value <= UINTPTRS - 2
         /\ \A j, k \in OfType(t, c) : j <= k => t[j].value <= t[k].value
<1>1. /\ c.region.left \in Nat /\ c.region.right \in Nat /\ c.addr \in Nat
      /\ c.region.left <= c.region.right /\ c.region.right \in DOMAIN t
      /\ t[c.region.left].type # c.type
  BY TableTyped, StabsAssumption DEF Searchable
<1>2. PICK l \in Nat, r \in Nat : l = c.region.left /\ r = c.region.right
  BY <1>1
<1>3. /\ LastOf(t) \in Nat /\ UINTPTRS \in Nat
      /\ \A k \in 0 .. LastOf(t) : t[k].value \in 0 .. UINTPTRS - 2
  BY TableTyped
<1>4. ASSUME NEW k \in OfType(t, c)
      PROVE  /\ k \in Nat /\ t[k].value \in Nat /\ l < k /\ k <= r
             /\ t[k].value <= UINTPTRS - 2
  <2>1. k \in l .. r /\ t[k].type = c.type
    BY <1>2 DEF OfType
  <2>2. k # l
    BY <1>1, <1>2, <2>1
  <2>3. k \in 0 .. LastOf(t)
    BY <1>1, <1>2, <1>3, <2>1, TableTyped
  <2> QED
    BY <1>2, <1>3, <2>1, <2>2, <2>3
<1> QED
  BY <1>1, <1>2, <1>3, <1>4 DEF Searchable

LEMMA SearchBegins ==
  ASSUME NEW t \in Tables, NEW c, Searchable(t, c)
  PROVE  Bisects(t, c, c.region.left, c.region.right, c.addr, 0, c.region.left)
BY TypedStabs DEF Bisects

(* The four ways through the loop, with the last stab of the type in the   *)
(* left half, l to mid, at m.                                              *)
LEMMA ProbeNone ==
  ASSUME NEW t \in Tables, NEW c, Searchable(t, c),
         NEW l \in Int, NEW r \in Int, NEW addr \in Int, NEW any, NEW left \in Int,
         Bisects(t, c, l, r, addr, any, left),
         NEW mid \in Int, l <= mid, mid <= r, \A k \in OfType(t, c) : k < l \/ k > mid
  PROVE  Bisects(t, c, mid + 1, r, addr, any, left)
BY TypedStabs DEF Bisects

LEMMA ProbeLess ==
  ASSUME NEW t \in Tables, NEW c, Searchable(t, c),
         NEW l \in Int, NEW r \in Int, NEW addr \in Int, NEW any, NEW left \in Int,
         Bisects(t, c, l, r, addr, any, left),
         NEW mid \in Int, l <= mid, mid <= r,
         NEW m \in OfType(t, c), l <= m, m <= mid, \A k \in OfType(t, c) : k <= m \/ k > mid,
         t[m].value < addr
  PROVE  Bisects(t, c, mid + 1, r, addr, 1, m)
<1>1. /\ c.region.left \in Nat /\ c.region.right \in Nat /\ c.addr \in Nat
      /\ \A k \in OfType(t, c) : k \in Nat /\ t[k].value \in Nat
      /\ \A k \in OfType(t, c) : k <= m => t[k].value <= t[m].value
  BY TypedStabs
<1>2. ~Twins(t, c) => t[m].value <= c.addr
  BY <1>1 DEF Bisects
<1> QED
  BY <1>1, <1>2 DEF Bisects

LEMMA ProbeGreater ==
  ASSUME NEW t \in Tables, NEW c, Searchable(t, c),
         NEW l \in Int, NEW r \in Int, NEW addr \in Int, NEW any, NEW left \in Int,
         Bisects(t, c, l, r, addr, any, left),
         NEW m \in OfType(t, c), l <= m, m <= r, t[m].value > addr
  PROVE  Bisects(t, c, l, m - 1, addr, 1, left)
<1>1. /\ c.region.left \in Nat /\ c.region.right \in Nat /\ c.addr \in Nat
      /\ c.region.left < m /\ m <= c.region.right
      /\ \A k \in OfType(t, c) : k \in Nat /\ t[k].value \in Nat
      /\ \A k \in OfType(t, c) : m <= k => t[m].value <= t[k].value
  BY TypedStabs
<1>2. ~Twins(t, c) => t[m].value > c.addr
  BY <1>1 DEF Bisects
<1>3. \A k \in OfType(t, c) : k > m - 1 => m <= k
  BY <1>1
<1> QED
  BY <1>1, <1>2, <1>3 DEF Bisects

LEMMA ProbeEqual ==
  ASSUME NEW t \in Tables, NEW c, Searchable(t, c),
         NEW l \in Int, NEW r \in Int, NEW addr \in Int, NEW any, NEW left \in Int,
         Bisects(t, c, l, r, addr, any, left),
         NEW m \in OfType(t, c), l <= m, m <= r, t[m].value = addr
  PROVE  Bisects(t, c, m, r, addr + 1, 1, m)
<1>1. /\ c.region.left \in Nat /\ c.region.right \in Nat /\ c.addr \in Nat
      /\ c.region.left < m /\ m <= c.region.right
      /\ \A k \in OfType(t, c) : k \in Nat /\ t[k].value \in Nat
      /\ \A k \in OfType(t, c) : k <= m => t[k].value <= t[m].value
  BY TypedStabs
<1>2. ~Twins(t, c) => addr = c.addr
  BY <1>1 DEF Bisects, Twins
<1> QED
  BY <1>1, <1>2 DEF Bisects

(* The end, where x is the last stab of the type that is not right of r.   *)
LEMMA SearchEnds ==
  ASSUME NEW t \in Tables, NEW c, Searchable(t, c),
         NEW l \in Int, NEW r \in Int, NEW addr \in Int, NEW left \in Int,
         Bisects(t, c, l, r, addr, 1, left), l > r,
         NEW x \in Int, left <= x, x <= r, x = left \/ x \in OfType(t, c),
         \A k \in OfType(t, c) : k <= x \/ k > r,
         NEW g, g.left = x, g.right = r
  PROVE  Found(t, c, g)
<1>1. /\ c.region.left \in Nat /\ c.region.right \in Nat /\ c.addr \in Nat
      /\ \A k \in OfType(t, c) : /\ k \in Nat /\ t[k].value \in Nat
                                 /\ c.region.left < k /\ k <= c.region.right
  BY TypedStabs
<1>2. c.region.left <= left
  BY <1>1 DEF Bisects
<1>3. \A k \in OfType(t, c) : (k <= x => k < l) /\ (~(k <= x) => k > r)
  BY <1>1
<1>4. ~Twins(t, c) => \A k \in OfType(t, c) : t[k].value <= c.addr <=> k <= x
  BY <1>1, <1>3 DEF Bisects
<1> QED
  BY <1>1, <1>2, <1>4 DEF Bisects, Found

LEMMA SearchFails ==
  ASSUME NEW t \in Tables, NEW c, Searchable(t, c),
         NEW l \in Int, NEW r \in Int, NEW addr \in Int, NEW left \in Int,
         Bisects(t, c, l, r, addr, 0, left), l > r,
         NEW g, g.left = left, g.right = left - 1
  PROVE  Found(t, c, g)
<1>1. /\ c.region.left \in Nat /\ c.region.right \in Nat
      /\ \A k \in OfType(t, c) : k \in Nat /\ k <= c.region.right
  BY TypedStabs
<1>2. OfType(t, c) = {} /\ left = c.region.left
  BY <1>1 DEF Bisects
<1> QED
  BY <1>1, <1>2 DEF Found

-----------------------------------------------------------------------------
(* The three searches                                                      *)

LEMMA SearchableSO ==
  ASSUME NEW t \in Tables, NEW e \in Addrs
  PROVE  Searchable(t, CallSO(t, e))
<1>1. PICK n \in Nat : n = LastOf(t)
  BY TableTyped
<1>2. DOMAIN t = 0 .. n /\ Compiled(t) /\ e \in 0 .. UINTPTRS - 1
  BY <1>1, TableTyped, StabsAssumption
<1>3. /\ CallSO(t, e).region.left = 0 /\ CallSO(t, e).region.right = n
      /\ CallSO(t, e).type = "SO" /\ CallSO(t, e).addr = e
  BY <1>1 DEF CallSO, Region
<1>4. t[0].type # "SO"
  BY <1>2 DEF Compiled
<1>5. \A j, k \in OfType(t, CallSO(t, e)) : j <= k => t[j].value <= t[k].value
  BY <1>2, <1>3 DEF OfType, Compiled
<1> QED
  BY <1>2, <1>3, <1>4, <1>5 DEF Searchable

(* A file was found: no other begins in its region, and another behind it. *)
LEMMA FileFound ==
  ASSUME NEW t \in Tables, NEW e, NEW g, Found(t, CallSO(t, e), g), g.left # 0
  PROVE  /\ g.left \in Nat /\ g.right \in Nat
         /\ g.left <= g.right /\ g.right <= LastOf(t)
         /\ t[g.left].type = "SO"
         /\ \A k \in g.left + 1 .. g.right : t[k].type # "SO"
         /\ g.right # LastOf(t) => t[g.right + 1].type = "SO"
<1>1. PICK n \in Nat : n = LastOf(t)
  BY TableTyped
<1>2. CallSO(t, e).region.left = 0 /\ CallSO(t, e).region.right = n /\ CallSO(t, e).type = "SO"
  BY <1>1 DEF CallSO, Region
<1>3. OfType(t, CallSO(t, e)) = {k \in 0 .. n : t[k].type = "SO"}
  BY <1>2 DEF OfType
<1>4. OfType(t, CallSO(t, e)) # {}
  BY <1>2 DEF Found
<1>5. PICK l, r : l = g.left /\ r = g.right
  OBVIOUS
<1>6. /\ l \in Nat /\ r \in Int /\ l <= r /\ r <= n
      /\ l \in OfType(t, CallSO(t, e)) /\ (r # n => r + 1 \in OfType(t, CallSO(t, e)))
      /\ \A k \in OfType(t, CallSO(t, e)) : k <= l \/ k > r
  BY <1>2, <1>4, <1>5 DEF Found
<1>7. \A k \in l + 1 .. r : t[k].type # "SO"
  BY <1>1, <1>3, <1>6
<1> QED
  BY <1>1, <1>3, <1>5, <1>6, <1>7

LEMMA SearchableFUN ==
  ASSUME NEW t \in Tables, NEW e \in Addrs, NEW g, Found(t, CallSO(t, e), g), g.left # 0
  PROVE  Searchable(t, CallFUN(e, g))
<1>1. PICK n \in Nat, l \in Nat, r \in Nat : n = LastOf(t) /\ l = g.left /\ r = g.right
  BY TableTyped, FileFound
<1>2. DOMAIN t = 0 .. n /\ Compiled(t) /\ e \in 0 .. UINTPTRS - 1
  BY <1>1, TableTyped, StabsAssumption
<1>3. /\ CallFUN(e, g).region.left = l /\ CallFUN(e, g).region.right = r
      /\ CallFUN(e, g).type = "FUN" /\ CallFUN(e, g).addr = e
  BY <1>1 DEF CallFUN
<1>4. l <= r /\ r <= n /\ t[l].type # "FUN"
  BY <1>1, FileFound
<1>5. \A j, k \in OfType(t, CallFUN(e, g)) : j <= k => t[j].value <= t[k].value
  <2>1. OfType(t, CallFUN(e, g)) \subseteq {k \in DOMAIN t : t[k].type = "FUN"}
    BY <1>2, <1>3, <1>4 DEF OfType
  <2> QED
    BY <1>2, <2>1 DEF Compiled
<1> QED
  BY <1>2, <1>3, <1>4, <1>5 DEF Searchable

(* A function was found: no other and no other file begins in its region.  *)
(* If none was found there is none in the file.                            *)
FunctionFound(t, g, f) ==
  /\ f.left \in Nat /\ f.right \in Int
  /\ f.left <= f.right =>
       /\ g.left <= f.left /\ f.right <= g.right
       /\ f.left = g.left \/ t[f.left].type = "FUN"
       /\ Unbroken(t, f.left, f.right)
       /\ f.right # g.right => t[f.right + 1].type = "FUN"
  /\ f.left > f.right => /\ f.left = g.left /\ f.right = f.left - 1
                          /\ Unbroken(t, g.left, g.right)

LEMMA FunctionIsFound ==
  ASSUME NEW t \in Tables, NEW e, NEW g, Found(t, CallSO(t, e), g), g.left # 0, NEW f,
         Found(t, CallFUN(e, g), f)
  PROVE  FunctionFound(t, g, f)
<1>1. PICK L \in Nat, R \in Nat : L = g.left /\ R = g.right
  BY FileFound
<1>2. PICK l \in Nat, r \in Int : l = f.left /\ r = f.right
  BY DEF Found
<1>3. CallFUN(e, g).region.left = L /\ CallFUN(e, g).region.right = R /\ CallFUN(e, g).type = "FUN"
  BY <1>1 DEF CallFUN
<1>4. OfType(t, CallFUN(e, g)) = {k \in L .. R : t[k].type = "FUN"}
  BY <1>3 DEF OfType
<1>5. \A k \in L + 1 .. R : t[k].type # "SO"
  BY <1>1, FileFound
<1>6. CASE OfType(t, CallFUN(e, g)) = {}
  <2>1. l = L /\ r = L - 1
    BY <1>2, <1>3, <1>6 DEF Found
  <2>2. Unbroken(t, L, R)
    BY <1>4, <1>5, <1>6 DEF Unbroken
  <2> QED
    BY <1>1, <1>2, <2>1, <2>2 DEF FunctionFound
<1>7. CASE OfType(t, CallFUN(e, g)) # {}
  <2>1. /\ L <= l /\ l <= r /\ r <= R
        /\ l = L \/ l \in OfType(t, CallFUN(e, g))
        /\ r # R => r + 1 \in OfType(t, CallFUN(e, g))
        /\ \A k \in OfType(t, CallFUN(e, g)) : k <= l \/ k > r
    BY <1>2, <1>3, <1>7 DEF Found
  <2>2. Unbroken(t, l, r)
    BY <1>4, <1>5, <2>1 DEF Unbroken
  <2> QED
    BY <1>1, <1>2, <1>4, <2>1, <2>2 DEF FunctionFound
<1> QED
  BY <1>6, <1>7

LEMMA SearchableSLINE ==
  ASSUME NEW t \in Tables, NEW e \in Addrs, NEW g, Found(t, CallSO(t, e), g), g.left # 0, NEW f,
         Found(t, CallFUN(e, g), f)
  PROVE  Searchable(t, CallSLINE(t, e, g, f))
<1>1. PICK n \in Nat, L \in Nat, R \in Nat : n = LastOf(t) /\ L = g.left /\ R = g.right
  BY TableTyped, FileFound
<1>2. /\ DOMAIN t = 0 .. n /\ Compiled(t) /\ e \in 0 .. UINTPTRS - 1
      /\ UINTPTRS \in Nat \ {0} /\ \A k \in 0 .. n : t[k].value \in Nat
  BY <1>1, TableTyped, StabsAssumption
<1>3. L <= R /\ R <= n /\ t[L].type = "SO"
  BY <1>1, FileFound
<1>4. FunctionFound(t, g, f)
  BY FunctionIsFound
<1>5. PICK reg, a : reg = CallSLINE(t, e, g, f).region /\ a = CallSLINE(t, e, g, f).addr
  OBVIOUS
<1>6. /\ reg.left \in Nat /\ reg.right \in Nat /\ reg.left <= reg.right /\ reg.right <= n
      /\ t[reg.left].type \in {"SO", "FUN"} /\ Unbroken(t, reg.left, reg.right)
      /\ a \in 0 .. UINTPTRS - 1
  <2>1. PICK l \in Nat, r \in Int : l = f.left /\ r = f.right
    BY <1>4 DEF FunctionFound
  <2>2. CASE l <= r
    <3>1. reg = f /\ a = (e - t[l].value) % UINTPTRS
      BY <1>5, <2>1, <2>2 DEF CallSLINE
    <3>2. /\ L <= l /\ r <= R /\ t[l].type \in {"SO", "FUN"}
          /\ Unbroken(t, l, r)
      BY <1>1, <1>3, <1>4, <2>1, <2>2 DEF FunctionFound
    <3>3. PICK v \in Nat : v = t[l].value
      BY <1>2, <1>3, <2>2, <3>2
    <3>4. PICK x \in Int : x = e - v
      BY <1>2
    <3>5. x % UINTPTRS \in 0 .. UINTPTRS - 1
      BY <1>2
    <3>6. a = x % UINTPTRS
      BY <3>1, <3>3, <3>4
    <3> QED
      BY <1>3, <2>1, <2>2, <3>1, <3>2, <3>5, <3>6
  <2>3. CASE l > r
    <3>1. reg = g /\ a = e
      BY <1>5, <2>1, <2>3 DEF CallSLINE
    <3> QED
      BY <1>1, <1>2, <1>3, <1>4, <2>1, <2>3, <3>1 DEF FunctionFound
  <2> QED
    BY <2>1, <2>2, <2>3
<1>7. PICK l \in Nat, r \in Nat : l = reg.left /\ r = reg.right
  BY <1>6
<1>8. CallSLINE(t, e, g, f).type = "SLINE"
  BY DEF CallSLINE
<1>9. \A j, k \in OfType(t, CallSLINE(t, e, g, f)) : j <= k => t[j].value <= t[k].value
  <2>1. OfType(t, CallSLINE(t, e, g, f)) = {k \in l .. r : t[k].type = "SLINE"}
    BY <1>5, <1>7, <1>8 DEF OfType
  <2>2. \A j, k \in l .. r : Unbroken(t, j, k)
    BY <1>6, <1>7 DEF Unbroken
  <2>3. l .. r \subseteq DOMAIN t
    BY <1>2, <1>6, <1>7
  <2> QED
    BY <1>2, <2>1, <2>2, <2>3 DEF Compiled
<1> QED
  BY <1>2, <1>5, <1>6, <1>8, <1>9 DEF Searchable

LEMMA CallSearchable ==
  ASSUME LookupTyping, Stepwise
  PROVE  Searchable(stabs, call)
<1>1. stabs \in Tables /\ eip \in Addrs /\ call.type \in {"SO", "FUN", "SLINE"}
  BY DEF LookupTyping
<1>2. CASE call.type = "SO"
  BY <1>1, <1>2, SearchableSO DEF Stepwise
<1>3. CASE call.type = "FUN"
  BY <1>1, <1>3, SearchableFUN DEF Stepwise
<1>4. CASE call.type = "SLINE"
  BY <1>1, <1>4, SearchableSLINE DEF Stepwise
<1> QED
  BY <1>1, <1>2, <1>3, <1>4

-----------------------------------------------------------------------------
(* The invariant holds at first, and every step keeps it                   *)

LEMMA SameFound ==
  ASSUME NEW t, NEW c, NEW g, NEW h, Found(t, c, g), h.left = g.left, h.right = g.right
  PROVE  Found(t, c, h)
BY DEF Found

LEMMA LookupStarts == Lookup => LookupInv
<1> SUFFICES ASSUME Lookup PROVE LookupInv
  OBVIOUS
<1>1. PICK t \in Tables, e \in Addrs : t = stabs /\ e = eip
  BY DEF Lookup
<1>2. PICK n \in Nat : n = LastOf(t)
  BY TableTyped
<1>3. call = CallSO(t, e) /\ call.region.left = 0 /\ call.region.right = n /\ call.addr = e
      /\ call.type = "SO"
  BY <1>1, <1>2 DEF Lookup, CallSO, Region, LastStab, LastOf
<1>4. bs = [l |-> 0, r |-> n, addr |-> e, any |-> 0, left |-> 0, right |-> n]
  BY <1>1, <1>2 DEF Lookup, Region, LastStab, LastOf
<1>5. Searchable(t, call)
  BY <1>3, SearchableSO
<1>6. Bisects(t, call, 0, n, e, 0, 0)
  BY <1>3, <1>5, SearchBegins
<1>7. Bisecting(stabs, call, bs)
  BY <1>1, <1>4, <1>6 DEF Bisecting
<1>8. e \in 0 .. UINTPTRS - 1
  BY StabsAssumption
<1>9. LookupTyping
  BY <1>1, <1>2, <1>3, <1>4, <1>8 DEF LookupTyping, Lookup
<1> QED
  BY <1>1, <1>3, <1>7, <1>9 DEF LookupInv, Stepwise, Filled, Lookup

(* One probe of the loop.                                                  *)
LEMMA SearchGoesOn ==
  ASSUME LookupInv, search
  PROVE  LookupInv'
<1>1. /\ LookupTyping /\ Stepwise /\ Filled /\ stage = "search"
      /\ Searchable(stabs, call)
  BY CallSearchable DEF LookupInv, search
<1>2. PICK t, c : t \in Tables /\ t = stabs /\ c = call
  BY <1>1 DEF LookupTyping
<1>3. PICK l \in Int, r \in Int, addr \in 0 .. UINTPTRS - 1, any \in {0, 1}, left \in Int :
        /\ l = bs.l /\ r = bs.r /\ addr = bs.addr /\ any = bs.any /\ left = bs.left
        /\ bs = [l |-> l, r |-> r, addr |-> addr, any |-> any, left |-> left, right |-> r]
  BY <1>1 DEF LookupTyping, Stepwise, Bisecting
<1>4. bs = [l |-> l, r |-> r, addr |-> addr, any |-> any, left |-> left, right |-> r]
  BY <1>3
<1>5. Searchable(t, c) /\ Bisects(t, c, l, r, addr, any, left) /\ addr \in Int
  BY <1>1, <1>2, <1>3, StabsAssumption DEF Stepwise, Bisecting
<1>6. PICK mid \in Int : mid = (l + r) \div 2
  OBVIOUS
<1>7. l <= r /\ l <= mid /\ mid <= r
  BY <1>3, <1>6 DEF search
<1>8. PICK match : match = {m \in l .. mid : t[m].type = c.type}
  OBVIOUS
<1>9. bs' = IF match = {} THEN [bs EXCEPT !.l = mid + 1] ELSE Probe(Max(match), mid)
  BY <1>2, <1>3, <1>6, <1>8 DEF search
<1>10. match \subseteq OfType(t, c) /\ \A k \in OfType(t, c) : k \in match \/ k < l \/ k > mid
  <2>1. /\ c.region.left \in Nat /\ c.region.right \in Nat
        /\ \A k \in OfType(t, c) : k \in Nat
    BY <1>2, <1>5, TypedStabs
  <2>2. c.region.left <= l /\ r <= c.region.right
    BY <1>5 DEF Bisects
  <2>3. PICK a \in Nat, b \in Nat : a = c.region.left /\ b = c.region.right
    BY <2>1
  <2>4. OfType(t, c) = {m \in a .. b : t[m].type = c.type}
    BY <2>3 DEF OfType
  <2> QED
    BY <1>7, <1>8, <2>2, <2>3, <2>4
<1>11. PICK b : b = bs'
  OBVIOUS
<1>12. /\ b \in [l : Int, r : Int, addr : 0 .. UINTPTRS - 1, any : {0, 1},
                 left : Int, right : Int]
       /\ b.right = b.r /\ Bisects(t, c, b.l, b.r, b.addr, b.any, b.left)
  <2>1. CASE match = {}
    <3>1. Bisects(t, c, mid + 1, r, addr, any, left)
      BY <1>2, <1>5, <1>7, <1>10, <2>1, ProbeNone
    <3>2. b = [l |-> mid + 1, r |-> r, addr |-> addr, any |-> any, left |-> left, right |-> r]
      BY <1>3, <1>9, <1>11, <2>1
    <3> QED
      BY <3>1, <3>2
  <2>2. CASE match # {}
    <3>1. PICK m \in match : m = Max(match) /\ \A k \in match : k <= m
      BY <1>8, <2>2, Largest
    <3>2. /\ m \in OfType(t, c) /\ m \in Int /\ l <= m /\ m <= mid /\ m <= r
          /\ \A k \in OfType(t, c) : k <= m \/ k > mid
      <4>1. m \in OfType(t, c) /\ m \in l .. mid
        BY <1>8, <1>10, <3>1
      <4>2. \A k \in OfType(t, c) : k \in Nat
        BY <1>2, <1>5, TypedStabs
      <4> QED
        BY <1>7, <1>10, <3>1, <4>1, <4>2
    <3>3. PICK v \in Nat : v = t[m].value /\ v <= UINTPTRS - 2
      BY <1>2, <1>5, <3>2, TypedStabs
    <3>4. b = Probe(m, mid) /\ stabs[m].value = v /\ bs.addr = addr
      BY <1>2, <1>3, <1>9, <1>11, <2>2, <3>1, <3>3
    <3>5. CASE v < addr
      <4>1. Bisects(t, c, mid + 1, r, addr, 1, m)
        BY <1>2, <1>5, <1>7, <3>2, <3>3, <3>5, ProbeLess
      <4>2. b = [bs EXCEPT !.any = 1, !.left = m, !.l = mid + 1]
        BY <3>4, <3>5 DEF Probe
      <4>3. b = [l |-> mid + 1, r |-> r, addr |-> addr, any |-> 1, left |-> m, right |-> r]
        BY <1>4, <4>2
      <4> QED
        BY <3>2, <4>1, <4>3
    <3>6. CASE v > addr
      <4>1. Bisects(t, c, l, m - 1, addr, 1, left)
        BY <1>2, <1>5, <3>2, <3>3, <3>6, ProbeGreater
      <4>2. b = [bs EXCEPT !.any = 1, !.right = m - 1, !.r = m - 1]
        <5>1. ~(v < addr)
          BY <1>5, <3>3, <3>6
        <5> QED
          BY <3>4, <3>6, <5>1 DEF Probe
      <4>3. b = [l |-> l, r |-> m - 1, addr |-> addr, any |-> 1, left |-> left, right |-> m - 1]
        BY <1>4, <4>2
      <4> QED
        BY <3>2, <4>1, <4>3
    <3>7. CASE v = addr
      <4>1. Bisects(t, c, m, r, addr + 1, 1, m)
        BY <1>2, <1>5, <3>2, <3>3, <3>7, ProbeEqual
      <4>2. (addr + 1) % UINTPTRS = addr + 1 /\ addr + 1 \in 0 .. UINTPTRS - 1
        BY <3>3, <3>7, StabsAssumption
      <4>3. b = [bs EXCEPT !.any = 1, !.left = m, !.l = m, !.addr = (@ + 1) % UINTPTRS]
        <5>1. ~(v < addr) /\ ~(v > addr)
          BY <1>5, <3>3, <3>7
        <5> QED
          BY <3>4, <5>1 DEF Probe
      <4>4. b = [l |-> m, r |-> r, addr |-> addr + 1, any |-> 1, left |-> m, right |-> r]
        BY <1>4, <4>2, <4>3
      <4> QED
        BY <3>2, <4>1, <4>2, <4>4
    <3> QED
      BY <1>5, <3>3, <3>5, <3>6, <3>7
  <2> QED
    BY <2>1, <2>2
<1>13. /\ stabs' = stabs /\ eip' = eip /\ call' = call /\ stage' = stage /\ file' = file
       /\ fun' = fun /\ info' = info /\ ret' = ret
  BY DEF search
<1>14. LookupTyping'
  BY <1>1, <1>11, <1>12, <1>13 DEF LookupTyping
<1>15. Bisecting(stabs', call', bs')
  BY <1>2, <1>11, <1>12, <1>13 DEF Bisecting
<1>16. Stepwise'
  BY <1>1, <1>13, <1>15 DEF Stepwise
<1>17. Filled'
  BY <1>1, <1>13 DEF Filled
<1> QED
  BY <1>14, <1>16, <1>17 DEF LookupInv

LEMMA SearchIsOver ==
  ASSUME LookupInv, search_end
  PROVE  LookupInv'
<1>1. /\ LookupTyping /\ Stepwise /\ Filled /\ stage = "search"
      /\ Searchable(stabs, call)
  BY CallSearchable DEF LookupInv, search_end
<1>2. PICK t, c : t \in Tables /\ t = stabs /\ c = call
  BY <1>1 DEF LookupTyping
<1>3. PICK l \in Int, r \in Int, addr \in 0 .. UINTPTRS - 1, any \in {0, 1}, left \in Int :
        /\ l = bs.l /\ r = bs.r /\ addr = bs.addr /\ any = bs.any /\ left = bs.left
        /\ bs = [l |-> l, r |-> r, addr |-> addr, any |-> any, left |-> left, right |-> r]
  BY <1>1 DEF LookupTyping, Stepwise, Bisecting
<1>4. bs = [l |-> l, r |-> r, addr |-> addr, any |-> any, left |-> left, right |-> r]
  BY <1>3
<1>5. Searchable(t, c) /\ Bisects(t, c, l, r, addr, any, left) /\ addr \in Int /\ l > r
  BY <1>1, <1>2, <1>3, StabsAssumption DEF Stepwise, Bisecting, search_end
<1>6. PICK L \in Nat, R \in Nat :
        /\ L = c.region.left /\ R = c.region.right
        /\ OfType(t, c) = {k \in L .. R : t[k].type = c.type}
        /\ L <= left /\ left <= r /\ r <= R
  <2>1. /\ c.region.left \in Nat /\ c.region.right \in Nat
        /\ \A k \in OfType(t, c) : k \in Nat /\ c.region.left < k
    BY <1>2, <1>5, TypedStabs
  <2>2. c.region.left <= left /\ left <= r /\ r <= c.region.right
    BY <1>5, <2>1 DEF Bisects
  <2> QED
    BY <2>1, <2>2 DEF OfType
<1>7. PICK b : b = bs'
  OBVIOUS
<1>8. /\ b \in [l : Int, r : Int, addr : 0 .. UINTPTRS - 1, any : {0, 1},
                left : Int, right : Int]
      /\ Found(t, c, b)
  <2>1. CASE any = 0
    <3>1. b = [l |-> l, r |-> r, addr |-> addr, any |-> 0, left |-> left, right |-> left - 1]
      <4>1. b = [bs EXCEPT !.right = bs.left - 1]
        <5>1. bs.any # 1
          BY <1>3, <2>1
        <5> QED
          BY <1>7, <5>1 DEF search_end
      <4> QED
        BY <1>4, <2>1, <4>1
    <3>2. Found(t, c, b)
      BY <1>2, <1>5, <2>1, <3>1, SearchFails
    <3> QED
      BY <3>1, <3>2
  <2>2. CASE any = 1
    <3>1. PICK x : x = Rightmost
      OBVIOUS
    <3>2. /\ x \in Int /\ left <= x /\ x <= r /\ (x = left \/ x \in OfType(t, c))
          /\ \A k \in OfType(t, c) : k <= x \/ k > r
      <4>1. CASE r <= left
        <5>1. x = r
          BY <1>3, <3>1, <4>1 DEF Rightmost
        <5> QED
          BY <1>6, <4>1, <5>1
      <4>2. CASE left < r
        <5>1. PICK S : S = {left} \cup {k \in left + 1 .. r : t[k].type = c.type}
          OBVIOUS
        <5>2. x = Max(S)
          BY <1>2, <1>3, <3>1, <4>2, <5>1 DEF Rightmost
        <5>3. S \subseteq left .. r /\ S # {} /\ left \in S
          BY <1>6, <5>1
        <5>4. x \in S /\ \A k \in S : k <= x
          BY <5>2, <5>3, Largest
        <5>5. \A k \in OfType(t, c) : k <= left \/ k > r \/ k \in S
          BY <1>6, <5>1
        <5> QED
          BY <1>6, <5>1, <5>3, <5>4, <5>5
      <4> QED
        BY <4>1, <4>2
    <3>3. b = [l |-> l, r |-> r, addr |-> addr, any |-> 1, left |-> x, right |-> r]
      <4>1. b = [bs EXCEPT !.left = x]
        BY <1>3, <1>7, <2>2, <3>1 DEF search_end
      <4> QED
        BY <1>4, <2>2, <4>1
    <3>4. Found(t, c, b)
      BY <1>2, <1>5, <2>2, <3>2, <3>3, SearchEnds
    <3> QED
      BY <3>2, <3>3, <3>4
  <2> QED
    BY <2>1, <2>2
<1>9. /\ stabs' = stabs /\ eip' = eip /\ call' = call /\ stage' = "found" /\ file' = file
      /\ fun' = fun /\ info' = info /\ ret' = ret
  BY DEF search_end
<1>10. LookupTyping'
  BY <1>1, <1>7, <1>8, <1>9 DEF LookupTyping
<1>11. Found(stabs', call', bs')
  BY <1>2, <1>7, <1>8, <1>9
<1>12. Stepwise'
  BY <1>1, <1>9, <1>11 DEF Stepwise
<1>13. Filled'
  BY <1>1, <1>9 DEF Filled
<1> QED
  BY <1>10, <1>12, <1>13 DEF LookupInv

(* A search is entered with a region it can search.                        *)
LEMMA Entered ==
  ASSUME NEW t \in Tables, NEW c, Searchable(t, c),
         bs' = [l |-> c.region.left, r |-> c.region.right, addr |-> c.addr,
                any |-> 0, left |-> c.region.left, right |-> c.region.right]
  PROVE  /\ bs' \in [l : Int, r : Int, addr : 0 .. UINTPTRS - 1, any : {0, 1},
                     left : Int, right : Int]
         /\ Bisecting(t, c, bs')
<1>1. PICK L \in Nat, R \in Nat, A \in 0 .. UINTPTRS - 1 :
        L = c.region.left /\ R = c.region.right /\ A = c.addr
  BY DEF Searchable
<1>2. Bisects(t, c, L, R, A, 0, L)
  BY <1>1, SearchBegins
<1>3. PICK b : b = bs'
  OBVIOUS
<1>4. b = [l |-> L, r |-> R, addr |-> A, any |-> 0, left |-> L, right |-> R]
  BY <1>1, <1>3
<1> QED
  BY <1>1, <1>2, <1>3, <1>4 DEF Bisecting

LEMMA FileKeeps ==
  ASSUME LookupInv, found_file
  PROVE  LookupInv'
<1>1. /\ LookupTyping /\ Stepwise /\ Filled /\ stage = "found" /\ call.type = "SO"
      /\ stabs' = stabs /\ eip' = eip /\ fun' = fun /\ info' = info
  BY DEF LookupInv, found_file
<1>2. PICK t \in Tables, e \in Addrs : t = stabs /\ e = eip
  BY <1>1 DEF LookupTyping
<1>3. call = CallSO(t, e) /\ Found(t, CallSO(t, e), bs)
  BY <1>1, <1>2 DEF Stepwise
<1>4. PICK g : g = file' /\ g.left = bs.left /\ g.right = bs.right
  BY DEF found_file, Region
<1>5. Found(t, CallSO(t, e), g)
  BY <1>3, <1>4, SameFound
<1>6. info.narg = 0
  BY <1>1 DEF Filled
<1>7. CASE bs.left = 0
  <2>1. ret' = -1 /\ stage' = "done" /\ call' = call /\ bs' = bs
    BY <1>7 DEF found_file
  <2>2. LookupTyping'
    BY <1>1, <2>1 DEF LookupTyping
  <2>3. Stepwise'
    BY <1>1, <1>2, <1>3, <2>1 DEF Stepwise
  <2>4. Filled'
    BY <1>1, <1>6, <1>7, <2>1 DEF Filled
  <2> QED
    BY <2>2, <2>3, <2>4 DEF LookupInv
<1>8. CASE bs.left # 0
  <2>1. PICK c : c = CallFUN(e, g)
    OBVIOUS
  <2>2. Start(file', "FUN", eip) /\ ret' = ret
    BY <1>8 DEF found_file
  <2>3. c.region = g /\ c.type = "FUN" /\ c.addr = e
    BY <2>1 DEF CallFUN
  <2>4. call' = c /\ stage' = "search"
    BY <1>2, <1>4, <2>1, <2>2 DEF Start, CallFUN
  <2>5. bs' = [l |-> c.region.left, r |-> c.region.right, addr |-> c.addr,
               any |-> 0, left |-> c.region.left, right |-> c.region.right]
    BY <1>2, <1>4, <2>2, <2>3 DEF Start
  <2>6. Searchable(t, c)
    BY <1>4, <1>5, <1>8, <2>1, SearchableFUN
  <2>7. /\ bs' \in [l : Int, r : Int, addr : 0 .. UINTPTRS - 1, any : {0, 1},
                    left : Int, right : Int]
        /\ Bisecting(t, c, bs')
    BY <2>5, <2>6, Entered
  <2>8. LookupTyping'
    BY <1>1, <2>2, <2>3, <2>4, <2>7 DEF LookupTyping
  <2>9. Stepwise'
    BY <1>1, <1>2, <1>4, <1>5, <1>8, <2>1, <2>3, <2>4, <2>7 DEF Stepwise
  <2>10. Filled'
    BY <1>1, <1>6, <2>4 DEF Filled
  <2> QED
    BY <2>8, <2>9, <2>10 DEF LookupInv
<1> QED
  BY <1>7, <1>8

LEMMA FunctionKeeps ==
  ASSUME LookupInv, found_function
  PROVE  LookupInv'
<1>1. /\ LookupTyping /\ Stepwise /\ Filled /\ stage = "found" /\ call.type = "FUN"
      /\ stabs' = stabs /\ eip' = eip /\ file' = file /\ ret' = ret
  BY DEF LookupInv, found_function
<1>2. PICK t \in Tables, e \in Addrs : t = stabs /\ e = eip
  BY <1>1 DEF LookupTyping
<1>3. PICK g : g = file
  OBVIOUS
<1>4. /\ call = CallFUN(e, g) /\ Found(t, CallFUN(e, g), bs)
      /\ g.left # 0 /\ Found(t, CallSO(t, e), g)
  BY <1>1, <1>2, <1>3 DEF Stepwise
<1>5. PICK f : f = fun' /\ f.left = bs.left /\ f.right = bs.right
  BY DEF found_function, Region
<1>6. Found(t, CallFUN(e, g), f)
  BY <1>4, <1>5, SameFound
<1>7. info.narg = 0
  BY <1>1 DEF Filled
<1>8. PICK c : c = CallSLINE(t, e, g, f)
  OBVIOUS
<1>9. Searchable(t, c)
  BY <1>4, <1>6, <1>8, SearchableSLINE
<1>10. /\ stage' = "search" /\ call' = c /\ c.type = "SLINE"
       /\ DOMAIN info' = DOMAIN info /\ info'.narg = 0
       /\ bs' = [l |-> c.region.left, r |-> c.region.right, addr |-> c.addr,
                 any |-> 0, left |-> c.region.left, right |-> c.region.right]
       /\ f.left <= f.right => info'.fn = f.left /\ info'.addr = t[f.left].value
  <2>1. CASE bs.left <= bs.right
    <3>1. /\ info' = [info EXCEPT !.fn = bs.left, !.addr = stabs[bs.left].value]
          /\ Start(fun', "SLINE", LineAddr(bs.left))
      BY <2>1 DEF found_function
    <3>2. c = [region |-> f, type |-> "SLINE", addr |-> LineAddr(bs.left)]
      BY <1>2, <1>5, <1>8, <2>1 DEF CallSLINE, LineAddr
    <3>3. /\ DOMAIN info' = DOMAIN info /\ info'.narg = 0
          /\ info'.fn = bs.left /\ info'.addr = stabs[bs.left].value
      BY <1>1, <1>7, <3>1 DEF LookupTyping
    <3>4. /\ stage' = "search" /\ call' = c
          /\ bs' = [l |-> f.left, r |-> f.right, addr |-> LineAddr(bs.left),
                    any |-> 0, left |-> f.left, right |-> f.right]
      BY <1>5, <3>1, <3>2 DEF Start
    <3> QED
      BY <1>2, <1>5, <3>2, <3>3, <3>4
  <2>2. CASE ~(bs.left <= bs.right)
    <3>1. /\ info' = [info EXCEPT !.addr = eip]
          /\ Start(file, "SLINE", eip)
      BY <2>2 DEF found_function
    <3>2. c = [region |-> g, type |-> "SLINE", addr |-> e]
      BY <1>5, <1>8, <2>2 DEF CallSLINE
    <3>3. DOMAIN info' = DOMAIN info /\ info'.narg = 0
      BY <1>1, <1>7, <3>1 DEF LookupTyping
    <3>4. /\ stage' = "search" /\ call' = c
          /\ bs' = [l |-> g.left, r |-> g.right, addr |-> e,
                    any |-> 0, left |-> g.left, right |-> g.right]
      BY <1>2, <1>3, <3>1, <3>2 DEF Start
    <3> QED
      BY <1>5, <2>2, <3>2, <3>3, <3>4
  <2> QED
    BY <2>1, <2>2
<1>11. /\ bs' \in [l : Int, r : Int, addr : 0 .. UINTPTRS - 1, any : {0, 1},
                   left : Int, right : Int]
       /\ Bisecting(t, c, bs')
  BY <1>9, <1>10, Entered
<1>12. LookupTyping'
  BY <1>1, <1>10, <1>11 DEF LookupTyping
<1>13. Stepwise'
  BY <1>1, <1>2, <1>3, <1>4, <1>5, <1>6, <1>8, <1>10, <1>11 DEF Stepwise
<1>14. Filled'
  BY <1>1, <1>10 DEF Filled
<1> QED
  BY <1>12, <1>13, <1>14 DEF LookupInv

LEMMA LineKeeps ==
  ASSUME LookupInv, found_line
  PROVE  LookupInv'
<1>1. /\ LookupTyping /\ Stepwise /\ Filled /\ stage = "found" /\ call.type = "SLINE"
      /\ stabs' = stabs /\ eip' = eip /\ call' = call /\ bs' = bs /\ file' = file
      /\ fun' = fun /\ ret' = ret /\ stage' = "file"
  BY DEF LookupInv, found_line
<1>2. /\ info' = IF bs.left <= bs.right THEN [info EXCEPT !.line = stabs[bs.left].desc] ELSE info
      /\ DOMAIN info = {"file", "line", "fn", "addr", "narg"} /\ info.narg = 0
  BY <1>1 DEF found_line, LookupTyping, Filled
<1>3. /\ DOMAIN info' = DOMAIN info /\ info'.narg = 0
      /\ info'.fn = info.fn /\ info'.addr = info.addr
      /\ bs.left <= bs.right => info'.line = stabs[bs.left].desc
  BY <1>2
<1>4. LookupTyping'
  BY <1>1, <1>3 DEF LookupTyping
<1>5. Stepwise'
  BY <1>1, <1>3 DEF Stepwise
<1>6. Filled'
  BY <1>1, <1>3 DEF Filled
<1> QED
  BY <1>4, <1>5, <1>6 DEF LookupInv

LEMMA FillKeeps ==
  ASSUME LookupInv, file_and_args
  PROVE  LookupInv'
<1>1. /\ LookupTyping /\ Stepwise /\ Filled /\ stage = "file"
      /\ stabs' = stabs /\ eip' = eip /\ call' = call /\ bs' = bs /\ file' = file
      /\ fun' = fun /\ ret' = 0 /\ stage' = "done" /\ call.type = "SLINE"
  BY DEF LookupInv, file_and_args, Stepwise
<1>2. PICK x, y : /\ x = IF FileNames = {} THEN info.file ELSE Max(FileNames)
                  /\ y = IF fun.left < fun.right THEN Cardinality(Args) ELSE info.narg
  OBVIOUS
<1>3. info' = [info EXCEPT !.file = x, !.narg = y]
  BY <1>2 DEF file_and_args, FileNames
<1>4. DOMAIN info = {"file", "line", "fn", "addr", "narg"} /\ info.narg = 0
  BY <1>1 DEF LookupTyping, Filled
<1>5. /\ DOMAIN info' = DOMAIN info /\ info'.narg = y /\ info'.file = x
      /\ info'.fn = info.fn /\ info'.addr = info.addr /\ info'.line = info.line
  BY <1>3, <1>4
<1>6. LookupTyping'
  BY <1>1, <1>5 DEF LookupTyping
<1>7. Stepwise'
  BY <1>1, <1>5 DEF Stepwise
<1>8. /\ FileNames' = FileNames /\ Args' = Args
  BY <1>1 DEF FileNames, Args, NamesFile
<1>9. Filled'
  <2>1. /\ FileNames # {} => x = Max(FileNames)
        /\ fun.left < fun.right => y = Cardinality(Args)
        /\ fun.left >= fun.right => y = 0
    <3>1. fun.left \in Int /\ fun.right \in Int
      BY <1>1 DEF Stepwise, Found
    <3> QED
      BY <1>2, <1>4, <3>1
  <2>2. bs.left <= bs.right => info.line = stabs[bs.left].desc
    BY <1>1 DEF Filled
  <2> QED
    BY <1>1, <1>5, <1>8, <2>1, <2>2 DEF Filled
<1> QED
  BY <1>6, <1>7, <1>9 DEF LookupInv

LEMMA LookupKeeps ==
  ASSUME LookupInv, [LookupNext]_lookup_vars
  PROVE  LookupInv'
<1>1. CASE UNCHANGED lookup_vars
  <2>1. LookupTyping' /\ Stepwise'
    BY <1>1 DEF lookup_vars, LookupInv, LookupTyping, Stepwise
  <2>2. Filled'
    BY <1>1 DEF lookup_vars, LookupInv, Filled, FileNames, Args, NamesFile
  <2> QED
    BY <2>1, <2>2 DEF LookupInv
<1> QED
  BY <1>1, SearchGoesOn, SearchIsOver, FileKeeps, FunctionKeeps, LineKeeps, FillKeeps
  DEF LookupNext, Done

LEMMA LookupInvHolds == LookupSpec => []LookupInv
BY LookupStarts, LookupKeeps, PTL DEF LookupSpec

-----------------------------------------------------------------------------
(* What a search brackets                                                  *)

LEMMA FoundLast ==
  ASSUME NEW t \in Tables, NEW c, Searchable(t, c), NEW g, Found(t, c, g), ~Twins(t, c),
         NEW x \in OfType(t, c), t[x].value <= c.addr
  PROVE  /\ g.left \in OfType(t, c) /\ x <= g.left /\ t[g.left].value <= c.addr
         /\ g.left \in Nat /\ g.right \in Nat
         /\ g.left <= g.right /\ g.right <= c.region.right
         /\ \A k \in OfType(t, c) : t[k].value <= c.addr <=> k <= g.left
         /\ \A k \in OfType(t, c) : k <= g.left \/ k > g.right
         /\ g.right = c.region.right \/ g.right + 1 \in OfType(t, c)
<1>1. PICK L \in Nat, R \in Nat, l \in Nat, r \in Int :
        L = c.region.left /\ R = c.region.right /\ l = g.left /\ r = g.right
  BY TypedStabs DEF Found
<1>2. /\ L <= l /\ l <= r /\ r <= R /\ (l = L \/ l \in OfType(t, c))
      /\ r = R \/ r + 1 \in OfType(t, c)
      /\ \A k \in OfType(t, c) : k <= l \/ k > r
      /\ \A k \in OfType(t, c) : t[k].value <= c.addr <=> k <= l
  BY <1>1 DEF Found
<1>3. \A k \in OfType(t, c) : k \in Nat /\ L < k
  BY <1>1, TypedStabs
<1>4. x <= l /\ l # L
  BY <1>2, <1>3
<1> QED
  BY <1>1, <1>2, <1>3, <1>4

LEMMA LookupBrackets ==
  ASSUME LookupInv
  PROVE  SearchBrackets
<1> SUFFICES ASSUME stage = "found" 
             PROVE  /\ Before # {} /\ ~Adjacent => Bracketed
                    /\ Matches = {} => bs.left > bs.right
  BY DEF SearchBrackets
<1>1. /\ LookupTyping /\ Stepwise /\ Searchable(stabs, call)
  BY CallSearchable DEF LookupInv
<1>2. PICK t, c : /\ t \in Tables /\ t = stabs /\ c = call
                  /\ Found(t, c, bs) /\ Searchable(t, c)
  BY <1>1 DEF LookupTyping, Stepwise
<1>3. /\ Matches = OfType(t, c) /\ (Adjacent <=> Twins(t, c))
      /\ Before = {k \in OfType(t, c) : t[k].value <= c.addr}
  BY <1>2 DEF Matches, Before, Adjacent, OfType, Twins
<1>4. ASSUME Matches = {}
      PROVE  bs.left > bs.right
  BY <1>2, <1>3, <1>4 DEF Found
<1>5. ASSUME Before # {}, ~Adjacent
      PROVE  Bracketed
  <2>1. PICK x \in OfType(t, c) : t[x].value <= c.addr
    BY <1>3, <1>5
  <2>2. PICK R \in Nat, l \in Nat, r \in Nat : R = c.region.right /\ l = bs.left /\ r = bs.right
    BY <1>2, <1>3, <1>5, <2>1, FoundLast, TypedStabs
  <2>3. /\ l \in OfType(t, c) /\ t[l].value <= c.addr /\ l <= r /\ r <= R
        /\ \A k \in OfType(t, c) : t[k].value <= c.addr <=> k <= l
        /\ \A k \in OfType(t, c) : k <= l \/ k > r
        /\ r = R \/ r + 1 \in OfType(t, c)
        /\ \A k \in OfType(t, c) : k \in Nat /\ k <= R
    BY <1>2, <1>3, <1>5, <2>1, <2>2, FoundLast, TypedStabs
  <2>4. l = Max(Before)
    <3>1. PICK B : B = {k \in OfType(t, c) : t[k].value <= c.addr}
      OBVIOUS
    <3>2. \A k \in B : k \in OfType(t, c) /\ k <= l
      BY <2>3, <3>1
    <3>3. l \in B /\ B \subseteq Int
      <4>1. l \in B
        BY <2>3, <3>1
      <4>2. \A k \in OfType(t, c) : k \in Nat
        BY <2>3
      <4>3. \A k \in B : k \in Int
        BY <3>2, <4>2
      <4> QED
        BY <4>1, <4>3
    <3>4. Max(B) = l
      BY <3>2, <3>3, LargestIs
    <3> QED
      BY <1>3, <3>1, <3>4
  <2>5. PICK N : N = {k \in Matches : k > l} /\ N = {k \in OfType(t, c) : k > l}
    BY <1>3
  <2>6. r = IF N = {} THEN R ELSE Min(N) - 1
    <3>1. \A k \in N : k \in OfType(t, c) /\ k \in Nat /\ k <= R /\ k > r
      BY <2>3, <2>5
    <3>2. CASE r = R
      <4>1. N = {}
        BY <3>1, <3>2
      <4> QED
        BY <3>2, <4>1
    <3>3. CASE r # R
      <4>1. r + 1 \in N
        BY <2>3, <2>5, <3>3
      <4>2. r + 1 \in N /\ N \subseteq Int /\ \A k \in N : k >= r + 1
        BY <3>1, <4>1
      <4>3. Min(N) = r + 1
        BY <4>2, SmallestIs
      <4> QED
        BY <4>2, <4>3
    <3> QED
      BY <3>2, <3>3
  <2> QED
    BY <1>2, <2>2, <2>4, <2>5, <2>6 DEF Bracketed
<1> QED
  BY <1>4, <1>5

(* "The search modifies *region_left and *region_right to bracket the      *)
(* addr" (kdebug.c): each of the three searches gives the last stab of the *)
(* type that starts at or before the address and the stab before the next  *)
(* one, and an empty region when the type does not occur, however many     *)
(* stabs of other types lie between.                                       *)
THEOREM SearchesBracket == LookupSpec => []SearchBrackets
BY LookupInvHolds, LookupBrackets, PTL

LEMMA LookupReads ==
  ASSUME LookupInv
  PROVE  OnlyTableRead
<1>1. /\ LookupTyping /\ Stepwise /\ Searchable(stabs, call)
      /\ stage \in {"search", "found", "file", "done"}
  BY CallSearchable DEF LookupInv, LookupTyping
<1>2. PICK t, e, c : t \in Tables /\ t = stabs /\ e = eip /\ c = call /\ Searchable(t, c)
  BY <1>1 DEF LookupTyping
<1>3. PICK n \in Nat, L \in Nat, R \in Nat :
        n = LastOf(t) /\ DOMAIN t = 0 .. n /\ L = c.region.left /\ R = c.region.right /\ R <= n
  BY <1>2, TypedStabs, TableTyped
<1>4. CASE stage = "search"
  <2>1. PICK l \in Int, r \in Int, left \in Int :
          /\ l = bs.l /\ r = bs.r /\ left = bs.left /\ bs.right = r
          /\ Bisects(t, c, l, r, bs.addr, bs.any, left)
    BY <1>1, <1>2, <1>4 DEF LookupTyping, Stepwise, Bisecting
  <2>2. L <= l /\ r <= R /\ L <= left
    <3>1. \A k \in OfType(t, c) : k \in Nat /\ L < k
      BY <1>2, <1>3, TypedStabs
    <3> QED
      BY <1>3, <2>1, <3>1 DEF Bisects
  <2> QED
    BY <1>2, <1>3, <1>4, <2>1, <2>2 DEF OnlyTableRead, StabsRead
<1>5. ASSUME stage # "search"
      PROVE  /\ bs.left \in Nat /\ bs.left .. bs.right \subseteq 0 .. n
             /\ bs.left <= n
  <2>1. PICK l \in Nat, r \in Int : l = bs.left /\ r = bs.right /\ Found(t, c, bs)
    BY <1>1, <1>2, <1>5 DEF Stepwise, Found
  <2>2. L <= R
    BY <1>2, <1>3, TypedStabs
  <2>3. l <= n /\ (l <= r => r <= n)
    BY <1>3, <2>1, <2>2 DEF Found
  <2> QED
    BY <2>1, <2>3
<1>6. CASE stage = "found"
  BY <1>2, <1>3, <1>5, <1>6 DEF OnlyTableRead, StabsRead
<1>7. CASE stage = "file"
  <2>1. PICK g, f : /\ g = file /\ f = fun /\ Found(t, CallSO(t, e), g) /\ g.left # 0
                    /\ Found(t, CallFUN(e, g), f)
    BY <1>1, <1>2, <1>7 DEF Stepwise
  <2>2. PICK gl \in Nat, gr \in Nat : gl = g.left /\ gr = g.right /\ gr <= n
    BY <1>2, <1>3, <2>1, FileFound
  <2>3. PICK fl \in Nat, fr \in Int : fl = f.left /\ fr = f.right /\ (fl <= fr => fr <= n)
    BY <1>2, <1>3, <2>1, <2>2, FunctionIsFound DEF FunctionFound
  <2> QED
    BY <1>2, <1>3, <1>5, <1>7, <2>1, <2>2, <2>3 DEF OnlyTableRead, StabsRead
<1>8. CASE stage = "done"
  BY <1>8 DEF OnlyTableRead, StabsRead
<1> QED
  BY <1>1, <1>4, <1>6, <1>7, <1>8

(* No step of the lookup reads a stab outside the table, also when a       *)
(* search fails and leaves a region that ends before it begins.            *)
THEOREM TableRead == LookupSpec => []OnlyTableRead
BY LookupInvHolds, LookupReads, PTL

-----------------------------------------------------------------------------
(* What debuginfo_eip finds                                                *)

(* A file and a function were found for an address in function f.          *)
LEMMA FileOf ==
  ASSUME NEW t \in Tables, NEW e \in Addrs, NEW f \in DOMAIN t, NEW g,
         t[f].type = "FUN", t[f].value <= e, Found(t, CallSO(t, e), g),
         ~Twins(t, CallSO(t, e)),
         \A k \in DOMAIN t : t[k].type = "SO" /\ t[k].value <= e => k < f
  PROVE  /\ g.left # 0 /\ g.left \in Nat /\ g.right \in Nat
         /\ g.left < f /\ f <= g.right /\ g.right <= LastOf(t)
         /\ t[g.left].type = "SO"
         /\ g.right # LastOf(t) => t[g.right + 1].type = "SO"
<1>1. PICK n \in Nat : n = LastOf(t) /\ DOMAIN t = 0 .. n
  BY TableTyped
<1>2. Compiled(t) /\ e \in Nat /\ \A k \in 0 .. n : t[k].value \in Nat
  BY <1>1, TableTyped, StabsAssumption
<1>3. PICK c : c = CallSO(t, e)
  OBVIOUS
<1>4. /\ c.region.left = 0 /\ c.region.right = n /\ c.type = "SO" /\ c.addr = e
      /\ OfType(t, c) = {k \in 0 .. n : t[k].type = "SO"} /\ Searchable(t, c)
  BY <1>1, <1>3, SearchableSO DEF CallSO, Region, OfType
<1>5. PICK h \in 0 .. n : t[h].type = "SO" /\ h < f /\ t[h].value <= t[f].value
  BY <1>1, <1>2 DEF Compiled
<1>6. h \in OfType(t, c) /\ t[h].value <= c.addr
  <2>1. PICK v \in Nat, w \in Nat : v = t[h].value /\ w = t[f].value
    BY <1>1, <1>2
  <2> QED
    BY <1>2, <1>4, <1>5, <2>1
<1>7. PICK l \in Nat, r \in Nat : l = g.left /\ r = g.right
  BY <1>3, <1>4, <1>6, FoundLast
<1>8. /\ l \in OfType(t, c) /\ h <= l /\ t[l].value <= e /\ l <= r /\ r <= n
      /\ \A k \in OfType(t, c) : t[k].value <= e <=> k <= l
      /\ r = n \/ r + 1 \in OfType(t, c)
  BY <1>3, <1>4, <1>6, <1>7, FoundLast
<1>9. l < f /\ t[l].type = "SO" /\ l # 0
  <2>1. t[0].type # "SO"
    BY <1>2 DEF Compiled
  <2> QED
    BY <1>1, <1>4, <1>8, <2>1
<1>10. f <= r
  <2>1. SUFFICES ASSUME r < f PROVE FALSE
    BY <1>1, <1>7
  <2>2. r + 1 \in OfType(t, c) /\ r + 1 <= f /\ r + 1 \in 0 .. n
    BY <1>1, <1>7, <1>8, <2>1
  <2>3. t[r + 1].type = "SO"
    BY <1>4, <2>2
  <2>4. r + 1 < f
    BY <1>1, <1>7, <2>2, <2>3
  <2>5. t[r + 1].value <= t[f].value
    BY <1>1, <1>2, <2>2, <2>3, <2>4 DEF Compiled
  <2>6. PICK v \in Nat, w \in Nat : v = t[r + 1].value /\ w = t[f].value
    BY <1>1, <1>2, <2>2
  <2>7. t[r + 1].value <= e
    BY <1>2, <2>5, <2>6
  <2>8. r + 1 <= l
    BY <1>8, <2>2, <2>7
  <2> QED
    BY <1>7, <1>8, <2>8
<1> QED
  BY <1>1, <1>4, <1>7, <1>8, <1>9, <1>10

LEMMA FunctionOf ==
  ASSUME NEW t \in Tables, NEW e \in Addrs, NEW f \in DOMAIN t, NEW g, NEW h,
         t[f].type = "FUN", t[f].value <= e,
         \A k \in DOMAIN t : t[k].type = "FUN" /\ t[k].value <= e => k <= f,
         Found(t, CallSO(t, e), g), g.left # 0, g.left < f, f <= g.right,
         Found(t, CallFUN(e, g), h), ~Twins(t, CallFUN(e, g))
  PROVE  h.left = f /\ h.right \in Nat /\ f <= h.right
<1>1. PICK n \in Nat, L \in Nat, R \in Nat :
        n = LastOf(t) /\ DOMAIN t = 0 .. n /\ L = g.left /\ R = g.right /\ R <= n
  BY TableTyped, FileFound
<1>2. PICK c : c = CallFUN(e, g)
  OBVIOUS
<1>3. /\ c.region.left = L /\ c.region.right = R /\ c.addr = e
      /\ OfType(t, c) = {k \in L .. R : t[k].type = "FUN"} /\ Searchable(t, c)
  BY <1>1, <1>2, SearchableFUN DEF CallFUN, OfType
<1>4. f \in OfType(t, c)
  BY <1>1, <1>3
<1>5. /\ h.left \in OfType(t, c) /\ f <= h.left /\ t[h.left].value <= e
      /\ h.left \in Nat /\ h.right \in Nat /\ h.left <= h.right
  BY <1>2, <1>3, <1>4, FoundLast
<1>6. PICK l \in Nat, r \in Nat : l = h.left /\ r = h.right
  BY <1>5
<1>7. l <= f
  BY <1>1, <1>3, <1>5, <1>6
<1> QED
  BY <1>1, <1>5, <1>6, <1>7

(* The region searched for lines is what belongs to the function.          *)
LEMMA PartsOf ==
  ASSUME NEW t \in Tables, NEW e, NEW f \in DOMAIN t, NEW g, NEW h,
         t[f].type = "FUN", g.left # 0,
         Found(t, CallSO(t, e), g), Found(t, CallFUN(e, g), h),
         h.left = f, h.right \in Nat, f <= h.right
  PROVE  /\ h.right \in DOMAIN t
         /\ \A k \in DOMAIN t : k > f /\ Unbroken(t, f, k) <=> k > f /\ k <= h.right
<1>1. PICK n \in Nat, R \in Nat, r \in Nat :
        n = LastOf(t) /\ DOMAIN t = 0 .. n /\ R = g.right /\ R <= n /\ r = h.right
  BY TableTyped, FileFound
<1>2. /\ r <= R /\ Unbroken(t, f, r)
      /\ r # R => t[r + 1].type = "FUN"
  BY <1>1, FunctionIsFound DEF FunctionFound
<1>3. R # n => t[R + 1].type = "SO"
  BY <1>1, FileFound
<1>4. r # n => t[r + 1].type \in {"FUN", "SO"}
  BY <1>2, <1>3
<1>5. ASSUME NEW k \in 0 .. n, k > f, Unbroken(t, f, k)
      PROVE  k <= r
  <2>1. SUFFICES ASSUME k > r PROVE FALSE
    BY <1>1
  <2>2. r # n /\ r + 1 \in f + 1 .. k
    BY <1>1, <1>5, <2>1
  <2> QED
    BY <1>4, <1>5, <2>2 DEF Unbroken
<1>6. ASSUME NEW k \in 0 .. n, k > f, k <= r
      PROVE  Unbroken(t, f, k)
  BY <1>1, <1>2, <1>6 DEF Unbroken
<1> QED
  BY <1>1, <1>2, <1>5, <1>6

LEMMA LookupFinds ==
  ASSUME LookupInv
  PROVE  FindsFunctionAndLine
<1> SUFFICES ASSUME stage = "done", LastBefore("FUN", eip) # {},
                    NEW f, f = Max(LastBefore("FUN", eip)),
                    NEW off, off = eip - stabs[f].value,
                    NEW starts, starts = {k \in OfFunction(f, "SLINE") : stabs[k].value <= off},
                    NEW args, args = OfFunction(f, "PSYM"),
                    ~AdjacentIn({k \in DOMAIN stabs : stabs[k].type = "FUN"}, eip),
                    ~AdjacentIn({k \in DOMAIN stabs : stabs[k].type = "SO"}, eip),
                    ~AdjacentIn(OfFunction(f, "SLINE"), off),
                    \A k \in LastBefore("SO", eip) : k < f,
                    starts # {}
             PROVE  /\ ret = 0 /\ info.fn = f /\ info.addr = stabs[f].value
                    /\ info.line = stabs[Max(starts)].desc
                    /\ (\A k \in args : f + 1 .. k \subseteq args) => info.narg = Cardinality(args)
                    /\ info.file = Max({k \in 0 .. Max(starts) : NamesFile(k)})
  BY DEF FindsFunctionAndLine
<1>1. LookupTyping /\ Stepwise /\ Filled
  BY DEF LookupInv
<1>2. PICK t \in Tables, e \in Addrs : t = stabs /\ e = eip
  BY <1>1 DEF LookupTyping
<1>3. PICK n \in Nat : n = LastOf(t) /\ DOMAIN t = 0 .. n
  BY TableTyped
<1>4. /\ e \in 0 .. UINTPTRS - 1 /\ UINTPTRS \in Nat \ {0}
      /\ Compiled(t) /\ \A k \in 0 .. n : t[k].value \in Nat
  BY <1>3, TableTyped, StabsAssumption
<1>5. /\ f \in 0 .. n /\ t[f].type = "FUN" /\ t[f].value <= e
      /\ \A k \in 0 .. n : t[k].type = "FUN" /\ t[k].value <= e => k <= f
  <2>1. PICK B : B = LastBefore("FUN", eip)
    OBVIOUS
  <2>2. B = {k \in 0 .. n : t[k].type = "FUN" /\ t[k].value <= e}
    BY <1>2, <1>3, <2>1 DEF LastBefore
  <2>3. B \subseteq 0 .. n /\ B # {} /\ f = Max(B)
    BY <2>1, <2>2
  <2>4. f \in B /\ \A k \in B : k <= f
    <3>1. PICK zero \in Int : zero = 0
      OBVIOUS
    <3>2. B \in SUBSET (zero .. n) /\ n \in Int
      BY <2>3, <3>1
    <3> QED
      BY <2>3, <3>2, Largest
  <2> QED
    BY <2>2, <2>4
<1>6. /\ ~Twins(t, CallSO(t, e))
      /\ \A k \in 0 .. n : t[k].type = "SO" /\ t[k].value <= e => k < f
  <2>1. /\ OfType(t, CallSO(t, e)) = {k \in DOMAIN stabs : stabs[k].type = "SO"}
        /\ CallSO(t, e).addr = eip
    BY <1>2, <1>3 DEF OfType, CallSO, Region
  <2>2. ~Twins(t, CallSO(t, e))
    BY <1>2, <2>1 DEF Twins, AdjacentIn
  <2> QED
    BY <1>2, <1>3, <2>2 DEF LastBefore
<1>7. call.type = "SLINE"
  <2>1. SUFFICES ASSUME call.type # "SLINE" PROVE FALSE
    OBVIOUS
  <2>2. bs.left = 0 /\ Found(t, CallSO(t, e), bs)
    BY <1>1, <1>2, <2>1 DEF Filled, Stepwise
  <2> QED
    BY <1>3, <1>5, <1>6, <2>2, FileOf
<1>8. PICK g, h, c : /\ g = file /\ h = fun /\ c = CallSLINE(t, e, g, h)
                     /\ Found(t, CallSO(t, e), g) /\ g.left # 0
                     /\ Found(t, CallFUN(e, g), h) /\ Found(t, c, bs)
                     /\ h.left <= h.right => info.fn = h.left /\ info.addr = t[h.left].value
  BY <1>1, <1>2, <1>7 DEF Stepwise
<1>9. PICK L \in Nat, R \in Nat :
        /\ L = g.left /\ R = g.right /\ L < f /\ f <= R /\ R <= n /\ t[L].type = "SO"
  BY <1>3, <1>5, <1>6, <1>8, FileOf
<1>10. ~Twins(t, CallFUN(e, g))
  <2>1. /\ OfType(t, CallFUN(e, g)) = {k \in L .. R : t[k].type = "FUN"}
        /\ CallFUN(e, g).addr = e
    BY <1>9 DEF OfType, CallFUN
  <2>2. \A k \in L .. R : k \in DOMAIN t
    BY <1>3, <1>9
  <2> QED
    BY <1>2, <2>1, <2>2 DEF Twins, AdjacentIn
<1>11. PICK r \in Nat : h.left = f /\ h.right = r /\ f <= r
  BY <1>3, <1>5, <1>8, <1>9, <1>10, FunctionOf
<1>12. /\ r <= n
       /\ \A k \in 0 .. n : k > f /\ Unbroken(t, f, k) <=> k > f /\ k <= r
  BY <1>3, <1>5, <1>8, <1>11, PartsOf
<1>13. \A type : OfFunction(f, type) = {k \in f + 1 .. r : t[k].type = type}
  BY <1>2, <1>3, <1>5, <1>12 DEF OfFunction
<1>14. /\ c.region = h /\ c.type = "SLINE" /\ c.addr = off /\ off \in Nat
  <2>1. PICK v \in Nat : v = t[f].value /\ v <= e
    BY <1>4, <1>5
  <2>2. off = e - v /\ e - v \in 0 .. UINTPTRS - 1
    BY <1>2, <1>4, <2>1
  <2>3. (e - v) % UINTPTRS = e - v
    BY <1>4, <2>2
  <2> QED
    BY <1>8, <1>11, <2>1, <2>2, <2>3 DEF CallSLINE
<1>15. OfType(t, c) = OfFunction(f, "SLINE")
  <2>1. OfType(t, c) = {k \in f .. r : t[k].type = "SLINE"}
    BY <1>11, <1>14 DEF OfType
  <2> QED
    BY <1>5, <1>11, <1>13, <2>1
<1>16. ~Twins(t, c) /\ starts = {k \in OfType(t, c) : t[k].value <= c.addr}
  BY <1>2, <1>14, <1>15 DEF Twins, AdjacentIn
<1>17. PICK s \in Nat :
         /\ s = bs.left /\ s \in OfType(t, c) /\ s <= bs.right /\ t[s].value <= c.addr
         /\ \A k \in OfType(t, c) : t[k].value <= c.addr <=> k <= s
  <2>1. PICK x \in OfType(t, c) : t[x].value <= c.addr
    BY <1>16
  <2>2. Searchable(t, c)
    BY <1>8, SearchableSLINE
  <2> QED
    BY <1>8, <1>16, <2>1, <2>2, FoundLast
<1>18. s = Max(starts) /\ s \in f + 1 .. r /\ t[s].type = "SLINE"
  <2>1. s \in f + 1 .. r /\ t[s].type = "SLINE"
    BY <1>13, <1>15, <1>17
  <2>2. \A k \in starts : k \in Int /\ k <= s
    BY <1>13, <1>15, <1>16, <1>17
  <2>3. s \in starts
    BY <1>16, <1>17
  <2> QED
    BY <2>1, <2>2, <2>3, LargestIs
<1>19. ret = 0 /\ info.line = t[s].desc
  BY <1>1, <1>2, <1>7, <1>17 DEF Filled
<1>20. info.file = Max({k \in 0 .. s : NamesFile(k)})
  <2>1. PICK F : F = FileNames /\ F = {k \in L .. s : NamesFile(k)}
    BY <1>8, <1>9, <1>17 DEF FileNames
  <2>2. L \in F
    <3>1. t[L].value # 0
      <4>1. L \in DOMAIN t
        BY <1>3, <1>5, <1>9
      <4>2. t[L].value > 0
        BY <1>4, <1>9, <4>1 DEF Compiled
      <4> QED
        BY <4>2
    <3> QED
      BY <1>2, <1>5, <1>9, <1>18, <2>1, <3>1 DEF NamesFile
  <2>3. PICK x \in F : x = Max(F) /\ \A k \in F : k <= x
    <3>1. F \in SUBSET (L .. s) /\ F # {}
      BY <2>1, <2>2
    <3>2. L \in Int /\ s \in Int
      OBVIOUS
    <3>3. Max(F) \in F /\ \A k \in F : k <= Max(F)
      BY <3>1, <3>2, Largest
    <3> QED
      BY <3>3
  <2>4. info.file = x
    BY <1>1, <1>7, <2>1, <2>2, <2>3 DEF Filled
  <2>5. PICK G : G = {k \in 0 .. s : NamesFile(k)}
    OBVIOUS
  <2>6. x \in G
    BY <1>9, <2>1, <2>3, <2>5
  <2>7. \A k \in G : k \in Int /\ k <= x
    BY <1>9, <2>1, <2>2, <2>3, <2>5
  <2> QED
    BY <2>4, <2>5, <2>6, <2>7, LargestIs
<1>21. ASSUME \A k \in args : f + 1 .. k \subseteq args
       PROVE  info.narg = Cardinality(args)
  <2>1. args = {k \in f + 1 .. r : t[k].type = "PSYM"}
    BY <1>13
  <2>2. Args = {k \in f + 1 .. r - 1 : \A j \in f + 1 .. k : t[j].type = "PSYM"}
    BY <1>2, <1>8, <1>11 DEF Args
  <2>3. f < r
    BY <1>5, <1>18
  <2>4. ASSUME NEW k \in args
        PROVE  k \in Args
    <3>1. k \in f + 1 .. r /\ \A j \in f + 1 .. k : t[j].type = "PSYM"
      BY <1>21, <2>1, <2>4
    <3>2. k < s
      BY <1>5, <1>18, <3>1
    <3> QED
      BY <1>5, <1>18, <2>2, <3>1, <3>2
  <2>5. ASSUME NEW k \in Args
        PROVE  k \in args
    BY <1>5, <2>1, <2>2, <2>5
  <2>6. args = Args
    BY <2>4, <2>5
  <2> QED
    BY <1>1, <1>7, <1>8, <1>11, <2>3, <2>6 DEF Filled
<1> QED
  BY <1>2, <1>8, <1>11, <1>18, <1>19, <1>20, <1>21

(* For an address in a function debuginfo_eip returns success with that    *)
(* function, its first address, the line whose instructions hold the       *)
(* address, the number of arguments where the compiler lists them first,   *)
(* and the source file the line is in, also for a line from an included    *)
(* file.  This rests on the order of the tables (Compiled) and holds if    *)
(* no stab of the searched type starts one byte after the address.         *)
THEOREM FunctionAndLineFound == LookupSpec => []FindsFunctionAndLine
BY LookupInvHolds, LookupFinds, PTL
=============================================================================
