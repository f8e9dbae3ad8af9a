--------------------------- MODULE PrintfmtProofs ---------------------------
(***************************************************************************)
(* Proofs about Printfmt: whatever the format, the arguments and the sizes *)
(* of the buffers, vsnprintf leaves the longest prefix that fits, a user   *)
(* program's text reaches the console whole, and what is no directive is   *)
(* put as it is written.                                                   *)
(***************************************************************************)
EXTENDS Printfmt, SequenceTheorems, WellFoundedInduction, TLAPS

-----------------------------------------------------------------------------
(* Induction over the natural numbers.  It speaks of a set, where that of  *)
(* the library has an operator for its parameter.                          *)

(* A set of natural numbers has a least element, so one that holds 0 and   *)
(* each successor holds them all.                                          *)
LEMMA LeastNat ==
  ASSUME NEW T \in SUBSET Nat, T # {}
  PROVE  \E x \in T : \A y \in T : ~(y < x)
<1> DEFINE R == OpToRel(<, Nat)
<1>1. IsWellFoundedOn(R, Nat)
  BY NatLessThanWellFounded
<1>2. \E x \in T : \A y \in T : ~(<<y, x>> \in R)
  <2> HIDE DEF R
  <2> QED
    BY <1>1, WFMin
<1>3. \A x, y \in Nat : y < x => <<y, x>> \in R
  BY DEF OpToRel
<1> QED
  BY <1>2, <1>3

LEMMA SetInduction ==
  ASSUME NEW S, 0 \in S, \A n \in Nat : n \in S => n + 1 \in S
  PROVE  Nat \subseteq S
<1> DEFINE T == Nat \ S
<1> SUFFICES ASSUME T # {} PROVE FALSE
  OBVIOUS
<1>1. PICK x \in T : \A y \in T : ~(y < x)
  BY LeastNat
<1>2. x # 0 /\ x - 1 \in Nat /\ x - 1 \notin T
  BY <1>1
<1> QED
  BY <1>1, <1>2

-----------------------------------------------------------------------------
(* Texts: sequences, of whatever characters                                *)

LEMMA SequenceIsText ==
  ASSUME NEW S, NEW s \in Seq(S)
  PROVE  IsText(s) /\ Len(s) \in Nat
BY SeqOfRange, LenProperties DEF IsText

LEMMA EmptyIsText == IsText(<<>>) /\ Len(<<>>) = 0
<1>1. <<>> \in Seq({}) /\ Len(<<>>) = 0
  BY EmptySeq
<1> QED
  BY <1>1, SequenceIsText

LEMMA CharacterIsText ==
  ASSUME NEW c
  PROVE  IsText(<<c>>) /\ Len(<<c>>) = 1
<1>1. <<c>> \in Seq({c}) /\ Len(<<c>>) = 1
  OBVIOUS
<1> QED
  BY <1>1, SequenceIsText

LEMMA TextLength ==
  ASSUME NEW s, IsText(s)
  PROVE  Len(s) \in Nat
BY LenProperties DEF IsText

(* Two texts are sequences over one set.                                   *)
LEMMA CommonSet ==
  ASSUME NEW s, NEW t, IsText(s), IsText(t)
  PROVE  \E S : s \in Seq(S) /\ t \in Seq(S)
<1> DEFINE S == Range(s) \cup Range(t)
<1>1. s \in Seq(Range(s)) /\ t \in Seq(Range(t))
  BY DEF IsText
<1>2. Range(s) \subseteq S /\ Range(t) \subseteq S
  OBVIOUS
<1> HIDE DEF S
<1>3. s \in Seq(S) /\ t \in Seq(S)
  BY <1>1, <1>2, SeqMonotonic
<1> QED
  BY <1>3

LEMMA ConcatIsText ==
  ASSUME NEW s, NEW t, IsText(s), IsText(t)
  PROVE  IsText(s \o t) /\ Len(s \o t) = Len(s) + Len(t)
<1>1. PICK S : s \in Seq(S) /\ t \in Seq(S)
  BY CommonSet
<1> QED
  BY <1>1, ConcatProperties, SequenceIsText

Associates(s, t, u) == (s \o t) \o u = s \o (t \o u)

LEMMA ConcatThree ==
  ASSUME NEW s, NEW t, NEW u, IsText(s), IsText(t), IsText(u)
  PROVE  Associates(s, t, u)
<1> DEFINE S == Range(s) \cup Range(t) \cup Range(u)
<1>1. s \in Seq(Range(s)) /\ t \in Seq(Range(t)) /\ u \in Seq(Range(u))
  BY DEF IsText
<1>2. Range(s) \subseteq S /\ Range(t) \subseteq S /\ Range(u) \subseteq S
  OBVIOUS
<1> HIDE DEF S
<1>3. s \in Seq(S) /\ t \in Seq(S) /\ u \in Seq(S)
  BY <1>1, <1>2, SeqMonotonic
<1> QED
  BY <1>3, ConcatAssociative DEF Associates

LEMMA PartIsText ==
  ASSUME NEW s, IsText(s), NEW m \in Nat \ {0}, NEW n \in 0 .. Len(s)
  PROVE  /\ IsText(SubSeq(s, m, n))
         /\ Len(SubSeq(s, m, n)) = IF m <= n THEN n - m + 1 ELSE 0
         /\ \A i \in 1 .. n - m + 1 : SubSeq(s, m, n)[i] = s[m + i - 1]
<1>1. s \in Seq(Range(s)) /\ Len(s) \in Nat
  BY TextLength DEF IsText
<1>2. m \in Int /\ n \in Int
  BY <1>1
<1>3. \A i \in m .. n : s[i] \in Range(s)
  BY <1>1, ElementOfSeq
<1>4. /\ SubSeq(s, m, n) \in Seq(Range(s))
      /\ Len(SubSeq(s, m, n)) = IF m <= n THEN n - m + 1 ELSE 0
      /\ \A i \in 1 .. n - m + 1 : SubSeq(s, m, n)[i] = s[m + i - 1]
  BY <1>2, <1>3, SubSeqProperties
<1>5. IsText(SubSeq(s, m, n))
  BY <1>4, SequenceIsText
<1> QED
  BY <1>4, <1>5

LEMMA WholePart ==
  ASSUME NEW s, IsText(s)
  PROVE  SubSeq(s, 1, Len(s)) = s
BY SubSeqFull DEF IsText

LEMMA EmptyPart ==
  ASSUME NEW s, NEW m \in Int, NEW n \in Int, n < m
  PROVE  SubSeq(s, m, n) = <<>>
BY SubSeqEmpty

LEMMA PartsJoin ==
  ASSUME NEW s, IsText(s), NEW n \in 0 .. Len(s)
  PROVE  SubSeq(s, 1, n) \o SubSeq(s, n + 1, Len(s)) = s
<1>1. s \in Seq(Range(s)) /\ Len(s) \in Nat
  BY TextLength DEF IsText
<1>2. 1 \in 1 .. Len(s) + 1 /\ n \in 1 - 1 .. Len(s) /\ Len(s) \in n .. Len(s)
  BY <1>1
<1>3. SubSeq(s, 1, n) \o SubSeq(s, n + 1, Len(s)) = SubSeq(s, 1, Len(s))
  BY <1>1, <1>2, ConcatAdjacentSubSeq
<1> QED
  BY <1>3, WholePart

(* A text in two.                                                          *)
Halved(s, n, old, new) == old = SubSeq(s, 1, n) /\ new = SubSeq(s, n + 1, Len(s))
TwoTexts(s, n, old, new) ==
  /\ IsText(old) /\ Len(old) = n
  /\ IsText(new) /\ Len(new) = Len(s) - n
  /\ s = old \o new

LEMMA Halves ==
  ASSUME NEW s, IsText(s), NEW n \in 0 .. Len(s), NEW old, NEW new, Halved(s, n, old, new)
  PROVE  TwoTexts(s, n, old, new)
<1>1. Len(s) \in Nat /\ n \in Nat /\ n <= Len(s)
  BY TextLength
<1>2. IsText(old) /\ Len(old) = n
  <2>1. 1 \in Nat \ {0} /\ n \in 0 .. Len(s)
    OBVIOUS
  <2>2. IsText(old) /\ Len(old) = IF 1 <= n THEN n - 1 + 1 ELSE 0
    BY <2>1, PartIsText DEF Halved
  <2>3. (IF 1 <= n THEN n - 1 + 1 ELSE 0) = n
    BY <1>1
  <2> QED
    BY <2>2, <2>3
<1>3. IsText(new) /\ Len(new) = Len(s) - n
  <2>1. n + 1 \in Nat \ {0} /\ Len(s) \in 0 .. Len(s)
    BY <1>1
  <2>2. IsText(new) /\ Len(new) = IF n + 1 <= Len(s) THEN Len(s) - (n + 1) + 1 ELSE 0
    BY <2>1, PartIsText DEF Halved
  <2>3. (IF n + 1 <= Len(s) THEN Len(s) - (n + 1) + 1 ELSE 0) = Len(s) - n
    BY <1>1
  <2> QED
    BY <2>2, <2>3
<1>4. s = old \o new
  BY PartsJoin DEF Halved
<1> QED
  BY <1>2, <1>3, <1>4 DEF TwoTexts

LEMMA NextCharacter ==
  ASSUME NEW s, IsText(s), NEW n \in 1 .. Len(s)
  PROVE  SubSeq(s, 1, n - 1) \o <<s[n]>> = SubSeq(s, 1, n)
<1>1. s \in Seq(Range(s)) /\ Len(s) \in Nat
  BY TextLength DEF IsText
<1>2. 1 \in 1 .. Len(s) /\ n \in 1 .. Len(s)
  BY <1>1
<1> QED
  BY <1>1, <1>2, SubSeqRecursiveSecond

LEMMA EmptyConcat ==
  ASSUME NEW s, IsText(s)
  PROVE  s \o <<>> = s /\ <<>> \o s = s
BY ConcatEmptySeq DEF IsText

(* The first part of two texts, when it ends in the first one and when it  *)
(* does not.                                                               *)
LEMMA PartOfFirst ==
  ASSUME NEW s, NEW t, IsText(s), IsText(t), NEW n \in 0 .. Len(s)
  PROVE  SubSeq(s \o t, 1, n) = SubSeq(s, 1, n)
<1>1. PICK S : s \in Seq(S) /\ t \in Seq(S)
  BY CommonSet
<1>2. Len(s) \in Nat
  BY TextLength
<1>3. CASE n = 0
  BY <1>3, EmptyPart
<1>4. CASE n > 0
  <2>1. 1 \in 1 .. Len(s) /\ n \in 1 .. Len(s)
    BY <1>2, <1>4
  <2> QED
    BY <1>1, <2>1, SubSeqOfConcat1
<1> QED
  BY <1>2, <1>3, <1>4

LEMMA PartOfBoth ==
  ASSUME NEW s, NEW t, IsText(s), IsText(t), NEW k \in 0 .. Len(t)
  PROVE  SubSeq(s \o t, 1, Len(s) + k) = s \o SubSeq(t, 1, k)
<1>1. PICK S : s \in Seq(S) /\ t \in Seq(S)
  BY CommonSet
<1>2. Len(s) \in Nat /\ Len(t) \in Nat
  BY TextLength
<1>3. s \o t \in Seq(S) /\ Len(s \o t) = Len(s) + Len(t)
  BY <1>1, ConcatProperties
<1>4. SubSeq(s \o t, 1, Len(s)) = s
  <2>1. Len(s) \in 0 .. Len(s)
    BY <1>2
  <2> QED
    BY <2>1, PartOfFirst, WholePart
<1>5. CASE k = 0
  BY <1>2, <1>4, <1>5, EmptyPart, EmptyConcat
<1>6. CASE k > 0
  <2>1. /\ 1 \in 1 .. Len(s \o t) + 1
        /\ Len(s) \in 1 - 1 .. Len(s \o t)
        /\ Len(s) + k \in Len(s) .. Len(s \o t)
    BY <1>2, <1>3
  <2>2. SubSeq(s \o t, 1, Len(s)) \o SubSeq(s \o t, Len(s) + 1, Len(s) + k)
          = SubSeq(s \o t, 1, Len(s) + k)
    BY <1>3, <2>1, ConcatAdjacentSubSeq
  <2>3. /\ Len(s) + 1 \in Len(s) + 1 .. Len(s) + Len(t)
        /\ Len(s) + k \in Len(s) + 1 .. Len(s) + Len(t)
        /\ (Len(s) + 1) - Len(s) = 1 /\ (Len(s) + k) - Len(s) = k
    BY <1>2, <1>6
  <2>4. SubSeq(s \o t, Len(s) + 1, Len(s) + k)
          = SubSeq(t, (Len(s) + 1) - Len(s), (Len(s) + k) - Len(s))
    BY <1>1, <2>3, SubSeqOfConcat2
  <2> QED
    BY <1>4, <2>2, <2>3, <2>4
<1> QED
  BY <1>2, <1>5, <1>6
-----------------------------------------------------------------------------
(* What the conversions put                                                *)

LEMMA TimesIsText ==
  ASSUME NEW n \in Int, NEW c
  PROVE  IsText(Times(n, c))
<1> DEFINE k == IF n > 0 THEN n ELSE 0
<1>1. k \in Nat /\ Times(n, c) = [i \in 1 .. k |-> c]
  BY DEF Times
<1> HIDE DEF k
<1>2. [i \in 1 .. k |-> c] \in Seq({c})
  BY <1>1
<1> QED
  BY <1>1, <1>2, SequenceIsText

LEMMA ShownIsText ==
  ASSUME NEW s, NEW n \in Nat
  PROVE  IsText(Shown(s, n))
<1> DEFINE e(i) == IF d.alt = 1 /\ ~Printable(s[i]) THEN "?" ELSE s[i]
           C    == {e(i) : i \in 1 .. n}
<1>1. Shown(s, n) = [i \in 1 .. n |-> e(i)]
  BY DEF Shown
<1>2. \A i \in 1 .. n : e(i) \in C
  OBVIOUS
<1> HIDE DEF e, C
<1>3. [i \in 1 .. n |-> e(i)] \in Seq(C)
  BY <1>2
<1> QED
  BY <1>1, <1>3, SequenceIsText

LEMMA FieldIsText ==
  ASSUME NEW s, IsText(s), d.width \in Int, d.precision \in Int
  PROVE  IsText(Field(s))
<1> DEFINE n     == strnlen(s, d.precision)
           first == IF d.width > 0 /\ d.padc # "-" THEN Times(d.width - n, d.padc) ELSE <<>>
           rest  == IF d.width > 0 /\ d.padc # "-" THEN 0 ELSE d.width - n
<1>1. Len(s) \in Nat
  BY TextLength
<1>2. n \in Nat
  BY <1>1 DEF strnlen
<1>3. Field(s) = first \o Shown(s, n) \o Times(rest, " ")
  BY DEF Field
<1> HIDE DEF n
<1>4. rest \in Int /\ d.width - n \in Int
  BY <1>2
<1>5. IsText(first)
  BY <1>4, TimesIsText, EmptyIsText
<1> HIDE DEF first, rest
<1>6. IsText(Shown(s, n)) /\ IsText(Times(rest, " "))
  BY <1>2, <1>4, ShownIsText, TimesIsText
<1> QED
  BY <1>3, <1>5, <1>6, ConcatIsText

(* The equation of put in printnum, for numbers up to m.                   *)
PutOf(put, n, base, padc) ==
  [w \in Int |-> (IF n >= base THEN put[n \div base][w - 1] ELSE Times(w - 1, padc))
                   \o <<Digit[(n % base) + 1]>>]
Puts(put, m, base, padc) == put = [n \in 0 .. m |-> PutOf(put, n, base, padc)]

LEMMA Quotient ==
  ASSUME NEW n \in Nat, NEW base \in {8, 10, 16}, n >= base
  PROVE  n \div base \in 0 .. n - 1
OBVIOUS

LEMMA PutsExist ==
  ASSUME NEW m \in Nat, NEW base \in {8, 10, 16}, NEW padc
  PROVE  \E put : Puts(put, m, base, padc)
<1> DEFINE S == {k \in Nat : \E put : Puts(put, k, base, padc)}
<1>1. 0 \in S
  <2> DEFINE none == [n \in {} |-> n]
             put  == [n \in 0 .. 0 |-> PutOf(none, 0, base, padc)]
  <2>1. \A n \in 0 .. 0 : n = 0
    OBVIOUS
  <2>2. PutOf(put, 0, base, padc) = PutOf(none, 0, base, padc)
    <3>1. ~(0 >= base)
      OBVIOUS
    <3> HIDE DEF put, none
    <3> QED
      BY <3>1 DEF PutOf
  <2>3. put = [n \in 0 .. 0 |-> PutOf(put, n, base, padc)]
    <3> DEFINE again == [n \in 0 .. 0 |-> PutOf(put, n, base, padc)]
    <3>1. again = [n \in 0 .. 0 |-> PutOf(put, 0, base, padc)]
      <4> HIDE DEF put
      <4> QED
        BY <2>1
    <3> HIDE DEF again
    <3>2. put = again
      BY <2>2, <3>1
    <3> QED
      BY <3>2 DEF again
  <2> HIDE DEF put
  <2>4. Puts(put, 0, base, padc)
    BY <2>3 DEF Puts
  <2> QED
    BY <2>4
<1>2. ASSUME NEW k \in Nat, k \in S PROVE k + 1 \in S
  <2>1. PICK put : Puts(put, k, base, padc)
    BY <1>2
  <2> DEFINE more == [n \in 0 .. k + 1 |->
                        IF n <= k THEN put[n] ELSE PutOf(put, n, base, padc)]
  <2>2. \A n \in 0 .. k : more[n] = put[n]
    OBVIOUS
  <2>3. \A n \in 0 .. k : put[n] = PutOf(put, n, base, padc)
    BY <2>1 DEF Puts
  <2>4. more[k + 1] = PutOf(put, k + 1, base, padc)
    OBVIOUS
  <2>5. \A n \in 0 .. k + 1 : n >= base => n \div base \in 0 .. k
    <3> TAKE n \in 0 .. k + 1
    <3> HAVE n >= base
    <3>1. n \div base \in 0 .. n - 1
      BY Quotient
    <3> QED
      BY <3>1
  <2>6. DOMAIN more = 0 .. k + 1 /\ more = [n \in 0 .. k + 1 |-> more[n]]
    OBVIOUS
  <2> HIDE DEF more
  <2>7. \A n \in 0 .. k + 1 : PutOf(more, n, base, padc) = PutOf(put, n, base, padc)
    <3> TAKE n \in 0 .. k + 1
    <3>1. CASE n >= base
      <4>1. more[n \div base] = put[n \div base]
        BY <2>2, <2>5, <3>1
      <4> QED
        BY <4>1 DEF PutOf
    <3>2. CASE ~(n >= base)
      BY <3>2 DEF PutOf
    <3> QED
      BY <3>1, <3>2
  <2>8. \A n \in 0 .. k + 1 : more[n] = PutOf(more, n, base, padc)
    <3> TAKE n \in 0 .. k + 1
    <3>1. n \in 0 .. k \/ n = k + 1
      OBVIOUS
    <3> QED
      BY <2>2, <2>3, <2>4, <2>7, <3>1
  <2>9. more = [n \in 0 .. k + 1 |-> PutOf(more, n, base, padc)]
    BY <2>6, <2>8
  <2>10. Puts(more, k + 1, base, padc)
    BY <2>9 DEF Puts
  <2> QED
    BY <2>10
<1> HIDE DEF S
<1>3. m \in S
  BY <1>1, <1>2, SetInduction
<1> QED
  BY <1>3 DEF S

LEMMA PutsAreTexts ==
  ASSUME NEW m \in Nat, NEW base \in {8, 10, 16}, NEW padc, NEW put, Puts(put, m, base, padc)
  PROVE  \A n \in 0 .. m, w \in Int : IsText(put[n][w])
<1> DEFINE T == {k \in Nat : k <= m /\ \E w \in Int : ~IsText(put[k][w])}
<1> SUFFICES ASSUME T # {} PROVE FALSE
  OBVIOUS
<1>1. PICK n \in T : \A k \in T : ~(k < n)
  BY LeastNat
<1>2. PICK w \in Int : ~IsText(put[n][w])
  BY <1>1
<1> DEFINE front == IF n >= base THEN put[n \div base][w - 1] ELSE Times(w - 1, padc)
<1>3. n \in 0 .. m /\ w - 1 \in Int
  BY <1>1
<1>4. put[n][w] = front \o <<Digit[(n % base) + 1]>>
  <2>1. put[n] = PutOf(put, n, base, padc)
    BY <1>3 DEF Puts
  <2>2. PutOf(put, n, base, padc)[w] = front \o <<Digit[(n % base) + 1]>>
    BY DEF PutOf
  <2> QED
    BY <2>1, <2>2
<1>5. IsText(front)
  <2>1. CASE n >= base
    <3>1. n \div base \in 0 .. n - 1
      BY <2>1, Quotient
    <3>2. n \div base \in Nat /\ n \div base <= m /\ n \div base < n
      BY <1>3, <3>1
    <3>3. n \div base \notin T
      BY <1>1, <3>2
    <3> QED
      BY <1>3, <2>1, <3>2, <3>3
  <2>2. CASE ~(n >= base)
    BY <1>3, <2>2, TimesIsText
  <2> QED
    BY <2>1, <2>2
<1> HIDE DEF front, T
<1>6. IsText(<<Digit[(n % base) + 1]>>)
  BY CharacterIsText
<1> QED
  BY <1>2, <1>4, <1>5, <1>6, ConcatIsText

LEMMA NumberIsText ==
  ASSUME NEW num \in Nat, NEW base \in {8, 10, 16}, NEW wid \in Int, NEW padc
  PROVE  IsText(printnum(num, base, wid, padc))
<1> DEFINE put == CHOOSE put : Puts(put, num, base, padc)
<1>1. printnum(num, base, wid, padc) = put[num][wid]
  BY DEF printnum, Puts, PutOf
<1>2. \E f0 : Puts(f0, num, base, padc)
  BY PutsExist
<1>3. Puts(put, num, base, padc)
  BY <1>2
<1> HIDE DEF put
<1>4. num \in 0 .. num
  OBVIOUS
<1> QED
  BY <1>1, <1>3, <1>4, PutsAreTexts
LEMMA ErrorIsText ==
  ASSUME NEW err \in Nat
  PROVE  IsText(ErrorText(err))
<1>1. IsText(<<"e", "r", "r", "o", "r", " ">>)
  <2>1. <<"e", "r", "r", "o", "r", " ">> \in Seq({"e", "r", "o", " "})
    OBVIOUS
  <2> QED
    BY <2>1, SequenceIsText
<1>2. IsText(printnum(err, 10, -1, " "))
  <2>1. 10 \in {8, 10, 16} /\ -1 \in Int
    OBVIOUS
  <2> QED
    BY <2>1, NumberIsText
<1> QED
  BY <1>1, <1>2, ConcatIsText, CharacterIsText DEF ErrorText

-----------------------------------------------------------------------------
(* The position after the digits, and their number                         *)

LEMMA NumberEnds ==
  ASSUME IsText(fmt), f \in 1 .. Len(fmt), fmt[f] \in DecimalDigits
  PROVE  /\ NumberEnd \in f + 1 .. Len(fmt) + 1
         /\ \A i \in f .. NumberEnd - 1 : fmt[i] \in DecimalDigits
<1> DEFINE T == {g \in Nat : g >= f /\ (g >= Len(fmt) + 1 \/ fmt[g] \notin DecimalDigits)}
           Ends(g) == /\ g = Len(fmt) + 1 \/ fmt[g] \notin DecimalDigits
                      /\ \A i \in f .. g - 1 : fmt[i] \in DecimalDigits
<1>1. Len(fmt) \in Nat
  BY TextLength
<1>2. Len(fmt) + 1 \in T
  BY <1>1
<1>3. PICK g \in T : \A h \in T : ~(h < g)
  BY <1>2, LeastNat
<1>4. g \in f .. Len(fmt) + 1
  BY <1>1, <1>2, <1>3
<1>5. \A i \in f .. g - 1 : fmt[i] \in DecimalDigits
  BY <1>1, <1>3
<1>6. Ends(g)
  BY <1>1, <1>3, <1>4, <1>5
<1>7. NumberEnd = CHOOSE h \in f .. Len(fmt) + 1 : Ends(h)
  BY DEF NumberEnd
<1> HIDE DEF Ends
<1>8. NumberEnd \in f .. Len(fmt) + 1 /\ Ends(NumberEnd)
  BY <1>4, <1>6, <1>7
<1>9. NumberEnd # f
  BY <1>1, <1>8 DEF Ends
<1> QED
  BY <1>1, <1>8, <1>9 DEF Ends

LEMMA DigitsHaveValues ==
  ASSUME NEW c \in DecimalDigits
  PROVE  DigitValue(c) \in 0 .. 9
<1>1. \E i \in 1 .. 10 : Digit[i] = c
  BY DEF DecimalDigits
<1>2. (CHOOSE i \in 1 .. 10 : Digit[i] = c) \in 1 .. 10
  BY <1>1
<1> QED
  BY <1>2 DEF DigitValue

(* The equation of upto in Number, for the first n digits.                 *)
CountsUpTo(upto, digits, n) ==
  upto = [i \in 0 .. n |-> IF i = 0 THEN 0 ELSE 10 * upto[i - 1] + DigitValue(digits[i])]

LEMMA CountsExist ==
  ASSUME NEW digits, NEW n \in Nat
  PROVE  \E upto : CountsUpTo(upto, digits, n)
<1> DEFINE S == {k \in Nat : \E upto : CountsUpTo(upto, digits, k)}
<1>1. 0 \in S
  <2> DEFINE upto == [i \in 0 .. 0 |-> 0]
  <2>1. CountsUpTo(upto, digits, 0)
    BY DEF CountsUpTo
  <2> QED
    BY <2>1
<1>2. ASSUME NEW k \in Nat, k \in S PROVE k + 1 \in S
  <2>1. PICK upto : CountsUpTo(upto, digits, k)
    BY <1>2
  <2> DEFINE more == [i \in 0 .. k + 1 |->
                        IF i <= k THEN upto[i] ELSE 10 * upto[k] + DigitValue(digits[k + 1])]
             again == [i \in 0 .. k + 1 |->
                        IF i = 0 THEN 0 ELSE 10 * more[i - 1] + DigitValue(digits[i])]
  <2>2. \A i \in 0 .. k : more[i] = upto[i]
    OBVIOUS
  <2>3. more[k + 1] = 10 * upto[k] + DigitValue(digits[k + 1])
    OBVIOUS
  <2>4. more = [i \in 0 .. k + 1 |-> more[i]]
    OBVIOUS
  <2> HIDE DEF more
  <2>5. \A i \in 0 .. k + 1 :
          more[i] = IF i = 0 THEN 0 ELSE 10 * more[i - 1] + DigitValue(digits[i])
    <3> TAKE i \in 0 .. k + 1
    <3>1. CASE i \in 0 .. k
      <4>1. i # 0 => i - 1 \in 0 .. k /\ more[i - 1] = upto[i - 1]
        BY <2>2, <3>1
      <4>2. upto[i] = IF i = 0 THEN 0 ELSE 10 * upto[i - 1] + DigitValue(digits[i])
        BY <2>1, <3>1 DEF CountsUpTo
      <4> QED
        BY <2>2, <3>1, <4>1, <4>2
    <3>2. CASE i = k + 1
      <4>1. i # 0 /\ i - 1 = k /\ more[k] = upto[k]
        BY <2>2, <3>2
      <4> QED
        BY <2>3, <3>2, <4>1
    <3> QED
      BY <3>1, <3>2
  <2>6. more = again
    BY <2>4, <2>5
  <2>7. CountsUpTo(more, digits, k + 1)
    BY <2>6 DEF CountsUpTo
  <2> QED
    BY <2>7
<1> HIDE DEF S
<1>3. n \in S
  BY <1>1, <1>2, SetInduction
<1> QED
  BY <1>3 DEF S

LEMMA NumberIsNatural ==
  ASSUME NEW digits, Len(digits) \in Nat, \A i \in 1 .. Len(digits) : digits[i] \in DecimalDigits
  PROVE  Number(digits) \in Nat
<1> DEFINE upto == CHOOSE upto : CountsUpTo(upto, digits, Len(digits))
<1>1. Number(digits) = upto[Len(digits)]
  BY DEF Number, CountsUpTo
<1>2. \E f0 : CountsUpTo(f0, digits, Len(digits))
  BY CountsExist
<1>3. CountsUpTo(upto, digits, Len(digits))
  BY <1>2
<1> HIDE DEF upto
<1> DEFINE S == {k \in Nat : k <= Len(digits) => upto[k] \in Nat}
<1>4. 0 \in S
  BY <1>3 DEF CountsUpTo
<1>5. ASSUME NEW k \in Nat, k \in S PROVE k + 1 \in S
  <2> SUFFICES ASSUME k + 1 <= Len(digits) PROVE upto[k + 1] \in Nat
    OBVIOUS
  <2>1. k + 1 \in 1 .. Len(digits) /\ (k + 1) - 1 = k
    OBVIOUS
  <2>2. DigitValue(digits[k + 1]) \in 0 .. 9
    BY <2>1, DigitsHaveValues
  <2>3. upto[k + 1] = 10 * upto[k] + DigitValue(digits[k + 1])
    BY <1>3, <2>1 DEF CountsUpTo
  <2>4. upto[k] \in Nat
    BY <1>5
  <2>5. PICK m, v : m = upto[k] /\ v = DigitValue(digits[k + 1])
    OBVIOUS
  <2>6. m \in Nat /\ v \in Nat
    BY <2>2, <2>4, <2>5
  <2>7. 10 * m + v \in Nat
    BY <2>6
  <2> QED
    BY <2>3, <2>5, <2>7
<1> HIDE DEF S
<1>6. Len(digits) \in S
  BY <1>4, <1>5, SetInduction
<1> QED
  BY <1>1, <1>6 DEF S

LEMMA WidthIsNatural ==
  ASSUME IsText(fmt), f \in 1 .. Len(fmt), fmt[f] \in DecimalDigits
  PROVE  Number(SubSeq(fmt, f, NumberEnd - 1)) \in Nat
<1>1. /\ NumberEnd \in f + 1 .. Len(fmt) + 1
      /\ \A i \in f .. NumberEnd - 1 : fmt[i] \in DecimalDigits
  BY NumberEnds
<1> DEFINE n == NumberEnd - 1
           digits == SubSeq(fmt, f, n)
<1>2. Len(fmt) \in Nat /\ f \in Nat \ {0} /\ n \in 0 .. Len(fmt) /\ f <= n
  BY <1>1, TextLength
<1> HIDE DEF n
<1>3. Len(digits) = n - f + 1 /\ \A i \in 1 .. n - f + 1 : digits[i] = fmt[f + i - 1]
  BY <1>2, PartIsText
<1>4. \A i \in 1 .. Len(digits) : digits[i] \in DecimalDigits
  <2> TAKE i \in 1 .. Len(digits)
  <2>1. f + i - 1 \in f .. n
    BY <1>2, <1>3
  <2>2. digits[i] = fmt[f + i - 1]
    BY <1>3
  <2> QED
    BY <1>1, <2>1, <2>2 DEF n
<1>5. Len(digits) \in Nat
  BY <1>2, <1>3
<1>6. Number(digits) \in Nat
  <2> HIDE DEF digits
  <2> QED
    BY <1>4, <1>5, NumberIsNatural
<1> QED
  BY <1>6 DEF n

-----------------------------------------------------------------------------
(* Back to the directive's percent sign                                    *)

LEMMA RewindsToPercent ==
  ASSUME NEW g \in Nat \ {0}, NEW i \in 2 .. g, fmt[i - 1] = "%"
  PROVE  /\ Rewind(g) \in 2 .. g
         /\ fmt[Rewind(g) - 1] = "%"
<1> DEFINE T == {k \in Nat : k <= g - 2 /\ fmt[(g - k) - 1] = "%"}
           Begins(h) == /\ h > 1 /\ fmt[h - 1] = "%"
                        /\ \A j \in h .. g - 1 : fmt[j] # "%"
<1>1. g - i \in T
  <2>1. g - i \in Nat /\ g - i <= g - 2 /\ (g - (g - i)) - 1 = i - 1
    OBVIOUS
  <2> QED
    BY <2>1
<1>2. PICK k \in T : \A l \in T : ~(l < k)
  BY <1>1, LeastNat
<1> DEFINE h == g - k
<1>3. h \in 2 .. g /\ fmt[h - 1] = "%"
  BY <1>2
<1>4. ASSUME NEW j \in h .. g - 1 PROVE fmt[j] # "%"
  <2>1. /\ (g - 1) - j \in Nat /\ (g - 1) - j < k /\ (g - 1) - j <= g - 2
        /\ (g - ((g - 1) - j)) - 1 = j
    BY <1>2, <1>3
  <2> QED
    BY <1>2, <2>1
<1>5. h \in 1 .. g /\ Begins(h)
  BY <1>3, <1>4
<1>6. Rewind(g) = CHOOSE x \in 1 .. g : Begins(x)
  BY DEF Rewind
<1> HIDE DEF Begins, h, T
<1>7. Rewind(g) \in 1 .. g /\ Begins(Rewind(g))
  BY <1>5, <1>6
<1> QED
  BY <1>7 DEF Begins
-----------------------------------------------------------------------------
(* The inductive invariant                                                 *)

Buffered == size \notin {NULL, USER}

DirectiveType ==
  [padc : {" ", "-", "0"}, width : Int, precision : Int, lflag : Nat, alt : {0, 1}]

(* What a directive has read so far, and the texts.                        *)
Typing ==
  /\ IsText(fmt) /\ f \in 1 .. Len(fmt) + 1
  /\ d \in DirectiveType
  /\ pc \in {"call", "plain", "switch", "end", "done"}
  /\ size \in Sizes \cup {NULL, USER, NOBUF}
  /\ IsText(out) /\ IsText(console) /\ IsText(b.mem)
  /\ b \in [mem : {b.mem}, pos : Nat, cnt : Nat]

(* A directive begins behind a percent sign, to which it can go back.      *)
Begun == pc = "switch" => begin \in 2 .. f /\ fmt[begin - 1] = "%"

First(text, n) == SubSeq(text, 1, IF Len(text) < n THEN Len(text) ELSE n)

(* The buffer of vsnprintf at every moment: the text up to now, cut where  *)
(* the place for the terminator begins; the position and the count.        *)
Cuts == b.mem = First(out, size - 1) /\ b.pos = Len(b.mem) /\ b.cnt = Len(out)
Cut ==
  Buffered =>
    IF Refused
    THEN /\ pc \in {"call", "done"} /\ b.mem = <<>>
         /\ pc = "done" => ret = -E_INVAL
    ELSE IF pc = "done"
    THEN b.mem = First(out, size - 1) \o <<NULL>> /\ ret = Len(out)
    ELSE Cuts

(* A user program's text is what reached the console, a full buffer each   *)
(* time, and what its buffer has, in this order.                           *)
Collects ==
  /\ console \o b.mem = out /\ b.cnt = Len(out)
  /\ Len(b.mem) < PRINTBUF - 1 /\ Len(console) % (PRINTBUF - 1) = 0
Whole ==
  size = USER => IF pc = "done" THEN console = out /\ ret = Len(out) ELSE Collects

(* A format without conversions and with at most one percent sign: what    *)
(* was read is what was put, but for a directive that is being read.       *)
Undirected ==
  /\ \A i \in 1 .. Len(fmt) : fmt[i] \notin Conversions \ {"%"}
  /\ \A i, j \in 1 .. Len(fmt) : fmt[i] = "%" /\ fmt[j] = "%" => i = j
Verbatim ==
  Undirected =>
    /\ pc \in {"call", "plain"} => out = SubSeq(fmt, 1, f - 1)
    /\ pc = "switch" => out = SubSeq(fmt, 1, begin - 2)
    /\ pc = "end" => out = fmt

PrintfmtInv == Typing /\ Begun /\ Cut /\ Whole /\ Verbatim
-----------------------------------------------------------------------------
(* Where the characters go                                                 *)

LEMMA RoomForEnd ==
  ASSUME size \in Sizes \cup {NULL, USER, NOBUF}, Buffered, ~Refused
  PROVE  size \in Int /\ size >= 1
<1>1. size \notin {NULL, USER} /\ size # NOBUF /\ ~(size < 1)
  BY DEF Buffered, Refused
<1>2. size \in Int
  BY <1>1, PrintfmtAssumption
<1> QED
  BY <1>1, <1>2

LEMMA FirstIsText ==
  ASSUME NEW s, IsText(s), NEW n \in Nat
  PROVE  /\ IsText(First(s, n))
         /\ Len(First(s, n)) = IF Len(s) < n THEN Len(s) ELSE n
<1> DEFINE k == IF Len(s) < n THEN Len(s) ELSE n
<1>1. Len(s) \in Nat
  BY TextLength
<1>2. k \in 0 .. Len(s) /\ 1 \in Nat \ {0} /\ k - 1 + 1 = k
  BY <1>1
<1> HIDE DEF k
<1>3. IsText(SubSeq(s, 1, k)) /\ Len(SubSeq(s, 1, k)) = IF 1 <= k THEN k - 1 + 1 ELSE 0
  BY <1>2, PartIsText
<1>4. Len(SubSeq(s, 1, k)) = k
  BY <1>1, <1>2, <1>3
<1>5. First(s, n) = SubSeq(s, 1, k)
  BY DEF First, k
<1> QED
  BY <1>3, <1>4, <1>5 DEF k

(* What sprintputch stores of a text makes the longest prefix again: m     *)
(* characters are in the buffer, k more get there.                         *)
Stored(t, n, m, k) == k = IF Len(t) < n - m THEN Len(t) ELSE n - m
Longer(s, t, n, m, k) ==
  /\ m \in Nat /\ k \in Nat
  /\ First(s, n) \o SubSeq(t, 1, k) = First(s \o t, n)
  /\ IsText(First(s \o t, n)) /\ Len(First(s \o t, n)) = m + k

LEMMA FirstGrows ==
  ASSUME NEW s, NEW t, IsText(s), IsText(t), NEW n \in Nat,
         NEW m, m = Len(First(s, n)), NEW k, Stored(t, n, m, k)
  PROVE  Longer(s, t, n, m, k)
<1> USE DEF Stored, Longer
<1>1. Len(s) \in Nat /\ Len(t) \in Nat
  BY TextLength
<1>2. IsText(s \o t) /\ Len(s \o t) = Len(s) + Len(t)
  BY ConcatIsText
<1>3. IsText(First(s, n)) /\ m = IF Len(s) < n THEN Len(s) ELSE n
  BY FirstIsText
<1>4. /\ IsText(First(s \o t, n))
      /\ Len(First(s \o t, n)) = IF Len(s \o t) < n THEN Len(s \o t) ELSE n
  BY <1>2, FirstIsText
<1>5. m \in Nat /\ k \in Nat
  BY <1>1, <1>3
<1>6. CASE Len(s) < n
  <2>1. m = Len(s) /\ k \in 0 .. Len(t)
    BY <1>1, <1>3, <1>6
  <2>2. First(s, n) = s
    BY <1>6, WholePart DEF First
  <2>3. (IF Len(s \o t) < n THEN Len(s \o t) ELSE n) = Len(s) + k
    BY <1>1, <1>2, <1>3, <1>6
  <2>4. First(s \o t, n) = SubSeq(s \o t, 1, Len(s) + k)
    BY <2>3 DEF First
  <2>5. SubSeq(s \o t, 1, Len(s) + k) = s \o SubSeq(t, 1, k)
    BY <2>1, PartOfBoth
  <2> QED
    BY <1>4, <1>5, <2>1, <2>2, <2>3, <2>4, <2>5
<1>7. CASE ~(Len(s) < n)
  <2>1. m = n /\ k = 0 /\ n \in 0 .. Len(s)
    BY <1>1, <1>3, <1>7
  <2>2. SubSeq(t, 1, k) = <<>>
    BY <2>1, EmptyPart
  <2>3. First(s, n) \o <<>> = First(s, n)
    BY <1>3, EmptyConcat
  <2>4. First(s, n) = SubSeq(s, 1, n)
    BY <1>7 DEF First
  <2>5. ~(Len(s \o t) < n)
    BY <1>1, <1>2, <1>7
  <2>6. First(s \o t, n) = SubSeq(s \o t, 1, n)
    BY <2>5 DEF First
  <2>7. SubSeq(s \o t, 1, n) = SubSeq(s, 1, n)
    BY <2>1, PartOfFirst
  <2>8. Len(First(s \o t, n)) = m + k
    BY <1>4, <2>1, <2>5
  <2> QED
    BY <1>4, <1>5, <2>2, <2>3, <2>4, <2>6, <2>7, <2>8
<1> QED
  BY <1>6, <1>7

LEMMA Multiples ==
  ASSUME NEW m \in Nat \ {0}, NEW j \in Nat, NEW k \in Nat, j % m = 0
  PROVE  /\ k % m \in 0 .. m - 1 /\ k - (k % m) \in 0 .. k
         /\ (j + (k - (k % m))) % m = 0
<1>1. k % m \in 0 .. m - 1 /\ k - (k % m) \in 0 .. k
  OBVIOUS
<1>2. j = (j \div m) * m /\ k - (k % m) = (k \div m) * m
  OBVIOUS
<1> DEFINE p == j \div m
           q == k \div m
<1>3. p \in Int /\ q \in Int
  OBVIOUS
<1>4. j + (k - (k % m)) = p * m + q * m
  BY <1>2
<1> HIDE DEF p, q
<1>5. p * m + q * m = (p + q) * m
  BY <1>3
<1>6. ((p + q) * m) % m = 0
  BY <1>3
<1> QED
  BY <1>1, <1>4, <1>5, <1>6
LEMMA BufferTakes ==
  ASSUME IsText(out), IsText(b.mem), size \in Int, size >= 1, Cuts,
         NEW text, IsText(text),
         out' = out \o text, b' = sprintputch(text), UNCHANGED size
  PROVE  /\ IsText(b.mem') /\ b' \in [mem : {b.mem'}, pos : Nat, cnt : Nat]
         /\ Cuts'
<1>1. Len(out) \in Nat /\ Len(text) \in Nat
  BY TextLength
<1>2. PICK n \in Nat : n = size - 1 /\ n = size' - 1
  OBVIOUS
<1>3. PICK m : m = Len(First(out, n))
  OBVIOUS
<1>4. PICK k : k = IF Len(text) < n - m THEN Len(text) ELSE n - m
  OBVIOUS
<1>5. /\ m \in Nat /\ k \in Nat
      /\ First(out, n) \o SubSeq(text, 1, k) = First(out \o text, n)
      /\ IsText(First(out \o text, n)) /\ Len(First(out \o text, n)) = m + k
  <2>1. Stored(text, n, m, k)
    BY <1>4 DEF Stored
  <2>2. Longer(out, text, n, m, k)
    BY <1>2, <1>3, <2>1, FirstGrows
  <2> QED
    BY <2>2 DEF Longer
<1>6. b.mem = First(out, n) /\ b.pos = m /\ b.cnt = Len(out)
  BY <1>2, <1>3 DEF Cuts
<1>7. b' = [mem |-> b.mem \o SubSeq(text, 1, k), pos |-> b.pos + k, cnt |-> b.cnt + Len(text)]
  BY <1>2, <1>4, <1>6 DEF sprintputch, Ebuf
<1>8. PICK mem : mem = First(out \o text, n)
  OBVIOUS
<1>9. b' = [mem |-> mem, pos |-> m + k, cnt |-> Len(out) + Len(text)]
  BY <1>5, <1>6, <1>7, <1>8
<1>10. IsText(mem) /\ Len(mem) = m + k /\ mem = First(out', size' - 1)
  BY <1>2, <1>5, <1>8
<1>11. b'.mem = mem /\ b'.pos = m + k /\ b'.cnt = Len(out) + Len(text)
  BY <1>9
<1>12. b' \in [mem : {mem}, pos : Nat, cnt : Nat]
  BY <1>1, <1>5, <1>9
<1>13. Len(out') = Len(out) + Len(text)
  BY ConcatIsText
<1>14. Cuts'
  BY <1>10, <1>11, <1>13 DEF Cuts
<1> QED
  BY <1>10, <1>11, <1>12, <1>14

(* What putch does to what was sent and what is kept, c and h, with a      *)
(* buffer of m places and one more.                                        *)
Sent(h, t, m, old, new) ==
  LET all == h \o t IN Halved(all, Len(all) - (Len(all) % m), old, new)
SentWhole(c, h, t, m, old, new) ==
  /\ IsText(c \o old) /\ IsText(new)
  /\ (c \o old) \o new = (c \o h) \o t
  /\ Len(c \o old) % m = 0 /\ Len(new) < m

LEMMA BuffersSent ==
  ASSUME NEW c, NEW h, NEW t, IsText(c), IsText(h), IsText(t),
         NEW m \in Nat \ {0}, Len(c) % m = 0, NEW old, NEW new, Sent(h, t, m, old, new)
  PROVE  SentWhole(c, h, t, m, old, new)
<1>1. PICK all : all = h \o t
  OBVIOUS
<1>2. IsText(all)
  BY <1>1, ConcatIsText
<1>3. PICK l \in Nat : l = Len(all)
  BY <1>2, TextLength
<1>4. PICK j \in Nat : j = Len(c) /\ j % m = 0
  BY TextLength
<1>5. /\ l % m \in 0 .. m - 1 /\ l - (l % m) \in 0 .. l
      /\ (j + (l - (l % m))) % m = 0
  BY <1>4, Multiples
<1>6. PICK r \in 0 .. m - 1 : r = l % m /\ l - r \in 0 .. l /\ (j + (l - r)) % m = 0
  BY <1>5
<1>7. PICK sent : sent = l - r
  OBVIOUS
<1>8. Halved(all, sent, old, new)
  BY <1>1, <1>3, <1>6, <1>7 DEF Sent
<1>9. sent \in 0 .. Len(all)
  BY <1>3, <1>6, <1>7
<1>10. TwoTexts(all, sent, old, new)
  BY <1>2, <1>8, <1>9, Halves
<1>11. IsText(old) /\ IsText(new) /\ Len(old) = sent /\ Len(new) = l - sent /\ all = old \o new
  BY <1>3, <1>10 DEF TwoTexts
<1>12. (c \o old) \o new = c \o all
  <2>1. Associates(c, old, new)
    BY <1>11, ConcatThree
  <2> QED
    BY <1>11, <2>1 DEF Associates
<1>13. (c \o h) \o t = c \o all
  <2>1. Associates(c, h, t)
    BY ConcatThree
  <2> QED
    BY <1>1, <2>1 DEF Associates
<1>14. IsText(c \o old) /\ Len(c \o old) = Len(c) + Len(old)
  BY <1>11, ConcatIsText
<1>15. Len(new) < m
  BY <1>6, <1>7, <1>11
<1>16. Len(c \o old) = j + (l - r)
  BY <1>4, <1>7, <1>11, <1>14
<1>17. Len(c \o old) % m = 0
  BY <1>6, <1>16
<1>18. (c \o old) \o new = (c \o h) \o t
  BY <1>12, <1>13
<1> QED
  BY <1>11, <1>14, <1>15, <1>17, <1>18 DEF SentWhole

LEMMA UserTakes ==
  ASSUME IsText(out), IsText(console), IsText(b.mem), Collects,
         NEW text, IsText(text),
         out' = out \o text, console' = putch(text).console,
         b' = [mem |-> putch(text).buf, pos |-> Len(putch(text).buf), cnt |-> b.cnt + Len(text)]
  PROVE  /\ IsText(console') /\ IsText(b.mem') /\ b' \in [mem : {b.mem'}, pos : Nat, cnt : Nat]
         /\ Collects'
<1>1. PICK m \in Nat \ {0} : m = PRINTBUF - 1
  BY PrintfmtAssumption
<1> DEFINE all  == b.mem \o text
           sent == Len(all) - (Len(all) % m)
<1>2. PICK old, new : old = SubSeq(all, 1, sent) /\ new = SubSeq(all, sent + 1, Len(all))
  OBVIOUS
<1>3. Sent(b.mem, text, m, old, new)
  BY <1>2 DEF Sent, Halved
<1>4. /\ console \o b.mem = out /\ b.cnt = Len(out) /\ Len(console) % m = 0
  BY <1>1 DEF Collects
<1>5. SentWhole(console, b.mem, text, m, old, new)
  BY <1>3, <1>4, BuffersSent
<1>6. putch(text).console = console \o old /\ putch(text).buf = new
  BY <1>1, <1>2 DEF putch, FullBuffers
<1> HIDE DEF all, sent
<1>7. /\ IsText(console \o old) /\ IsText(new)
      /\ (console \o old) \o new = (console \o b.mem) \o text
      /\ Len(console \o old) % m = 0 /\ Len(new) < m
  BY <1>5 DEF SentWhole
<1>8. Len(out \o text) = Len(out) + Len(text) /\ Len(out) \in Nat /\ Len(text) \in Nat
  BY ConcatIsText, TextLength
<1>9. b' = [mem |-> new, pos |-> Len(new), cnt |-> Len(out) + Len(text)]
  BY <1>4, <1>6
<1>10. b'.mem = new /\ b'.cnt = Len(out) + Len(text) /\ console' = console \o old
  BY <1>6, <1>9
<1>11. Len(new) \in Nat /\ Len(out) + Len(text) \in Nat
  BY <1>7, <1>8, TextLength
<1>12. b' \in [mem : {new}, pos : Nat, cnt : Nat]
  BY <1>9, <1>11
<1>13. console' \o b'.mem = out' /\ b'.cnt = Len(out')
  BY <1>4, <1>7, <1>8, <1>10
<1>14. Collects'
  BY <1>1, <1>7, <1>10, <1>13 DEF Collects
<1> QED
  BY <1>7, <1>10, <1>12, <1>14

(* What Put needs of a state and leaves.                                   *)
Output ==
  /\ size \in Sizes \cup {NULL, USER, NOBUF}
  /\ IsText(out) /\ IsText(console) /\ IsText(b.mem)
  /\ b \in [mem : {b.mem}, pos : Nat, cnt : Nat]
  /\ Buffered => ~Refused /\ Cuts
  /\ size = USER => Collects

LEMMA PutKeeps ==
  ASSUME Output, NEW text, IsText(text), Put(text), UNCHANGED size
  PROVE  Output'
<1> USE DEF Output, Buffered
<1>1. out' = out \o text /\ IsText(out')
  BY ConcatIsText DEF Put
<1>2. CASE size = NULL
  <2>1. size # USER /\ console' = console \o text /\ b' = b
    BY <1>2, PrintfmtAssumption DEF Put
  <2>2. IsText(console')
    BY <2>1, ConcatIsText
  <2> QED
    BY <1>1, <1>2, <2>1, <2>2
<1>3. CASE size = USER
  <2>1. size # NULL
    BY <1>3, PrintfmtAssumption
  <2>2. /\ console' = putch(text).console
        /\ b' = [mem |-> putch(text).buf, pos |-> Len(putch(text).buf),
                 cnt |-> b.cnt + Len(text)]
    BY <1>3, <2>1 DEF Put
  <2>3. Collects
    BY <1>3
  <2>4. /\ IsText(console') /\ IsText(b.mem') /\ b' \in [mem : {b.mem'}, pos : Nat, cnt : Nat]
        /\ Collects'
    BY <1>1, <2>2, <2>3, UserTakes
  <2> QED
    BY <1>1, <1>3, <2>1, <2>4
<1>4. CASE Buffered
  <2>1. size \in Int /\ size >= 1 /\ Cuts
    BY <1>4, RoomForEnd
  <2>2. b' = sprintputch(text) /\ console' = console
    BY <1>4 DEF Put
  <2>3. IsText(b.mem') /\ b' \in [mem : {b.mem'}, pos : Nat, cnt : Nat] /\ Cuts'
    BY <1>1, <2>1, <2>2, BufferTakes
  <2> QED
    BY <1>1, <1>4, <2>1, <2>2, <2>3 DEF Refused
<1> QED
  BY <1>2, <1>3, <1>4
-----------------------------------------------------------------------------
(* The invariant holds at first and is kept by every step                  *)

LEMMA Running ==
  ASSUME PrintfmtInv, pc \in {"plain", "switch", "end"}
  PROVE  Output
<1>1. size \in Sizes \cup {NULL, USER, NOBUF}
  BY DEF PrintfmtInv, Typing
<1>2. Buffered => ~Refused /\ Cuts
  BY DEF PrintfmtInv, Cut
<1>3. size = USER => Collects
  BY DEF PrintfmtInv, Whole
<1> QED
  BY <1>1, <1>2, <1>3 DEF Output, PrintfmtInv, Typing

(* What a step of the interpretation itself has to show.                   *)
LEMMA Continues ==
  ASSUME Output', pc' \in {"plain", "switch", "end"},
         IsText(fmt'), f' \in 1 .. Len(fmt') + 1,
         d' \in DirectiveType,
         Begun', Verbatim'
  PROVE  PrintfmtInv'
<1>1. size' \in Sizes \cup {NULL, USER, NOBUF}
  BY DEF Output
<1>3. Typing'
  BY DEF Output, Typing
<1>4. Cut'
  <2>1. Buffered' => ~Refused' /\ Cuts'
    BY DEF Output
  <2> QED
    BY <2>1 DEF Cut
<1>5. Whole'
  BY DEF Output, Whole
<1> QED
  BY <1>3, <1>4, <1>5 DEF PrintfmtInv

LEMMA OutputUnchanged ==
  ASSUME Output, UNCHANGED <<out, console, size, b>>
  PROVE  Output'
BY DEF Output, Buffered, Cuts, Collects, Refused

LEMMA FormatUnchanged ==
  ASSUME UNCHANGED fmt
  PROVE  Undirected' = Undirected
BY DEF Undirected

LEMMA NoneBegun ==
  ASSUME pc' # "switch"
  PROVE  Begun'
BY DEF Begun

LEMMA FreshTyped == Fresh \in DirectiveType
<1>1. -1 \in Int
  OBVIOUS
<1> QED
  BY <1>1 DEF Fresh, DirectiveType

(* The text and the position while there is more of the format.            *)
LEMMA Position ==
  ASSUME PrintfmtInv
  PROVE  /\ IsText(fmt) /\ Len(fmt) \in Nat /\ f \in Nat /\ f >= 1 /\ f <= Len(fmt) + 1
<1>1. IsText(fmt) /\ f \in 1 .. Len(fmt) + 1
  BY DEF PrintfmtInv, Typing
<1>2. Len(fmt) \in Nat
  BY <1>1, TextLength
<1> QED
  BY <1>1, <1>2

LEMMA FieldsTyped ==
  ASSUME PrintfmtInv
  PROVE  d.width \in Int /\ d.precision \in Int
BY DEF PrintfmtInv, Typing, DirectiveType

LEMMA Initially ==
  ASSUME Init
  PROVE  PrintfmtInv
<1>1. IsText(fmt) /\ Len(fmt) \in Nat
  BY PrintfmtAssumption, TextLength DEF Init
<1>2. IsText(<<>>) /\ Len(<<>>) = 0
  BY EmptyIsText
<1>3. d \in DirectiveType
  BY FreshTyped DEF Init
<1>4. b = [mem |-> <<>>, pos |-> 0, cnt |-> 0]
  BY DEF Init
<1>5. b.mem = <<>> /\ b.pos = 0 /\ b.cnt = 0
  BY <1>4
<1>6. b \in [mem : {b.mem}, pos : Nat, cnt : Nat]
  BY <1>4, <1>5
<1>7. pc = "call" /\ f = 1 /\ out = <<>> /\ console = <<>> /\ size \in Sizes \cup {NULL, USER, NOBUF}
  BY DEF Init
<1>8. Typing
  <2>1. f \in 1 .. Len(fmt) + 1
    BY <1>1, <1>7
  <2>2. IsText(out) /\ IsText(console) /\ IsText(b.mem)
    BY <1>2, <1>5, <1>7
  <2> QED
    BY <1>1, <1>3, <1>6, <1>7, <2>1, <2>2 DEF Typing
<1>9. Begun
  BY <1>7 DEF Begun
<1>10. Cut
  <2> SUFFICES ASSUME Buffered, ~Refused PROVE Cuts
    BY <1>5, <1>7 DEF Cut
  <2>1. size \in Int /\ size >= 1
    BY <1>7, RoomForEnd
  <2>2. PICK n \in Nat : n = size - 1
    BY <2>1
  <2>3. (IF 0 < n THEN 0 ELSE n) = 0
    OBVIOUS
  <2>4. First(<<>>, n) = SubSeq(<<>>, 1, 0)
    BY <1>2, <2>3 DEF First
  <2>5. First(<<>>, n) = <<>>
    BY <2>4, EmptyPart
  <2> QED
    BY <1>2, <1>5, <1>7, <2>2, <2>5 DEF Cuts
<1>11. Whole
  <2>1. <<>> \o <<>> = <<>>
    BY <1>2, EmptyConcat
  <2>2. PICK m \in Nat \ {0} : m = PRINTBUF - 1
    BY PrintfmtAssumption
  <2>3. 0 < m /\ 0 % m = 0
    OBVIOUS
  <2> QED
    BY <1>2, <1>5, <1>7, <2>1, <2>2, <2>3 DEF Whole, Collects
<1>12. Verbatim
  <2>1. SubSeq(fmt, 1, f - 1) = <<>>
    BY <1>7, EmptyPart
  <2> QED
    BY <1>7, <2>1 DEF Verbatim
<1> QED
  BY <1>8, <1>9, <1>10, <1>11, <1>12 DEF PrintfmtInv

LEMMA CallStep ==
  ASSUME PrintfmtInv, vsnprintf
  PROVE  PrintfmtInv'
<1>1. /\ UNCHANGED <<fmt, f, d, out, console, size, b>> /\ pc = "call"
      /\ pc' \in {"done", "plain"}
      /\ pc' = "done" <=> Refused
      /\ pc' = "done" => ret' = -E_INVAL
      /\ Refused' = Refused /\ (Refused => Buffered)
  BY DEF vsnprintf, Buffered, Refused
<1>2. Typing'
  BY <1>1 DEF PrintfmtInv, Typing
<1>3. Begun'
  BY <1>1 DEF Begun
<1>4. Cut'
  BY <1>1 DEF PrintfmtInv, Cut, Cuts, Buffered
<1>5. Whole'
  <2>1. size = USER => ~Buffered
    BY DEF Buffered
  <2> QED
    BY <1>1, <2>1 DEF PrintfmtInv, Whole, Collects
<1>6. Verbatim'
  BY <1>1, FormatUnchanged DEF PrintfmtInv, Verbatim
<1> QED
  BY <1>2, <1>3, <1>4, <1>5, <1>6 DEF PrintfmtInv

LEMMA EndStep ==
  ASSUME PrintfmtInv, text_ends
  PROVE  PrintfmtInv'
<1>1. /\ UNCHANGED <<fmt, f, d, out, size>> /\ pc = "end" /\ pc' = "done" /\ ret' = b.cnt
      /\ console' = IF size = USER THEN console \o b.mem ELSE console
      /\ b' = IF Buffered THEN [b EXCEPT !.mem = Append(@, NULL)] ELSE b
  BY DEF text_ends, Buffered
<1>2. Output
  BY <1>1, Running
<1>3. IsText(console')
  BY <1>1, <1>2, ConcatIsText DEF Output
<1>4. Buffered => /\ b.mem' = b.mem \o <<NULL>> /\ b.pos' = b.pos /\ b.cnt' = b.cnt
                  /\ b' \in [mem : {b.mem'}, pos : Nat, cnt : Nat]
  <2> SUFFICES ASSUME Buffered
               PROVE  /\ b.mem' = b.mem \o <<NULL>> /\ b.pos' = b.pos /\ b.cnt' = b.cnt
                      /\ b' \in [mem : {b.mem'}, pos : Nat, cnt : Nat]
    OBVIOUS
  <2> DEFINE S == Range(b.mem) \cup {NULL}
  <2>1. b.mem \in Seq(S)
    <3>1. b.mem \in Seq(Range(b.mem)) /\ Range(b.mem) \subseteq S
      BY <1>2 DEF Output, IsText
    <3> HIDE DEF S
    <3> QED
      BY <3>1, SeqMonotonic
  <2>2. Append(b.mem, NULL) = b.mem \o <<NULL>>
    <3>1. NULL \in S
      OBVIOUS
    <3> HIDE DEF S
    <3> QED
      BY <2>1, <3>1, AppendIsConcat
  <2>3. b \in [mem : {b.mem}, pos : Nat, cnt : Nat]
    BY <1>2 DEF Output
  <2>4. b' = [b EXCEPT !.mem = b.mem \o <<NULL>>]
    BY <1>1, <2>2
  <2> QED
    BY <2>3, <2>4
<1>5. IsText(b.mem') /\ b' \in [mem : {b.mem'}, pos : Nat, cnt : Nat]
  <2>1. CASE Buffered
    <3>1. IsText(b.mem) /\ IsText(<<NULL>>)
      BY <1>2, CharacterIsText DEF Output
    <3>2. IsText(b.mem \o <<NULL>>)
      BY <3>1, ConcatIsText
    <3> QED
      BY <1>4, <2>1, <3>2
  <2>2. CASE ~Buffered
    BY <1>1, <1>2, <2>2 DEF Output
  <2> QED
    BY <2>1, <2>2
<1>6. Typing'
  BY <1>1, <1>3, <1>5 DEF PrintfmtInv, Typing
<1>7. Cut'
  <2> SUFFICES ASSUME Buffered'
               PROVE  /\ ~Refused'
                      /\ b.mem' = First(out', size' - 1) \o <<NULL>> /\ ret' = Len(out')
    BY <1>1 DEF Cut
  <2>1. Buffered
    BY <1>1 DEF Buffered
  <2>2. ~Refused /\ Cuts
    BY <1>2, <2>1 DEF Output
  <2>3. b.mem = First(out, size - 1) /\ b.cnt = Len(out)
    BY <2>2 DEF Cuts
  <2>4. b.mem' = First(out, size - 1) \o <<NULL>> /\ ret' = Len(out)
    BY <1>1, <1>4, <2>1, <2>3
  <2>5. ~Refused'
    BY <1>1, <2>2 DEF Refused
  <2> QED
    BY <1>1, <2>4, <2>5
<1>8. Whole'
  BY <1>1, <1>2 DEF Whole, Output, Collects
<1>9. Begun' /\ Verbatim'
  BY <1>1 DEF Begun, Verbatim
<1> QED
  BY <1>6, <1>7, <1>8, <1>9 DEF PrintfmtInv
LEMMA PlainStep ==
  ASSUME PrintfmtInv, plain
  PROVE  PrintfmtInv'
<1>0. pc = "plain" /\ f <= Len(fmt) /\ f' = f + 1 /\ UNCHANGED <<fmt, size>>
  BY DEF plain
<1>1. pc = "plain" /\ f \in 1 .. Len(fmt) /\ f' = f + 1 /\ UNCHANGED <<fmt, size>>
  BY <1>0, Position
<1>2. Output
  BY <1>1, Running
<1>3. /\ IsText(fmt') /\ Len(fmt) \in Nat /\ f' \in 1 .. Len(fmt') + 1
  BY <1>1, Position
<1>4. CASE fmt[f] = "%"
  <2>1. /\ pc' = "switch" /\ d' = Fresh /\ begin' = f + 1
        /\ UNCHANGED <<out, console, b>>
    BY <1>4 DEF plain
  <2>2. Output'
    BY <1>1, <1>2, <2>1, OutputUnchanged
  <2>3. Begun'
    BY <1>1, <1>3, <1>4, <2>1 DEF Begun
  <2>4. begin' - 2 = f - 1
    BY <1>3, <2>1, <1>1
  <2>5. Verbatim'
    BY <1>1, <2>1, <2>4, FormatUnchanged DEF Verbatim, PrintfmtInv
  <2>6. d' \in DirectiveType
    BY <2>1, FreshTyped
  <2> QED
    BY <1>3, <2>1, <2>2, <2>3, <2>5, <2>6, Continues
<1>5. CASE fmt[f] # "%"
  <2>1. Put(<<fmt[f]>>) /\ UNCHANGED <<pc, d, begin>>
    BY <1>5 DEF plain
  <2>2. Output'
    BY <1>1, <1>2, <2>1, CharacterIsText, PutKeeps
  <2>3. Begun'
    BY <1>1, <2>1, NoneBegun
  <2>4. SubSeq(fmt, 1, f - 1) \o <<fmt[f]>> = SubSeq(fmt, 1, f)
    BY <1>1, NextCharacter DEF PrintfmtInv, Typing
  <2>5. f' - 1 = f
    BY <1>1
  <2>6. Verbatim'
    BY <1>1, <2>1, <2>4, <2>5, FormatUnchanged DEF Verbatim, PrintfmtInv, Put
  <2> QED
    BY <1>1, <1>3, <2>1, <2>2, <2>3, <2>6, Continues DEF PrintfmtInv, Typing
<1> QED
  BY <1>4, <1>5

LEMMA EndsStep ==
  ASSUME PrintfmtInv, ends
  PROVE  PrintfmtInv'
<1>1. /\ pc = "plain" /\ pc' = "end" /\ f > Len(fmt)
      /\ UNCHANGED <<fmt, f, d, out, console, size, b, ret>>
  BY DEF ends
<1>2. Output'
  BY <1>1, Running, OutputUnchanged
<1>3. IsText(fmt) /\ Len(fmt) \in Nat /\ f - 1 = Len(fmt)
  BY <1>1, Position
<1>4. Verbatim'
  BY <1>1, <1>3, WholePart, FormatUnchanged DEF Verbatim, PrintfmtInv
<1>5. Begun'
  BY <1>1, NoneBegun
<1> QED
  BY <1>1, <1>2, <1>4, <1>5, Continues DEF PrintfmtInv, Typing

(* Inside a directive there is a character, which is not the end.          *)
LEMMA CharacterRead ==
  ASSUME PrintfmtInv, pc = "switch",
         ch \in DecimalDigits \cup {"-", ".", "#", "l", "*"} \cup Conversions
  PROVE  f \in 1 .. Len(fmt) /\ ch = fmt[f] /\ f + 1 \in 1 .. Len(fmt) + 1
<1>1. ch # NULL
  BY PrintfmtAssumption
<1>2. f <= Len(fmt) /\ ch = fmt[f]
  BY <1>1 DEF ch
<1> QED
  BY <1>2, TextLength DEF PrintfmtInv, Typing

(* A step inside a directive, after which it goes on.                      *)
LEMMA DirectiveGoesOn ==
  ASSUME PrintfmtInv, pc = "switch",
         d' \in DirectiveType,
         f' \in f .. Len(fmt) + 1,
         UNCHANGED <<fmt, pc, out, console, size, b, ret, begin>>
  PROVE  PrintfmtInv'
<1>1. Output'
  BY Running, OutputUnchanged
<1>2. f' \in 1 .. Len(fmt') + 1 /\ IsText(fmt')
  BY DEF PrintfmtInv, Typing
<1>3. Begun'
  BY TextLength DEF Begun, PrintfmtInv, Typing
<1>4. Verbatim'
  BY FormatUnchanged DEF Verbatim, PrintfmtInv
<1> QED
  BY <1>1, <1>2, <1>3, <1>4, Continues

LEMMA FlagStep ==
  ASSUME PrintfmtInv, flag
  PROVE  PrintfmtInv'
<1>1. pc = "switch" /\ ch \in {"-", "0", ".", "#", "l"}
  BY DEF flag
<1>2. f + 1 \in f .. Len(fmt) + 1
  <2>1. "0" \in DecimalDigits
    BY DEF DecimalDigits, Digit
  <2>2. f \in 1 .. Len(fmt) /\ f + 1 \in 1 .. Len(fmt) + 1
    BY <1>1, <2>1, CharacterRead
  <2> QED
    BY <2>2
<1>3. d \in DirectiveType
  BY DEF PrintfmtInv, Typing
<1>4. d' \in DirectiveType
  <2>1. CASE ch \in {"-", "0"} /\ d' = [d EXCEPT !.padc = ch]
    BY <1>3, <2>1 DEF DirectiveType
  <2>2. CASE d' = [d EXCEPT !.width = IF @ < 0 THEN 0 ELSE @]
    <3>1. d.width \in Int
      BY FieldsTyped
    <3>2. PICK w \in Int : w = IF d.width < 0 THEN 0 ELSE d.width
      BY <3>1
    <3>3. d' = [d EXCEPT !.width = w]
      BY <2>2, <3>2
    <3> QED
      BY <1>3, <3>3 DEF DirectiveType
  <2>3. CASE d' = [d EXCEPT !.alt = 1]
    BY <1>3, <2>3 DEF DirectiveType
  <2>4. CASE d' = [d EXCEPT !.lflag = @ + 1]
    <3>0. d.lflag \in Nat
      BY <1>3 DEF DirectiveType
    <3>1. PICK l \in Nat : l = d.lflag + 1
      BY <3>0
    <3>2. d' = [d EXCEPT !.lflag = l]
      BY <2>4, <3>1
    <3> QED
      BY <1>3, <3>2 DEF DirectiveType
  <2> QED
    BY <2>1, <2>2, <2>3, <2>4 DEF flag, Flag
<1>5. f' = f + 1 /\ UNCHANGED <<fmt, pc, out, console, size, b, ret, begin>>
  BY DEF flag, Flag
<1> QED
  BY <1>1, <1>2, <1>4, <1>5, DirectiveGoesOn

LEMMA PrecisionTyped ==
  ASSUME PrintfmtInv, NEW v \in Int
  PROVE  process_precision(v) \in DirectiveType
<1>1. d \in DirectiveType
  BY DEF PrintfmtInv, Typing
<1>2. -1 \in Int
  OBVIOUS
<1> QED
  BY <1>1, <1>2 DEF process_precision, DirectiveType

LEMMA WidthStep ==
  ASSUME PrintfmtInv, width
  PROVE  PrintfmtInv'
<1>1. /\ pc = "switch" /\ ch \in DecimalDigits
      /\ d' = process_precision(Number(SubSeq(fmt, f, NumberEnd - 1))) /\ f' = NumberEnd
      /\ UNCHANGED <<fmt, pc, out, console, size, b, ret, begin>>
  BY DEF width
<1>2. f \in 1 .. Len(fmt) /\ ch = fmt[f] /\ IsText(fmt) /\ Len(fmt) \in Nat
  BY <1>1, CharacterRead, TextLength DEF PrintfmtInv, Typing
<1>3. NumberEnd \in f + 1 .. Len(fmt) + 1
  BY <1>1, <1>2, NumberEnds
<1>4. Number(SubSeq(fmt, f, NumberEnd - 1)) \in Int
  BY <1>1, <1>2, WidthIsNatural
<1>5. d' \in DirectiveType
  BY <1>1, <1>4, PrecisionTyped
<1>6. f' \in f .. Len(fmt) + 1
  BY <1>1, <1>2, <1>3
<1> QED
  BY <1>1, <1>5, <1>6, DirectiveGoesOn

LEMMA StarStep ==
  ASSUME PrintfmtInv, star
  PROVE  PrintfmtInv'
<1>1. PICK v \in Values("*") : Flag(process_precision(v))
  BY DEF star
<1>2. v \in Int
  BY PrintfmtAssumption
<1>3. pc = "switch" /\ ch = "*"
  BY DEF star
<1>4. f \in 1 .. Len(fmt) /\ f + 1 \in 1 .. Len(fmt) + 1
  BY <1>3, CharacterRead
<1>5. d' \in DirectiveType
  BY <1>1, <1>2, PrecisionTyped DEF Flag
<1>6. /\ f' \in f .. Len(fmt) + 1
      /\ UNCHANGED <<fmt, pc, out, console, size, b, ret, begin>>
  BY <1>1, <1>4 DEF Flag
<1> QED
  BY <1>3, <1>5, <1>6, DirectiveGoesOn

(* A format that reads a conversion is not one without directives.         *)
LEMMA ConvertKeeps ==
  ASSUME PrintfmtInv, pc = "switch", ch \in Conversions,
         NEW text, IsText(text), NEW arguments, Convert(text, arguments)
  PROVE  PrintfmtInv'
<1>1. f \in 1 .. Len(fmt) /\ ch = fmt[f] /\ f + 1 \in 1 .. Len(fmt) + 1
  BY CharacterRead
<1>2. /\ Put(text) /\ pc' = "plain" /\ f' = f + 1 /\ UNCHANGED <<fmt, d, size, ret, begin>>
  BY DEF Convert
<1>3. Output'
  BY <1>2, Running, PutKeeps
<1>4. ~Undirected
  <2> SUFFICES ASSUME Undirected PROVE FALSE
    OBVIOUS
  <2>1. fmt[f] = "%"
    BY <1>1 DEF Undirected
  <2>2. begin \in 2 .. f /\ fmt[begin - 1] = "%"
    BY DEF PrintfmtInv, Begun
  <2>3. begin - 1 \in 1 .. Len(fmt) /\ begin - 1 # f
    BY <1>1, <2>2
  <2> QED
    BY <1>1, <2>1, <2>2, <2>3 DEF Undirected
<1>5. Verbatim' /\ Begun'
  BY <1>2, <1>4, FormatUnchanged, NoneBegun DEF Verbatim
<1> QED
  BY <1>1, <1>2, <1>3, <1>5, Continues DEF PrintfmtInv, Typing

LEMMA CharacterStep ==
  ASSUME PrintfmtInv, character
  PROVE  PrintfmtInv'
<1>1. pc = "switch" /\ ch \in Conversions
  BY DEF character, Conversions
<1>2. PICK v \in Values("char") : Convert(<<v>>, <<v>>)
  BY DEF character
<1> QED
  BY <1>1, <1>2, CharacterIsText, ConvertKeeps

LEMMA ErrorStep ==
  ASSUME PrintfmtInv, error
  PROVE  PrintfmtInv'
<1>1. pc = "switch" /\ ch \in Conversions
  BY DEF error, Conversions
<1>2. PICK v \in Values("int") : Convert(ErrorText(IF v < 0 THEN -v ELSE v), <<v>>)
  BY DEF error
<1>3. (IF v < 0 THEN -v ELSE v) \in Nat
  <2>1. v \in Int
    BY PrintfmtAssumption
  <2> QED
    BY <2>1
<1> QED
  BY <1>1, <1>2, <1>3, ErrorIsText, ConvertKeeps

LEMMA StringStep ==
  ASSUME PrintfmtInv, string
  PROVE  PrintfmtInv'
<1>1. pc = "switch" /\ ch \in Conversions
  BY DEF string, Conversions
<1> DEFINE shown(v) == IF v = NULL THEN <<"(", "n", "u", "l", "l", ")">> ELSE v
<1>2. PICK v \in Values("string") : Convert(Field(shown(v)), <<v>>)
  BY DEF string
<1>3. IsText(shown(v))
  <2>1. <<"(", "n", "u", "l", "l", ")">> \in Seq({"(", "n", "u", "l", ")"})
    OBVIOUS
  <2> QED
    BY <2>1, PrintfmtAssumption, SequenceIsText
<1>4. d.width \in Int /\ d.precision \in Int
  BY FieldsTyped
<1> HIDE DEF shown
<1> QED
  BY <1>1, <1>2, <1>3, <1>4, FieldIsText, ConvertKeeps

LEMMA Modular ==
  ASSUME NEW type, NEW v \in Int
  PROVE  v % Modulus(type) \in Nat
<1>1. UINTS \in Nat \ {0}
  BY PrintfmtAssumption
<1>2. UINTS * UINTS \in Nat \ {0}
  BY <1>1
<1>3. Modulus(type) \in Nat \ {0}
  BY <1>1, <1>2 DEF Modulus
<1> QED
  BY <1>3

LEMMA IntegerArguments ==
  ASSUME NEW lflag, NEW v \in Values(IntType(lflag))
  PROVE  v \in Int
BY PrintfmtAssumption DEF IntType

LEMMA DecimalStep ==
  ASSUME PrintfmtInv, decimal
  PROVE  PrintfmtInv'
<1>1. pc = "switch" /\ ch \in Conversions
  BY DEF decimal, Conversions
<1>2. PICK v \in Values(IntType(d.lflag)) :
        Convert((IF v < 0 THEN <<"-">> ELSE <<>>)
                  \o printnum(IF v < 0 THEN -v ELSE v, 10, d.width, d.padc), <<v>>)
  BY DEF decimal
<1> DEFINE sign == IF v < 0 THEN <<"-">> ELSE <<>>
           magn == IF v < 0 THEN -v ELSE v
<1>3. v \in Int /\ d.width \in Int
  BY IntegerArguments, FieldsTyped
<1>4. magn \in Nat /\ 10 \in {8, 10, 16}
  BY <1>3
<1>5. IsText(sign)
  BY CharacterIsText, EmptyIsText
<1> HIDE DEF sign, magn
<1>6. IsText(printnum(magn, 10, d.width, d.padc))
  BY <1>3, <1>4, NumberIsText
<1>7. IsText(sign \o printnum(magn, 10, d.width, d.padc))
  BY <1>5, <1>6, ConcatIsText
<1>8. Convert(sign \o printnum(magn, 10, d.width, d.padc), <<v>>)
  BY <1>2 DEF sign, magn
<1> QED
  BY <1>1, <1>7, <1>8, ConvertKeeps

LEMMA UnsignedStep ==
  ASSUME PrintfmtInv, unsigned
  PROVE  PrintfmtInv'
<1>1. pc = "switch" /\ ch \in Conversions
  BY DEF unsigned, Conversions
<1> DEFINE base == IF ch = "u" THEN 10 ELSE IF ch = "o" THEN 8 ELSE 16
<1>2. PICK v \in Values(IntType(d.lflag)) :
        Convert(printnum(getuint(d.lflag, v), base, d.width, d.padc), <<v>>)
  BY DEF unsigned
<1>3. v \in Int /\ d.width \in Int
  BY IntegerArguments, FieldsTyped
<1>4. getuint(d.lflag, v) \in Nat
  BY <1>3, Modular DEF getuint
<1>5. base \in {8, 10, 16}
  OBVIOUS
<1> HIDE DEF base
<1>6. IsText(printnum(getuint(d.lflag, v), base, d.width, d.padc))
  BY <1>3, <1>4, <1>5, NumberIsText
<1> QED
  BY <1>1, <1>2, <1>6, ConvertKeeps

LEMMA PointerStep ==
  ASSUME PrintfmtInv, pointer
  PROVE  PrintfmtInv'
<1>1. pc = "switch" /\ ch \in Conversions
  BY DEF pointer, Conversions
<1>2. PICK v \in Values("pointer") :
        Convert(<<"0", "x">> \o printnum(v, 16, d.width, d.padc), <<v>>)
  BY DEF pointer
<1>3. v \in Nat /\ d.width \in Int /\ 16 \in {8, 10, 16}
  BY PrintfmtAssumption, FieldsTyped
<1>4. IsText(<<"0", "x">>)
  <2>1. <<"0", "x">> \in Seq({"0", "x"})
    OBVIOUS
  <2> QED
    BY <2>1, SequenceIsText
<1>5. IsText(printnum(v, 16, d.width, d.padc))
  BY <1>3, NumberIsText
<1>6. IsText(<<"0", "x">> \o printnum(v, 16, d.width, d.padc))
  BY <1>4, <1>5, ConcatIsText
<1> QED
  BY <1>1, <1>2, <1>6, ConvertKeeps

LEMMA PercentStep ==
  ASSUME PrintfmtInv, percent
  PROVE  PrintfmtInv'
<1>1. pc = "switch" /\ ch \in Conversions /\ Convert(<<"%">>, <<>>)
  BY DEF percent, Conversions
<1> QED
  BY <1>1, CharacterIsText, ConvertKeeps

(* Back behind the percent sign, which is put: of a format with one of     *)
(* them it is the one the directive begins with.                           *)
LEMMA UnrecognizedStep ==
  ASSUME PrintfmtInv, unrecognized
  PROVE  PrintfmtInv'
<1>1. /\ pc = "switch" /\ pc' = "plain" /\ f' = Rewind(f) /\ Put(<<"%">>)
      /\ UNCHANGED <<fmt, d, size, ret, begin>>
  BY DEF unrecognized
<1>2. f \in 1 .. Len(fmt) + 1 /\ IsText(fmt) /\ Len(fmt) \in Nat
  BY TextLength DEF PrintfmtInv, Typing
<1>3. begin \in 2 .. f /\ fmt[begin - 1] = "%"
  BY <1>1 DEF PrintfmtInv, Begun
<1>4. Rewind(f) \in 2 .. f /\ fmt[Rewind(f) - 1] = "%"
  BY <1>2, <1>3, RewindsToPercent
<1>5. Output'
  BY <1>1, Running, CharacterIsText, PutKeeps
<1>6. Verbatim'
  <2> SUFFICES ASSUME Undirected PROVE out' = SubSeq(fmt, 1, f' - 1)
    BY <1>1, FormatUnchanged DEF Verbatim
  <2>1. begin - 1 \in 1 .. Len(fmt) /\ Rewind(f) - 1 \in 1 .. Len(fmt)
    BY <1>2, <1>3, <1>4
  <2>2. begin - 1 = Rewind(f) - 1
    BY <1>3, <1>4, <2>1 DEF Undirected
  <2>3. out = SubSeq(fmt, 1, begin - 2)
    BY <1>1 DEF PrintfmtInv, Verbatim
  <2>4. (begin - 1) - 1 = begin - 2 /\ f' - 1 = begin - 1
    BY <1>1, <1>3, <1>4, <2>2
  <2>5. SubSeq(fmt, 1, (begin - 1) - 1) \o <<fmt[begin - 1]>> = SubSeq(fmt, 1, begin - 1)
    BY <1>2, <2>1, NextCharacter
  <2> QED
    BY <1>1, <1>3, <2>3, <2>4, <2>5 DEF Put
<1>7. f' \in 1 .. Len(fmt') + 1
  BY <1>1, <1>2, <1>4
<1>8. Begun'
  BY <1>1, NoneBegun
<1> QED
  BY <1>1, <1>2, <1>5, <1>6, <1>7, <1>8, Continues DEF PrintfmtInv, Typing

LEMMA StutterStep ==
  ASSUME PrintfmtInv, UNCHANGED vars
  PROVE  PrintfmtInv'
<1>1. UNCHANGED <<fmt, f, d, pc, out, console, size, b, ret, begin>>
  BY DEF vars
<1>2. Typing' /\ Begun'
  BY <1>1 DEF PrintfmtInv, Typing, Begun
<1>3. Cut' /\ Whole'
  BY <1>1 DEF PrintfmtInv, Cut, Cuts, Whole, Collects, Buffered, Refused
<1>4. Verbatim'
  BY <1>1, FormatUnchanged DEF PrintfmtInv, Verbatim
<1> QED
  BY <1>2, <1>3, <1>4 DEF PrintfmtInv

THEOREM PrintfmtInvHolds == Spec => []PrintfmtInv
<1>1. Init => PrintfmtInv
  BY Initially
<1>2. PrintfmtInv /\ [Next]_vars => PrintfmtInv'
  <2> SUFFICES ASSUME PrintfmtInv, [Next]_vars PROVE PrintfmtInv'
    OBVIOUS
  <2> QED
    BY CallStep, EndStep, PlainStep, EndsStep, FlagStep, WidthStep, StarStep, CharacterStep,
       ErrorStep, StringStep, DecimalStep, UnsignedStep, PointerStep, PercentStep,
       UnrecognizedStep, StutterStep DEF Next
<1> QED
  BY <1>1, <1>2, PTL DEF Spec

-----------------------------------------------------------------------------
(* The theorems                                                            *)

(* vsnprintf, for every format, argument and size: never past the size,    *)
(* the longest prefix that fits and its terminator, the length of all.     *)
THEOREM BufferKept == Spec => []BufferHoldsPrefix
<1>1. PrintfmtInv => BufferHoldsPrefix
  <2> SUFFICES ASSUME PrintfmtInv, Buffered PROVE BufferHoldsPrefix
    BY DEF BufferHoldsPrefix, Buffered
  <2>1. /\ size \in Sizes \cup {NULL, USER, NOBUF}
        /\ IsText(out) /\ Len(out) \in Nat
    BY TextLength DEF PrintfmtInv, Typing
  <2>2. CASE Refused
    BY <2>2, EmptyIsText DEF PrintfmtInv, Cut, BufferHoldsPrefix
  <2>3. CASE ~Refused
    <3>1. size \in Int /\ size >= 1 /\ size - 1 \in Nat
      BY <2>1, <2>3, RoomForEnd
    <3>2. /\ IsText(First(out, size - 1)) /\ Len(First(out, size - 1)) \in Nat
          /\ Len(First(out, size - 1)) <= size - 1
      BY <2>1, <3>1, FirstIsText, TextLength
    <3>3. CASE pc = "done"
      <4>1. b.mem = First(out, size - 1) \o <<NULL>> /\ ret = Len(out)
        BY <2>3, <3>3 DEF PrintfmtInv, Cut
      <4>2. Len(b.mem) = Len(First(out, size - 1)) + 1
        BY <3>2, <4>1, CharacterIsText, ConcatIsText
      <4>3. Len(b.mem) <= size
        BY <3>1, <3>2, <4>2
      <4> QED
        BY <2>3, <4>1, <4>3 DEF BufferHoldsPrefix, First
    <3>4. CASE pc # "done"
      <4>1. b.mem = First(out, size - 1)
        BY <2>3, <3>4 DEF PrintfmtInv, Cut, Cuts
      <4>2. Len(b.mem) <= size
        BY <3>1, <3>2, <4>1
      <4> QED
        BY <2>3, <3>4, <4>2 DEF BufferHoldsPrefix
    <3> QED
      BY <3>3, <3>4
  <2> QED
    BY <2>2, <2>3
<1> QED
  BY <1>1, PrintfmtInvHolds, PTL

(* The text of a user program, for every size of its buffer.               *)
THEOREM UserTextKept == Spec => []UserTextWhole
<1>1. PrintfmtInv => UserTextWhole
  BY DEF PrintfmtInv, Whole, Collects, UserTextWhole
<1> QED
  BY <1>1, PrintfmtInvHolds, PTL

(* Every format without a conversion and with at most one percent sign.    *)
THEOREM LiteralsKept == Spec => []UnrecognizedAsWritten
<1>1. PrintfmtInv => UnrecognizedAsWritten
  BY DEF PrintfmtInv, Verbatim, Undirected, UnrecognizedAsWritten
<1> QED
  BY <1>1, PrintfmtInvHolds, PTL
=============================================================================
