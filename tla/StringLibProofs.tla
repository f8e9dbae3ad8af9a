--------------------------- MODULE StringLibProofs ---------------------------
(***************************************************************************)
(* What the functions of string.c write and return, for every memory and   *)
(* every call that C defines: moves that overlap in any way and alignment, *)
(* strings of any length.                                                  *)
(***************************************************************************)
EXTENDS StringLib, WellFoundedInduction, TLAPS

-----------------------------------------------------------------------------
(* Induction over the natural numbers.  It speaks of a set, where that of  *)
(* the library has an operator for its parameter.                          *)

(* A set of natural numbers has a least element, so one that holds 0 and   *)
(* each successor holds them all.                                          *)
LEMMA LeastNat ==
  ASSUME NEW T \in SUBSET Nat, T # {}
  PROVE  \E x \in T : \A y \in T : ~(y < x)
<1> DEFINE R == OpToRel(<, Nat)
<1>1. IsWellFoundedOn(R, Nat)
  BY NatLessThanWellFounded
<1>2. \E x \in T : \A y \in T : ~(<<y, x>> \in R)
  <2> HIDE DEF R
  <2> QED
    BY <1>1, WFMin
<1>3. \A x, y \in Nat : y < x => <<y, x>> \in R
  BY DEF OpToRel
<1> QED
  BY <1>2, <1>3

LEMMA SetInduction ==
  ASSUME NEW S, 0 \in S, \A n \in Nat : n \in S => n + 1 \in S
  PROVE  Nat \subseteq S
<1> DEFINE T == Nat \ S
<1> SUFFICES ASSUME T # {} PROVE FALSE
  OBVIOUS
<1>1. PICK x \in T : \A y \in T : ~(y < x)
  BY LeastNat
<1>2. x # 0 /\ x - 1 \in Nat /\ x - 1 \notin T
  BY <1>1
<1> QED
  BY <1>1, <1>2

-----------------------------------------------------------------------------
(* Calls and strings.                                                      *)

LEMMA AddressRange ==
  /\ Base \in Nat /\ Base > 0 /\ Size \in Nat
  /\ \A a \in Address : a \in Nat
  /\ \A a \in Int : a \in Address <=> Base <= a /\ a < Base + Size
BY StringLibAssumption DEF Address

LEMMA CallFacts ==
  ASSUME NEW x \in Calls
  PROVE  /\ x.fn \in Moves \cup Copies \cup Searches \cup {"strtol"}
         /\ x.mem \in [Address -> Byte]
         /\ x.v \in Address /\ x.w \in Address /\ x.c \in Int /\ x.n \in Nat
         /\ x.c % 256 \in Byte
         /\ Defined(x)
<1>1. x \in CallType /\ Defined(x)
  BY StringLibAssumption
<1>2. \A c \in Int : c % 256 \in Byte
  BY DEF Byte
<1> QED
  BY <1>1, <1>2 DEF CallType

(* The string at a of a memory m has the length n.                         *)
StringOf(m, a, n) ==
  /\ n \in Nat /\ a + n \in Address /\ m[a + n] = 0
  /\ \A j \in 0 .. n - 1 : m[a + j] # 0

LEMMA StringEnds ==
  ASSUME NEW m, NEW a \in Address, IsString(m, a)
  PROVE  StringOf(m, a, LengthIn(m, a))
<1> DEFINE T == {e \in Address : a <= e /\ m[e] = 0}
<1>1. T \in SUBSET Nat /\ T # {}
  BY AddressRange DEF IsString
<1>2. PICK e \in T : \A y \in T : ~(y < e)
  BY <1>1, LeastNat
<1>3. \A b \in a .. e - 1 : b \in Address /\ m[b] # 0
  <2>1. a \in Nat /\ e \in Nat /\ e \in Address
    BY AddressRange
  <2>2. \A b \in a .. e - 1 : b \in Address /\ a <= b /\ b < e
    BY <2>1, AddressRange
  <2> QED
    BY <1>2, <2>2
<1>4. PICK f : f = StringEnd(m, a)
  OBVIOUS
<1>5. f \in Address /\ a <= f /\ m[f] = 0 /\ \A b \in a .. f - 1 : m[b] # 0
  BY <1>2, <1>3, <1>4 DEF StringEnd
<1>6. f \in Nat /\ a \in Nat
  BY <1>5, AddressRange
<1>7. LengthIn(m, a) = f - a
  BY <1>4 DEF LengthIn
<1>8. /\ f - a \in Nat /\ a + (f - a) = f
      /\ \A j \in 0 .. (f - a) - 1 : a + j \in a .. f - 1
  BY <1>5, <1>6
<1> QED
  BY <1>5, <1>7, <1>8 DEF StringOf

LEMMA StringUnique ==
  ASSUME NEW m, NEW a \in Address, NEW n, StringOf(m, a, n), NEW i \in Nat,
         \A j \in 0 .. i - 1 : m[a + j] # 0
  PROVE  i <= n /\ (m[a + i] = 0 <=> i = n)
BY AddressRange DEF StringOf

(* The first place of a set.                                               *)
LEMMA FirstAt ==
  ASSUME NEW n \in Nat, NEW S \in SUBSET (0 .. n - 1), NEW i \in 0 .. n,
         \A j \in 0 .. i - 1 : j \notin S, i = n \/ i \in S
  PROVE  First(n, S) = i
<1>1. CASE S = {}
  BY <1>1 DEF First
<1>2. CASE S # {}
  <2>1. i \in S /\ \A j \in S : i <= j
    <3>1. \A j \in S : j \in Nat /\ j < n /\ ~(j < i)
      OBVIOUS
    <3>2. i \in S
      BY <1>2, <3>1
    <3> QED
      BY <3>1, <3>2
  <2>2. PICK f : f = First(n, S)
    OBVIOUS
  <2>3. f = CHOOSE l \in S : \A j \in S : l <= j
    BY <1>2, <2>2 DEF First
  <2>4. f \in S /\ \A j \in S : f <= j
    BY <2>1, <2>3
  <2>5. f <= i /\ i <= f /\ f \in Nat /\ i \in Nat
    BY <2>1, <2>4
  <2> QED
    BY <2>2, <2>5
<1> QED
  BY <1>1, <1>2

-----------------------------------------------------------------------------
(* The inductive invariant.                                                *)

Typed ==
  /\ call \in Calls /\ mem = [a \in Address |-> mem[a]] /\ df \in BOOLEAN
  /\ p \in Int /\ q \in Int /\ k \in Int /\ unit \in {1, 4}
  /\ pc \in {"call", "rep", "copy", "digit", "done"}
  /\ pc # "rep" => df = FALSE
  /\ pc = "rep" => Is(Moves)
  /\ pc = "copy" => Is({"strcat"})
  /\ pc = "digit" => Is({"strtol"})

(* Nothing has happened yet.                                               *)
Waiting == p = call.v /\ q = call.w /\ k = call.n /\ mem = call.mem

(* The string instructions have k units before them: the last ones of the  *)
(* destination, or the first ones if they move backwards.  What they have  *)
(* moved is what the source held.                                          *)
Moved(a) == IF df THEN call.v + k * unit <= a /\ a < call.v + call.n
            ELSE call.v <= a /\ a < p
Origin(a) == IF Is({"memset"}) THEN CharArg ELSE call.mem[call.w + (a - call.v)]
Moving ==
  /\ pc = "call" /\ Is(Moves) => Waiting
  /\ pc = "rep" =>
       /\ k \in Nat /\ k * unit <= call.n
       /\ p = IF df THEN call.v + k * unit - unit ELSE call.v + call.n - k * unit
       /\ Is({"memset"}) => df = FALSE
       /\ Is({"memmove", "memcpy"}) =>
            /\ q - p = call.w - call.v
            /\ df = TRUE <=> Backwards(call.w, call.v, call.n)
       /\ \A a \in Address : mem[a] = IF Moved(a) THEN Origin(a) ELSE call.mem[a]

(* The copies of strings: the source has SrcLen characters, the copy goes  *)
(* to Dest, and the first n bytes of it are there.                         *)
SrcLen(x) == LengthIn(x.mem, x.w)
Dest(x)   == IF x.fn = "strcat" THEN x.v + LengthIn(x.mem, x.v) ELSE x.v
Put(m, x, n, len) ==
  \A a \in Address :
    m[a] = IF Dest(x) <= a /\ a < Dest(x) + n
           THEN IF a - Dest(x) < len THEN x.mem[x.w + (a - Dest(x))] ELSE 0
           ELSE x.mem[a]

(* i bytes are copied, and as many characters of the source read; strncpy  *)
(* reads the zero at its end over and over.                                *)
CopiedSoFar(x, m, b, r, i) ==
  /\ i \in Nat /\ b = x.w + Lower(i, SrcLen(x))
  /\ Put(m, x, i, SrcLen(x))
  /\ x.fn # "strncpy" => i <= SrcLen(x)
  /\ x.fn \in {"strncpy", "strlcpy"} => r = x.n - i /\ r \in Nat
  /\ x.fn = "strlcpy" /\ x.n > 0 => r > 0
Copying ==
  /\ pc = "call" /\ Is({"strcat"}) =>
       /\ q = call.w /\ mem = call.mem /\ p - call.v \in Nat
       /\ \A j \in 0 .. p - call.v - 1 : mem[call.v + j] # 0
  /\ pc = "copy" \/ (pc = "call" /\ Is({"strcpy", "strncpy", "strlcpy"})) =>
       CopiedSoFar(call, mem, q, k, p - Dest(call))

(* The first i bytes were none to stop at.                                 *)
Passed(x, i) ==
  /\ i \in Nat
  /\ x.fn \in {"strlen", "strnlen", "strchr", "strfind", "strcmp", "strncmp"} =>
       \A j \in 0 .. i - 1 : x.mem[x.v + j] # 0
  /\ x.fn \in {"strchr", "strfind", "memfind"} =>
       \A j \in 0 .. i - 1 : x.mem[x.v + j] # x.c % 256
  /\ x.fn \in {"strcmp", "strncmp", "memcmp"} =>
       \A j \in 0 .. i - 1 : x.mem[x.v + j] = x.mem[x.w + j]
  /\ x.fn \in {"strnlen", "memfind", "strncmp", "memcmp"} => i <= x.n
Searching ==
  pc = "call" /\ Is(Searches) =>
    /\ mem = call.mem /\ q = call.w + (p - call.v) /\ k = call.n - (p - call.v)
    /\ Passed(call, p - call.v)

-----------------------------------------------------------------------------
(* Types.                                                                  *)

LEMMA TypedInit == Init => Typed
<1> SUFFICES ASSUME Init PROVE Typed
  OBVIOUS
<1>1. call \in Calls
  BY DEF Init
<1>2. call.v \in Int /\ call.w \in Int /\ call.n \in Int /\ call.mem \in [Address -> Byte]
  BY <1>1, CallFacts, AddressRange
<1>3. mem = [a \in Address |-> mem[a]]
  BY <1>2 DEF Init
<1> QED
  BY <1>1, <1>2, <1>3 DEF Init, Typed

LEMMA StoreTyped ==
  ASSUME NEW m, m = [a \in Address |-> m[a]], NEW x, NEW b, NEW t, t = [m EXCEPT ![x] = b]
  PROVE  /\ t = [a \in Address |-> t[a]]
         /\ \A a \in Address : t[a] = IF a = x THEN b ELSE m[a]
OBVIOUS

LEMMA DivTyped ==
  ASSUME NEW i \in Int, NEW u \in {1, 4}
  PROVE  i \div u \in Int
OBVIOUS

LEMMA DivExact ==
  ASSUME NEW n \in Nat, NEW u \in {1, 4}, u = 4 => n % 4 = 0
  PROVE  n \div u \in Nat /\ (n \div u) * u = n
OBVIOUS

LEMMA TypedNext == Typed /\ [Next]_vars => Typed'
<1> SUFFICES ASSUME Typed, [Next]_vars PROVE Typed'
  OBVIOUS
<1> USE DEF Typed, Is, Moves
<1>1. CASE memmove
  <2> DEFINE back == Backwards(q, p, k)
             from == IF back THEN q + k ELSE q
             to   == IF back THEN p + k ELSE p
             u    == IF Words({from, to}, k) THEN 4 ELSE 1
  <2>1. /\ df' = back /\ unit' = u /\ k' = k \div u
        /\ p' = IF back THEN to - u ELSE to
        /\ q' = IF back THEN from - u ELSE from
        /\ pc' = "rep" /\ call' = call /\ mem' = mem
    BY <1>1 DEF memmove
  <2>2. u \in {1, 4} /\ from \in Int /\ to \in Int
    OBVIOUS
  <2>3. back \in BOOLEAN
    BY DEF Backwards
  <2>6. Is(Moves)
    BY <1>1 DEF memmove
  <2> HIDE DEF u, from, to, back
  <2>4. k' \in Int
    BY <2>1, <2>2, DivTyped
  <2>5. p' \in Int /\ q' \in Int
    BY <2>1, <2>2
  <2> QED
    BY <2>1, <2>2, <2>3, <2>4, <2>5, <2>6
<1>2. CASE memset
  <2>1. /\ call' = call /\ mem' = mem /\ df' = df /\ p' = p /\ q' = q
        /\ pc = "call"
    BY <1>2 DEF memset
  <2>2. CASE k = 0
    BY <1>2, <2>1, <2>2 DEF memset, Return
  <2>3. CASE k # 0
    <3>1. unit' \in {1, 4} /\ k' = k \div unit' /\ pc' = "rep"
      BY <1>2, <2>3 DEF memset
    <3>2. k' \in Int
      BY <3>1, DivTyped
    <3>3. Is(Moves)
      BY <1>2 DEF memset
    <3> QED
      BY <2>1, <3>1, <3>2, <3>3
  <2> QED
    BY <2>2, <2>3
<1>3. CASE rep
  <2>1. p' \in Int /\ q' \in Int /\ k' \in Int
    BY <1>3 DEF rep
  <2> QED
    BY <1>3, <2>1 DEF rep
<1>4. CASE repEnds
  BY <1>4 DEF repEnds, Return
<1>5. CASE strcat
  BY <1>5 DEF strcat
<1>6. CASE strlcpy
  <2>1. mem' = [a \in Address |-> mem'[a]]
    BY <1>6, StoreTyped DEF strlcpy, Store
  <2> QED
    BY <1>6, <2>1 DEF strlcpy, Return
<1>7. CASE strncpy
  <2>1. mem' = [a \in Address |-> mem'[a]]
    BY <1>7, StoreTyped DEF strncpy, Store
  <2> QED
    BY <1>7, <2>1 DEF strncpy, Return
<1>8. CASE strcpy
  <2>1. mem' = [a \in Address |-> mem'[a]]
    BY <1>8, StoreTyped DEF strcpy, Store
  <2> QED
    BY <1>8, <2>1 DEF strcpy, Return
<1>9. ASSUME NEW fn, NEW goes, NEW value, Scan(fn, goes, value) PROVE Typed'
  BY <1>9 DEF Scan, Return
<1>10. CASE strtol
  BY <1>10 DEF strtol
<1>11. CASE digit
  BY <1>11 DEF digit, Return
<1>12. CASE UNCHANGED vars
  BY <1>12 DEF vars
<1> QED
  BY <1>1, <1>2, <1>3, <1>4, <1>5, <1>6, <1>7, <1>8, <1>9, <1>10, <1>11, <1>12
     DEF Next, strlen, strnlen, strchr, strfind, memfind, strcmp, strncmp, memcmp

-----------------------------------------------------------------------------
(* memmove and memset.                                                     *)

MovesDone ==
  pc = "done" /\ Is(Moves) =>
    /\ ret = call.v
    /\ \A a \in Address :
         mem[a] = IF call.v <= a /\ a < call.v + call.n THEN Origin(a) ELSE call.mem[a]

LEMMA MovesSteps ==
  ASSUME Typed, Is(Moves), [Next]_vars
  PROVE  memmove \/ memset \/ rep \/ repEnds \/ UNCHANGED vars
<1>1. call.fn \notin Copies /\ call.fn \notin Searches /\ call.fn # "strtol"
      /\ pc # "copy" /\ pc # "digit"
  BY DEF Typed, Is, Moves, Copies, Searches
<1>2. ~strcat /\ ~strlcpy /\ ~strncpy /\ ~strcpy
  BY <1>1 DEF strcat, strlcpy, strncpy, strcpy, Is, Copies
<1>3. ~strlen /\ ~strnlen /\ ~strchr /\ ~strfind /\ ~memfind /\ ~strcmp /\ ~strncmp /\ ~memcmp
  BY <1>1 DEF strlen, strnlen, strchr, strfind, memfind, strcmp, strncmp, memcmp, Scan, Is, Searches
<1>4. ~strtol /\ ~digit
  BY <1>1 DEF strtol, digit, Is
<1> QED
  BY <1>2, <1>3, <1>4 DEF Next

LEMMA CallStays == [Next]_vars => call' = call
BY DEF Next, vars, memmove, memset, rep, repEnds, strcat, strlcpy, strncpy, strcpy,
       strlen, strnlen, strchr, strfind, memfind, strcmp, strncmp, memcmp, Scan, strtol, digit

(* memmove chooses the direction and the unit.                             *)
LEMMA MemmoveStep ==
  ASSUME Typed, Moving, memmove
  PROVE  Moving' /\ MovesDone'
<1> DEFINE back == Backwards(q, p, k)
           from == IF back THEN q + k ELSE q
           to   == IF back THEN p + k ELSE p
           u    == IF Words({from, to}, k) THEN 4 ELSE 1
<1>1. /\ df' = back /\ unit' = u /\ k' = k \div u
      /\ p' = IF back THEN to - u ELSE to
      /\ q' = IF back THEN from - u ELSE from
      /\ pc' = "rep" /\ call' = call /\ mem' = mem /\ Is({"memmove", "memcpy"}) /\ pc = "call"
  BY DEF memmove
<1>2. p = call.v /\ q = call.w /\ k = call.n /\ mem = call.mem
  BY <1>1 DEF Moving, Waiting, Is, Moves
<1>3. call.v \in Nat /\ call.w \in Nat /\ call.n \in Nat
  BY CallFacts, AddressRange DEF Typed
<1>4. (k \div u) \in Nat /\ (k \div u) * u = k
  <2>1. u = 4 => k % 4 = 0
    BY DEF Words
  <2>2. u \in {1, 4} /\ k \in Nat
    BY <1>2, <1>3
  <2> HIDE DEF u
  <2> QED
    BY <2>1, <2>2, DivExact
<1>5. u \in {1, 4} /\ back \in BOOLEAN
  BY DEF Backwards
<1>6. back <=> Backwards(call.w, call.v, call.n)
  BY <1>2
<1>7. p' - q' = p - q /\ p' = IF back THEN call.v + k - u ELSE call.v
  BY <1>1, <1>2, <1>3, <1>5
<1> HIDE DEF u, back, from, to
<1>8. k' \in Nat /\ k' * unit' = k /\ k' * unit' <= call.n
  BY <1>1, <1>2, <1>3, <1>4
<1>9. /\ p' = IF df' THEN call.v + k' * unit' - unit' ELSE call.v + call.n - k' * unit'
      /\ q' - p' = call.w - call.v
  BY <1>1, <1>2, <1>3, <1>5, <1>7, <1>8
<1>10. df' = TRUE <=> Backwards(call'.w, call'.v, call'.n)
  BY <1>1, <1>5, <1>6
<1>11. ASSUME NEW a \in Address PROVE ~Moved(a)'
  <2>1. a \in Nat
    BY AddressRange
  <2>2. CASE df'
    BY <1>1, <1>2, <1>3, <1>8, <2>1, <2>2 DEF Moved
  <2>3. CASE ~df'
    BY <1>1, <1>2, <1>3, <1>7, <2>1, <2>3 DEF Moved
  <2> QED
    BY <2>2, <2>3
<1>12. ~Is({"memset"})'
  BY <1>1 DEF Is
<1> QED
  BY <1>1, <1>2, <1>8, <1>9, <1>10, <1>11, <1>12 DEF Moving, MovesDone

LEMMA MemsetStep ==
  ASSUME Typed, Moving, memset
  PROVE  Moving' /\ MovesDone'
<1>1. /\ pc = "call" /\ Is({"memset"}) /\ call' = call /\ mem' = mem /\ df' = df
      /\ p' = p /\ q' = q
  BY DEF memset
<1>2. /\ p = call.v /\ k = call.n /\ mem = call.mem /\ df = FALSE
      /\ call.v \in Nat /\ call.n \in Nat
  BY <1>1, CallFacts, AddressRange DEF Typed, Moving, Waiting, Is, Moves
<1>3. CASE k = 0
  <2>1. pc' = "done" /\ ret' = call.v
    BY <1>3 DEF memset, Return
  <2>2. \A a \in Address : ~(call.v <= a /\ a < call.v + call.n)
    BY <1>2, <1>3, AddressRange
  <2> QED
    BY <1>1, <1>2, <2>1, <2>2 DEF Moving, MovesDone
<1>4. CASE k # 0
  <2>1. PICK u \in {1, 4} : u = IF Words({p}, k) THEN 4 ELSE 1
    OBVIOUS
  <2>2. unit' = u /\ k' = k \div u /\ pc' = "rep"
    BY <1>4, <2>1 DEF memset
  <2>3. u = 4 => k % 4 = 0
    BY <2>1 DEF Words
  <2>4. k' \in Nat /\ k' * unit' = k
    BY <1>2, <2>2, <2>3, DivExact
  <2>5. p' = IF df' THEN call.v + k' * unit' - unit' ELSE call.v + call.n - k' * unit'
    BY <1>1, <1>2, <2>4
  <2>6. \A a \in Address : ~Moved(a)'
    BY <1>1, <1>2, AddressRange DEF Moved
  <2>7. ~Is({"memmove", "memcpy"})'
    BY <1>1 DEF Is
  <2>8. \A a \in Address : mem'[a] = IF Moved(a)' THEN Origin(a)' ELSE call'.mem[a]
    BY <1>1, <1>2, <2>6
  <2>9. k' * unit' <= call'.n
    BY <1>1, <1>2, <2>4
  <2> QED
    BY <1>1, <1>2, <2>2, <2>4, <2>5, <2>7, <2>8, <2>9 DEF Moving, MovesDone
<1> QED
  BY <1>3, <1>4

(* A unit is read before it is written over: forwards, the source is not   *)
(* behind the destination, or ends before it; backwards, it is behind.     *)
LEMMA RepStep ==
  ASSUME Typed, Moving, rep
  PROVE  Moving' /\ MovesDone'
<1>1. /\ pc = "rep" /\ k > 0 /\ k' = k - 1 /\ pc' = "rep"
      /\ call' = call /\ df' = df /\ unit' = unit
  BY DEF rep
<1>2. PICK v, w, n, u, d \in Nat :
        v = call.v /\ w = call.w /\ n = call.n /\ u = unit /\ d = k * unit
  <2>1. call.v \in Nat /\ call.w \in Nat /\ call.n \in Nat
    BY CallFacts, AddressRange DEF Typed
  <2>2. unit \in Nat /\ k * unit \in Nat
    BY <1>1 DEF Typed, Moving
  <2> QED
    BY <2>1, <2>2
<1>3. k' \in Nat /\ k' * unit' = d - u /\ d - u \in Nat /\ d <= n /\ u > 0
  <2>1. unit = 1 \/ unit = 4
    BY DEF Typed
  <2>2. k \in Nat /\ k > 0 /\ d <= n
    BY <1>1, <1>2 DEF Moving
  <2>3. (k - 1) * 1 = k * 1 - 1 /\ (k - 1) * 4 = k * 4 - 4 /\ k * 4 >= 4 /\ k * 1 >= 1
    BY <2>2
  <2> QED
    BY <1>1, <1>2, <2>1, <2>2, <2>3
<1>4. CASE df = TRUE
  <2>1. p = v + d - u /\ p' = v + (d - u) - u /\ Is({"memmove", "memcpy"})
    <3>1. p = v + d - u /\ ~Is({"memset"})
      BY <1>1, <1>2, <1>4 DEF Moving
    <3>2. p' = p - u
      BY <1>2, <1>4 DEF rep
    <3>3. Is({"memmove", "memcpy"})
      BY <1>1, <3>1 DEF Typed, Is, Moves
    <3> QED
      BY <1>3, <3>1, <3>2, <3>3
  <2>2. q = p + w - v /\ q' = p' + w - v /\ w < v
    <3>1. q - p = w - v /\ w < v
      BY <1>1, <1>2, <1>4, <2>1 DEF Moving, Backwards
    <3>2. q' = q - u /\ p' = p - u /\ p \in Int /\ q \in Int
      BY <1>2, <1>4 DEF rep, Typed
    <3> QED
      BY <3>1, <3>2
  <2>3. ASSUME NEW a \in Address
        PROVE  mem'[a] = IF Moved(a)' THEN Origin(a)' ELSE call'.mem[a]
    <3>1. a \in Nat /\ (Moved(a) <=> v + d <= a /\ a < v + n)
      BY <1>2, <1>4, AddressRange DEF Moved
    <3>2. Moved(a)' <=> v + (d - u) <= a /\ a < v + n
      BY <1>1, <1>2, <1>3, <1>4 DEF Moved
    <3>3. mem'[a] = IF p <= a /\ a <= p + u - 1 THEN mem[q + a - p] ELSE mem[a]
      BY <1>2, <2>1, <3>1 DEF rep, Is, Typed
    <3>4. Origin(a) = call.mem[w + (a - v)] /\ Origin(a)' = Origin(a)
      BY <1>1, <1>2, <2>1 DEF Origin, Is
    <3>5. mem[a] = IF Moved(a) THEN Origin(a) ELSE call.mem[a]
      BY <1>1 DEF Moving
    <3>6. CASE p <= a /\ a <= p + u - 1
      <4>1. PICK b \in Int : b = w + (a - v) /\ q + a - p = b
        BY <2>1, <2>2, <3>1
      <4>2. /\ v + (d - u) <= a /\ a < v + n
            /\ w <= b /\ b < v + d
        BY <1>3, <2>1, <2>2, <3>1, <3>6, <4>1
      <4>3. b \in Address
        <5>1. w \in Address /\ a \in Address /\ a >= b
          BY <1>2, <2>2, <3>1, <4>1, CallFacts DEF Typed
        <5> QED
          BY <4>2, <5>1, AddressRange
      <4>4. ~Moved(b)
        BY <1>2, <1>4, <4>2 DEF Moved
      <4>5. mem[b] = call.mem[b]
        BY <1>1, <4>3, <4>4 DEF Moving
      <4> QED
        BY <3>2, <3>3, <3>4, <3>6, <4>1, <4>2, <4>5
    <3>7. CASE ~(p <= a /\ a <= p + u - 1)
      <4>1. v + (d - u) <= a <=> v + d <= a
        BY <1>3, <2>1, <3>1, <3>7
      <4> QED
        BY <1>1, <3>1, <3>2, <3>3, <3>4, <3>5, <3>7, <4>1
    <3> QED
      BY <3>6, <3>7
  <2>4. ~Is({"memset"})' /\ (Is({"memmove", "memcpy"})' => Is({"memmove", "memcpy"}))
    BY <1>1, <2>1 DEF Is
  <2>5. df = TRUE <=> Backwards(call.w, call.v, call.n)
    BY <1>1, <2>1 DEF Moving
  <2>6. q' - p' = w - v
    BY <1>3, <2>1, <2>2
  <2> QED
    BY <1>1, <1>2, <1>3, <1>4, <2>1, <2>3, <2>4, <2>5, <2>6 DEF Moving, MovesDone
<1>5. CASE df = FALSE
  <2>1. p = v + n - d /\ p' = v + n - (d - u)
    <3>1. p = v + n - d
      BY <1>1, <1>2, <1>5 DEF Moving
    <3>2. p' = p + u
      BY <1>2, <1>5 DEF rep
    <3> QED
      BY <1>3, <3>1, <3>2
  <2>2. Is({"memmove", "memcpy"}) =>
          /\ q = p + w - v /\ q' = p' + w - v /\ (w >= v \/ w + n <= v)
          /\ w + n <= Base + Size
    <3> SUFFICES ASSUME Is({"memmove", "memcpy"})
                 PROVE  /\ q = p + w - v /\ q' = p' + w - v /\ (w >= v \/ w + n <= v)
                        /\ w + n <= Base + Size
      OBVIOUS
    <3>1. q - p = w - v /\ ~Backwards(w, v, n)
      BY <1>1, <1>2, <1>5 DEF Moving
    <3>2. q' = q + u /\ p' = p + u /\ p \in Int /\ q \in Int
      BY <1>2, <1>5 DEF rep, Typed
    <3>3. w + n <= Base + Size
      BY <1>2, CallFacts DEF Defined, Is, Typed
    <3> QED
      BY <3>1, <3>2, <3>3 DEF Backwards
  <2>3. ASSUME NEW a \in Address
        PROVE  mem'[a] = IF Moved(a)' THEN Origin(a)' ELSE call'.mem[a]
    <3>1. a \in Nat /\ (Moved(a) <=> v <= a /\ a < p)
      BY <1>2, <1>5, AddressRange DEF Moved
    <3>2. Moved(a)' <=> v <= a /\ a < p'
      BY <1>1, <1>2, <1>5 DEF Moved
    <3>3. mem'[a] = IF p <= a /\ a <= p + u - 1
                    THEN IF Is({"memset"}) THEN CharArg ELSE mem[q + a - p]
                    ELSE mem[a]
      BY <1>2, <2>1, <3>1 DEF rep, Typed
    <3>4. Origin(a)' = Origin(a)
      BY <1>1 DEF Origin, Is, CharArg
    <3>5. mem[a] = IF Moved(a) THEN Origin(a) ELSE call.mem[a]
      BY <1>1 DEF Moving
    <3>6. CASE p <= a /\ a <= p + u - 1
      <4>1. v <= a /\ a < p' /\ a < v + n
        BY <1>3, <2>1, <3>1, <3>6
      <4>2. CASE Is({"memset"})
        BY <3>2, <3>3, <3>4, <3>6, <4>1, <4>2 DEF Origin
      <4>3. CASE ~Is({"memset"})
        <5>1. Is({"memmove", "memcpy"})
          BY <1>1, <4>3 DEF Typed, Is, Moves
        <5>2. PICK b \in Int : b = w + (a - v) /\ q + a - p = b
          BY <2>1, <2>2, <3>1, <5>1
        <5>3. b >= w /\ b < w + n
          BY <3>1, <4>1, <5>2
        <5>4. b \in Address
          <6>1. w \in Address
            BY <1>2, CallFacts DEF Typed
          <6> QED
            BY <2>2, <5>1, <5>3, <6>1, AddressRange
        <5>5. ~(v <= b /\ b < p)
          BY <2>1, <2>2, <3>1, <3>6, <5>1, <5>2, <5>3
        <5>6. mem[b] = call.mem[b]
          BY <1>1, <1>2, <1>5, <5>4, <5>5 DEF Moving, Moved
        <5>7. Origin(a) = call.mem[b]
          BY <1>2, <4>3, <5>2 DEF Origin
        <5> QED
          BY <3>2, <3>3, <3>4, <3>6, <4>1, <4>3, <5>2, <5>6, <5>7
      <4> QED
        BY <4>2, <4>3
    <3>7. CASE ~(p <= a /\ a <= p + u - 1)
      <4>1. a < p <=> a < p'
        BY <1>3, <2>1, <3>1, <3>7
      <4> QED
        BY <1>1, <3>1, <3>2, <3>3, <3>4, <3>5, <3>7, <4>1
    <3> QED
      BY <3>6, <3>7
  <2>4. (Is({"memmove", "memcpy"})' <=> Is({"memmove", "memcpy"}))
    BY <1>1 DEF Is
  <2>5. Is({"memmove", "memcpy"}) => (df = TRUE <=> Backwards(call.w, call.v, call.n))
    BY <1>1 DEF Moving
  <2>6. Is({"memmove", "memcpy"}) => q' - p' = w - v
    BY <1>3, <2>1, <2>2
  <2> QED
    BY <1>1, <1>2, <1>3, <1>5, <2>1, <2>3, <2>4, <2>5, <2>6 DEF Moving, MovesDone
<1> QED
  BY <1>4, <1>5 DEF Typed

LEMMA RepEndsStep ==
  ASSUME Typed, Moving, repEnds
  PROVE  Moving' /\ MovesDone'
<1>1. /\ pc = "rep" /\ k = 0 /\ pc' = "done" /\ ret' = call.v
      /\ call' = call /\ mem' = mem
  BY DEF repEnds, Return
<1>2. call.v \in Nat /\ call.n \in Nat /\ k * unit = 0
  BY <1>1, CallFacts, AddressRange DEF Typed
<1>3. ASSUME NEW a \in Address PROVE Moved(a) <=> call.v <= a /\ a < call.v + call.n
  <2>1. a \in Nat
    BY AddressRange
  <2>2. df = FALSE => p = call.v + call.n
    BY <1>1, <1>2 DEF Moving
  <2> QED
    BY <1>2, <2>1, <2>2 DEF Moved, Typed
<1>4. \A a \in Address : Origin(a)' = Origin(a)
  BY <1>1 DEF Origin, Is, CharArg
<1>5. \A a \in Address : mem[a] = IF Moved(a) THEN Origin(a) ELSE call.mem[a]
  BY <1>1 DEF Moving
<1> QED
  BY <1>1, <1>3, <1>4, <1>5 DEF Moving, MovesDone

MovesInv == Typed /\ Moving /\ MovesDone

LEMMA MovesNext == MovesInv /\ [Next]_vars => MovesInv'
<1> SUFFICES ASSUME MovesInv, [Next]_vars PROVE MovesInv'
  OBVIOUS
<1>1. Typed' /\ call' = call
  BY TypedNext, CallStays DEF MovesInv
<1>2. CASE ~Is(Moves)
  <2>1. ~Is(Moves)' /\ pc' # "rep"
    BY <1>1, <1>2 DEF Is, Typed
  <2> QED
    BY <1>1, <2>1 DEF MovesInv, Moving, MovesDone
<1>3. CASE Is(Moves)
  <2>1. CASE UNCHANGED vars
    BY <1>1, <2>1 DEF MovesInv, Moving, MovesDone, Waiting, Moved, Origin, Is, CharArg, vars
  <2> QED
    BY <1>1, <1>3, <2>1, MovesSteps, MemmoveStep, MemsetStep, RepStep, RepEndsStep DEF MovesInv
<1> QED
  BY <1>2, <1>3

(* The invariant says what MovesOK says.                                   *)
LEMMA MovesMeans == MovesInv => MovesOK
<1> SUFFICES ASSUME MovesInv PROVE MovesOK
  OBVIOUS
<1>1. call.v \in Nat /\ call.n \in Nat
  BY CallFacts, AddressRange DEF MovesInv, Typed
<1>2. pc # "rep" => ~df
  BY DEF MovesInv, Typed
<1>3. ASSUME Done({"memmove", "memcpy"})
      PROVE  /\ ret = call.v
             /\ Holds(call.v, call.n, [i \in 0 .. call.n - 1 |-> call.mem[call.w + i]])
  <2>1. pc = "done" /\ Is(Moves) /\ ~Is({"memset"})
    BY <1>3 DEF Done, Is, Moves
  <2>2. ASSUME NEW a \in Address
        PROVE  mem[a] = IF a \in call.v .. call.v + call.n - 1
                        THEN [i \in 0 .. call.n - 1 |-> call.mem[call.w + i]][a - call.v]
                        ELSE call.mem[a]
    <3>1. a \in Nat /\ (call.v <= a /\ a < call.v + call.n <=> a \in call.v .. call.v + call.n - 1)
      BY <1>1, AddressRange
    <3>2. mem[a] = IF call.v <= a /\ a < call.v + call.n THEN Origin(a) ELSE call.mem[a]
      BY <2>1 DEF MovesInv, MovesDone
    <3>3. Origin(a) = call.mem[call.w + (a - call.v)]
      BY <2>1 DEF Origin
    <3>4. a \in call.v .. call.v + call.n - 1 => a - call.v \in 0 .. call.n - 1
      BY <1>1, <3>1
    <3> QED
      BY <3>1, <3>2, <3>3, <3>4
  <2> QED
    BY <2>1, <2>2 DEF MovesInv, MovesDone, Holds
<1>4. ASSUME Done({"memset"})
      PROVE  ret = call.v /\ Holds(call.v, call.n, [i \in 0 .. call.n - 1 |-> CharArg])
  <2>1. pc = "done" /\ Is(Moves) /\ Is({"memset"})
    BY <1>4 DEF Done, Is, Moves
  <2>2. ASSUME NEW a \in Address
        PROVE  mem[a] = IF a \in call.v .. call.v + call.n - 1
                        THEN [i \in 0 .. call.n - 1 |-> CharArg][a - call.v]
                        ELSE call.mem[a]
    <3>1. a \in Nat /\ (call.v <= a /\ a < call.v + call.n <=> a \in call.v .. call.v + call.n - 1)
      BY <1>1, AddressRange
    <3>2. mem[a] = IF call.v <= a /\ a < call.v + call.n THEN CharArg ELSE call.mem[a]
      BY <2>1 DEF MovesInv, MovesDone, Origin
    <3>3. a \in call.v .. call.v + call.n - 1 => a - call.v \in 0 .. call.n - 1
      BY <1>1, <3>1
    <3> QED
      BY <3>1, <3>2, <3>3
  <2> QED
    BY <2>1, <2>2 DEF MovesInv, MovesDone, Holds
<1> QED
  BY <1>2, <1>3, <1>4 DEF MovesOK

(* What memmove, memcpy and memset write, for every overlap, size and      *)
(* alignment.                                                              *)
THEOREM MovesCorrect == Spec => []MovesOK
<1>1. Init => MovesInv
  <2>1. Init => Moving /\ MovesDone
    BY DEF Init, Moving, MovesDone, Waiting
  <2> QED
    BY <2>1, TypedInit DEF MovesInv
<1> QED
  BY <1>1, MovesNext, MovesMeans, PTL DEF Spec

-----------------------------------------------------------------------------
(* The copies of strings.                                                  *)

Copy(x, m, r) ==
  /\ x.fn \in {"strcpy", "strcat"} => r = x.v /\ Put(m, x, SrcLen(x) + 1, SrcLen(x))
  /\ x.fn = "strncpy" => r = x.v /\ Put(m, x, x.n, SrcLen(x))
  /\ x.fn = "strlcpy" =>
       IF x.n = 0 THEN r = 0 /\ m = x.mem
       ELSE /\ r = Lower(x.n - 1, SrcLen(x))
            /\ Put(m, x, Lower(x.n - 1, SrcLen(x)) + 1, Lower(x.n - 1, SrcLen(x)))
CopiesDone == pc = "done" /\ Is(Copies) => Copy(call, mem, ret)

LEMMA CopyFacts ==
  ASSUME NEW x \in Calls, x.fn \in Copies
  PROVE  /\ StringOf(x.mem, x.w, SrcLen(x))
         /\ Dest(x) \in Address /\ Dest(x) \notin x.w + 1 .. x.w + SrcLen(x)
         /\ x.fn \in {"strcpy", "strcat"} => Dest(x) + SrcLen(x) + 1 <= Base + Size
         /\ x.fn # "strcat" => Dest(x) = x.v
         /\ x.fn \in {"strncpy", "strlcpy"} => x.v + x.n <= Base + Size
         /\ x.fn = "strcat" => StringOf(x.mem, x.v, LengthIn(x.mem, x.v))
                               /\ Dest(x) = x.v + LengthIn(x.mem, x.v)
<1>1. Defined(x) /\ x.v \in Address /\ x.w \in Address /\ x.n \in Nat
  BY CallFacts
<1>2. IsString(x.mem, x.w)
  BY <1>1 DEF Defined
<1>3. StringOf(x.mem, x.w, SrcLen(x))
  BY <1>1, <1>2, StringEnds DEF SrcLen
<1>4. CASE x.fn = "strcat"
  <2>1. StringOf(x.mem, x.v, LengthIn(x.mem, x.v))
    BY <1>1, <1>4, StringEnds DEF Defined
  <2>2. Dest(x) = x.v + LengthIn(x.mem, x.v) /\ Dest(x) \in Address
    BY <1>4, <2>1 DEF Dest, StringOf
  <2>3. /\ Dest(x) \notin x.w + 1 .. x.w + SrcLen(x)
        /\ Dest(x) + (SrcLen(x) + 1) <= Base + Size
    BY <1>1, <1>4, <2>2 DEF Defined, SrcLen
  <2>4. Dest(x) \in Nat /\ SrcLen(x) \in Nat
    BY <1>3, <2>2, AddressRange DEF StringOf
  <2> QED
    BY <1>3, <1>4, <2>1, <2>2, <2>3, <2>4
<1>5. CASE x.fn # "strcat"
  <2>1. Dest(x) = x.v /\ x.fn \in {"strcpy", "strncpy", "strlcpy"}
    BY <1>5 DEF Dest, Copies
  <2>2. /\ Dest(x) \notin x.w + 1 .. x.w + SrcLen(x)
        /\ x.fn = "strcpy" => Dest(x) + (SrcLen(x) + 1) <= Base + Size
        /\ x.fn \in {"strncpy", "strlcpy"} => x.v + x.n <= Base + Size
    BY <1>1, <2>1 DEF Defined, SrcLen
  <2>3. Dest(x) \in Nat /\ SrcLen(x) \in Nat
    BY <1>1, <1>3, <2>1, AddressRange DEF StringOf
  <2> QED
    BY <1>1, <1>3, <1>5, <2>1, <2>2, <2>3
<1> QED
  BY <1>4, <1>5

(* What is read next is what the source held when the function was called: *)
(* the copy has not reached it, or has put the same zero there.            *)
LEMMA SourceIntact ==
  ASSUME NEW x \in Calls, x.fn \in Copies, NEW m, NEW i \in Nat,
         Put(m, x, i, SrcLen(x))
  PROVE  m[x.w + Lower(i, SrcLen(x))] = IF i < SrcLen(x) THEN x.mem[x.w + i] ELSE 0
<1>1. PICK len \in Nat : len = SrcLen(x) /\ StringOf(x.mem, x.w, len)
  BY CopyFacts DEF StringOf
<1>2. PICK to \in Nat : to = Dest(x) /\ to \notin x.w + 1 .. x.w + len
  BY <1>1, CopyFacts, AddressRange
<1>3. x.w \in Nat /\ x.w \in Address
  BY CallFacts, AddressRange
<1>4. PICK l \in Nat : l = Lower(i, len) /\ l <= i /\ l <= len /\ (l = i \/ (l = len /\ len < i))
  BY DEF Lower
<1>5. x.w + l \in Address
  BY <1>1, <1>3, <1>4, AddressRange DEF StringOf
<1>6. m[x.w + l] = IF to <= x.w + l /\ x.w + l < to + i
                   THEN IF (x.w + l) - to < len THEN x.mem[x.w + ((x.w + l) - to)] ELSE 0
                   ELSE x.mem[x.w + l]
  BY <1>1, <1>2, <1>5 DEF Put
<1>7. CASE to <= x.w + l /\ x.w + l < to + i
  <2>1. to <= x.w
    BY <1>2, <1>3, <1>4, <1>7
  <2>2. l = len /\ len < i /\ ~((x.w + l) - to < len)
    BY <1>3, <1>4, <1>7, <2>1
  <2> QED
    BY <1>1, <1>4, <1>6, <1>7, <2>2
<1>8. CASE ~(to <= x.w + l /\ x.w + l < to + i)
  <2>1. x.mem[x.w + l] = IF i < len THEN x.mem[x.w + i] ELSE 0
    BY <1>1, <1>4 DEF StringOf
  <2> QED
    BY <1>1, <1>4, <1>6, <1>8, <2>1
<1> QED
  BY <1>7, <1>8

(* One byte more.                                                          *)
LEMMA PutNext ==
  ASSUME NEW x \in Calls, x.fn \in Copies, NEW i \in Nat, NEW len \in Nat, NEW m, NEW t,
         Put(m, x, i, len),
         \A a \in Address : t[a] = IF a = Dest(x) + i
                                   THEN IF i < len THEN x.mem[x.w + i] ELSE 0
                                   ELSE m[a]
  PROVE  Put(t, x, i + 1, len)
<1>1. PICK to \in Nat : to = Dest(x)
  BY CopyFacts, AddressRange
<1>2. ASSUME NEW a \in Address
      PROVE  t[a] = IF to <= a /\ a < to + (i + 1)
                    THEN IF a - to < len THEN x.mem[x.w + (a - to)] ELSE 0
                    ELSE x.mem[a]
  <2>1. a \in Nat
    BY AddressRange
  <2>2. m[a] = IF to <= a /\ a < to + i
               THEN IF a - to < len THEN x.mem[x.w + (a - to)] ELSE 0
               ELSE x.mem[a]
    BY <1>1 DEF Put
  <2>3. CASE a = to + i
    <3>1. a - to = i /\ to <= a /\ a < to + (i + 1)
      BY <2>3
    <3> QED
      BY <1>1, <2>3, <3>1
  <2>4. CASE a # to + i
    <3>1. a < to + i <=> a < to + (i + 1)
      BY <2>1, <2>4
    <3> QED
      BY <1>1, <2>2, <2>4, <3>1
  <2> QED
    BY <2>3, <2>4
<1> QED
  BY <1>1, <1>2 DEF Put

(* A copy that is cut short differs in its end only.                       *)
LEMMA PutCut ==
  ASSUME NEW x \in Calls, NEW i \in Nat, NEW l1 \in Nat, NEW l2 \in Nat, i <= l1, i <= l2,
         NEW m, x.fn \in Copies, Put(m, x, i, l1)
  PROVE  Put(m, x, i, l2)
<1>1. PICK to \in Nat : to = Dest(x)
  BY CopyFacts, AddressRange
<1>2. \A a \in Address : to <= a /\ a < to + i => a - to < l1 /\ a - to < l2
  BY AddressRange
<1> QED
  BY <1>1, <1>2 DEF Put

LEMMA CopyState ==
  ASSUME Typed, Copying, pc = "copy" \/ (pc = "call" /\ Is({"strcpy", "strncpy", "strlcpy"}))
  PROVE  \E x \in Calls, i, len, to \in Nat :
           /\ x = call /\ x.fn \in Copies /\ len = SrcLen(x) /\ to = Dest(x) /\ p = to + i
           /\ p - Dest(x) = i /\ CopiedSoFar(x, mem, q, k, i)
           /\ mem[q] = IF i < len THEN x.mem[x.w + i] ELSE 0
           /\ mem[q] # 0 <=> i < len
           /\ p < Base + Size => p \in Address
<1>1. PICK x \in Calls : x = call
  BY DEF Typed
<1>2. x.fn \in Copies
  BY <1>1 DEF Typed, Is, Copies
<1>3. CopiedSoFar(x, mem, q, k, p - Dest(x))
  BY <1>1 DEF Copying
<1>4. PICK to \in Nat : to = Dest(x) /\ to \in Address
  BY <1>2, CopyFacts, AddressRange
<1>5. PICK len \in Nat : len = SrcLen(x) /\ StringOf(x.mem, x.w, len)
  BY <1>2, CopyFacts DEF StringOf
<1>6. PICK i \in Nat : i = p - Dest(x)
  BY <1>3 DEF CopiedSoFar
<1>7. p = to + i /\ (p < Base + Size => p \in Address)
  BY <1>4, <1>6, AddressRange DEF Typed
<1>8. mem[q] = IF i < len THEN x.mem[x.w + i] ELSE 0
  <2>1. q = x.w + Lower(i, SrcLen(x)) /\ Put(mem, x, i, SrcLen(x))
    BY <1>3, <1>6 DEF CopiedSoFar
  <2> QED
    BY <1>2, <1>5, <2>1, SourceIntact
<1>9. mem[q] # 0 <=> i < len
  BY <1>5, <1>8 DEF StringOf
<1> QED
  BY <1>1, <1>2, <1>3, <1>4, <1>5, <1>6, <1>7, <1>8, <1>9

LEMMA CopyByte ==
  ASSUME Typed, NEW x \in Calls, x.fn \in Copies, NEW i \in Nat, NEW len \in Nat,
         len = SrcLen(x), p = Dest(x) + i, p \in Address,
         Put(mem, x, i, len), NEW b, b = IF i < len THEN x.mem[x.w + i] ELSE 0, Store(p, b)
  PROVE  Put(mem', x, i + 1, len)
<1>1. \A a \in Address : mem'[a] = IF a = p THEN b ELSE mem[a]
  BY StoreTyped DEF Store, Typed
<1> QED
  BY <1>1, PutNext

LEMMA StrcatStep ==
  ASSUME Typed, Copying, strcat
  PROVE  Copying' /\ CopiesDone'
<1>1. /\ pc = "call" /\ Is({"strcat"}) /\ call' = call /\ mem' = mem /\ q' = q /\ k' = k
      /\ IF mem[p] # 0 THEN p' = p + 1 /\ pc' = pc ELSE pc' = "copy" /\ p' = p
  BY DEF strcat
<1>2. PICK x \in Calls : x = call /\ x.fn = "strcat" /\ x.fn \in Copies
  BY <1>1 DEF Typed, Is, Copies
<1>3. /\ q = x.w /\ mem = x.mem /\ p - x.v \in Nat
      /\ \A j \in 0 .. p - x.v - 1 : mem[x.v + j] # 0
  BY <1>1, <1>2 DEF Copying
<1>4. PICK v, i \in Nat : v = x.v /\ i = p - x.v /\ p = v + i
  BY <1>3, CallFacts, AddressRange DEF Typed
<1>5. CASE mem[p] # 0
  <2>1. /\ p' - v \in Nat
        /\ \A j \in 0 .. p' - v - 1 : mem'[v + j] # 0
    <3>1. p' = v + (i + 1) /\ pc' = "call"
      BY <1>1, <1>4, <1>5
    <3>2. \A j \in 0 .. i : j = i \/ j \in 0 .. i - 1
      BY <1>4
    <3> QED
      BY <1>1, <1>3, <1>4, <1>5, <3>1, <3>2
  <2>2. pc' = "call" /\ ~Is({"strcpy", "strncpy", "strlcpy"})'
    BY <1>1, <1>2, <1>5 DEF Is
  <2> QED
    BY <1>1, <1>2, <1>3, <1>4, <2>1, <2>2 DEF Copying, CopiesDone
<1>6. CASE mem[p] = 0
  <2>1. i = LengthIn(x.mem, x.v)
    BY <1>2, <1>3, <1>4, <1>6, CopyFacts, StringUnique, CallFacts
  <2>2. p = Dest(x) /\ p - Dest(x) = 0
    BY <1>2, <1>4, <2>1, CopyFacts
  <2>3. Put(mem, x, 0, SrcLen(x))
    BY <1>2, <1>3, CopyFacts, AddressRange DEF Put
  <2>4. SrcLen(x) \in Nat /\ Lower(0, SrcLen(x)) = 0 /\ x.w + 0 = x.w
    BY <1>2, CopyFacts, CallFacts, AddressRange DEF Lower, StringOf
  <2>5. CopiedSoFar(x, mem, q, k, 0)
    BY <1>2, <1>3, <2>3, <2>4 DEF CopiedSoFar
  <2>6. pc' = "copy" /\ p' = p
    BY <1>1, <1>6
  <2> QED
    BY <1>1, <1>2, <2>2, <2>5, <2>6 DEF Copying, CopiesDone
<1> QED
  BY <1>5, <1>6

LEMMA StrcpyStep ==
  ASSUME Typed, Copying, strcpy
  PROVE  Copying' /\ CopiesDone'
<1>1. /\ pc = "copy" \/ (pc = "call" /\ Is({"strcpy"}))
      /\ Store(p, mem[q]) /\ p' = p + 1 /\ q' = q + 1 /\ call' = call /\ k' = k
      /\ IF mem[q] # 0 THEN pc' = pc ELSE pc' = "done" /\ ret' = call.v
  BY DEF strcpy, Return
<1>2. pc = "copy" \/ (pc = "call" /\ Is({"strcpy", "strncpy", "strlcpy"}))
  BY <1>1 DEF Is
<1>3. PICK x \in Calls, i, len, to \in Nat :
        /\ x = call /\ x.fn \in Copies /\ len = SrcLen(x) /\ to = Dest(x) /\ p = to + i
        /\ p - Dest(x) = i /\ CopiedSoFar(x, mem, q, k, i)
        /\ mem[q] = IF i < len THEN x.mem[x.w + i] ELSE 0
        /\ mem[q] # 0 <=> i < len
        /\ p < Base + Size => p \in Address
  BY <1>2, CopyState
<1>4. x.fn \in {"strcpy", "strcat"}
  BY <1>1, <1>3 DEF Typed, Is
<1>5. i <= len /\ q = x.w + Lower(i, len) /\ Put(mem, x, i, len)
  BY <1>3, <1>4 DEF CopiedSoFar
<1>6. p \in Address
  <2>1. to + len + 1 <= Base + Size
    BY <1>3, <1>4, CopyFacts
  <2> QED
    BY <1>3, <1>5, <2>1, AddressRange
<1>7. Put(mem', x, i + 1, len)
  BY <1>1, <1>3, <1>5, <1>6, CopyByte
<1>8. CASE i < len
  <2>1. x.w \in Nat
    BY CallFacts, AddressRange
  <2>2. q' = x.w + Lower(i + 1, len) /\ i + 1 <= len /\ p' - to = i + 1
    BY <1>1, <1>3, <1>5, <1>8, <2>1 DEF Lower
  <2>3. CopiedSoFar(x, mem', q', k', i + 1)
    BY <1>3, <1>4, <1>7, <2>2 DEF CopiedSoFar
  <2>4. pc' = pc
    BY <1>1, <1>3, <1>8
  <2>5. ~(pc' = "call" /\ Is({"strcat"})')
    BY <1>1, <2>4 DEF Is
  <2>6. pc' # "done"
    BY <1>1, <2>4
  <2> QED
    BY <1>1, <1>3, <2>2, <2>3, <2>5, <2>6 DEF Copying, CopiesDone
<1>9. CASE ~(i < len)
  <2>1. i = len /\ pc' = "done" /\ ret' = x.v
    BY <1>1, <1>3, <1>5, <1>9
  <2>2. Copy(x, mem', ret')
    BY <1>3, <1>4, <1>7, <2>1 DEF Copy
  <2> QED
    BY <1>1, <1>3, <2>1, <2>2 DEF Copying, CopiesDone
<1> QED
  BY <1>8, <1>9

LEMMA StrncpyStep ==
  ASSUME Typed, Copying, strncpy
  PROVE  Copying' /\ CopiesDone'
<1>1. pc = "call" /\ Is({"strncpy"}) /\ call' = call
  BY DEF strncpy
<1>2. pc = "copy" \/ (pc = "call" /\ Is({"strcpy", "strncpy", "strlcpy"}))
  BY <1>1 DEF Is
<1>3. PICK x \in Calls, i, len, to \in Nat :
        /\ x = call /\ x.fn \in Copies /\ len = SrcLen(x) /\ to = Dest(x) /\ p = to + i
        /\ p - Dest(x) = i /\ CopiedSoFar(x, mem, q, k, i)
        /\ mem[q] = IF i < len THEN x.mem[x.w + i] ELSE 0
        /\ mem[q] # 0 <=> i < len
        /\ p < Base + Size => p \in Address
  BY <1>2, CopyState
<1>4. x.fn = "strncpy" /\ to = x.v /\ x.n \in Nat /\ x.w \in Nat
  <2>1. x.fn = "strncpy"
    BY <1>1, <1>3 DEF Is
  <2> QED
    BY <1>3, <2>1, CopyFacts, CallFacts, AddressRange
<1>5. /\ q = x.w + Lower(i, len) /\ Put(mem, x, i, len)
      /\ k = x.n - i /\ k \in Nat
  BY <1>3, <1>4 DEF CopiedSoFar
<1>6. CASE k > 0
  <2>1. /\ Store(p, mem[q]) /\ p' = p + 1 /\ k' = k - 1 /\ pc' = "call"
        /\ q' = IF mem[q] # 0 THEN q + 1 ELSE q
    BY <1>1, <1>6 DEF strncpy
  <2>2. p \in Address
    <3>1. x.v + x.n <= Base + Size
      BY <1>3, <1>4, CopyFacts
    <3> QED
      BY <1>3, <1>4, <1>5, <1>6, <3>1, AddressRange
  <2>3. Put(mem', x, i + 1, len)
    BY <1>3, <1>5, <2>1, <2>2, CopyByte
  <2>4. q' = x.w + Lower(i + 1, len) /\ p' - to = i + 1
    <3>1. p' - to = i + 1
      BY <1>3, <2>1
    <3>2. CASE i < len
      <4>1. Lower(i, len) = i /\ Lower(i + 1, len) = i + 1
        BY <3>2 DEF Lower
      <4>2. q' = q + 1 /\ q = x.w + i
        BY <1>3, <1>5, <2>1, <3>2, <4>1
      <4>3. q' = x.w + (i + 1)
        BY <1>4, <4>2
      <4> QED
        BY <3>1, <4>1, <4>3
    <3>3. CASE ~(i < len)
      <4>1. Lower(i, len) = len /\ Lower(i + 1, len) = len
        BY <3>3 DEF Lower
      <4>2. q' = q /\ q = x.w + len
        BY <1>3, <1>5, <2>1, <3>3, <4>1
      <4> QED
        BY <3>1, <4>1, <4>2
    <3> QED
      BY <3>2, <3>3
  <2>5. k' = x.n - (i + 1) /\ k' \in Nat
    BY <1>4, <1>5, <1>6, <2>1
  <2>6. CopiedSoFar(x, mem', q', k', i + 1)
    BY <1>3, <1>4, <2>3, <2>4, <2>5 DEF CopiedSoFar
  <2>7. ~Is({"strcat"})' /\ pc' # "done"
    BY <1>1, <2>1 DEF Is
  <2> QED
    BY <1>1, <1>3, <2>4, <2>6, <2>7 DEF Copying, CopiesDone
<1>7. CASE ~(k > 0)
  <2>1. pc' = "done" /\ ret' = x.v /\ mem' = mem
    BY <1>1, <1>3, <1>7 DEF strncpy, Return
  <2>2. i = x.n
    BY <1>4, <1>5, <1>7
  <2>3. Copy(x, mem', ret')
    BY <1>3, <1>4, <1>5, <2>1, <2>2 DEF Copy
  <2> QED
    BY <1>1, <1>3, <2>1, <2>3 DEF Copying, CopiesDone
<1> QED
  BY <1>6, <1>7

LEMMA StrlcpyStep ==
  ASSUME Typed, Copying, strlcpy
  PROVE  Copying' /\ CopiesDone'
<1>1. pc = "call" /\ Is({"strlcpy"}) /\ call' = call
  BY DEF strlcpy
<1>2. pc = "copy" \/ (pc = "call" /\ Is({"strcpy", "strncpy", "strlcpy"}))
  BY <1>1 DEF Is
<1>3. PICK x \in Calls, i, len, to \in Nat :
        /\ x = call /\ x.fn \in Copies /\ len = SrcLen(x) /\ to = Dest(x) /\ p = to + i
        /\ p - Dest(x) = i /\ CopiedSoFar(x, mem, q, k, i)
        /\ mem[q] = IF i < len THEN x.mem[x.w + i] ELSE 0
        /\ mem[q] # 0 <=> i < len
        /\ p < Base + Size => p \in Address
  BY <1>2, CopyState
<1>4. x.fn = "strlcpy" /\ to = x.v /\ x.n \in Nat /\ x.w \in Nat
  <2>1. x.fn = "strlcpy"
    BY <1>1, <1>3 DEF Is
  <2> QED
    BY <1>3, <2>1, CopyFacts, CallFacts, AddressRange
<1>5. /\ q = x.w + Lower(i, len) /\ Put(mem, x, i, len)
      /\ i <= len /\ k = x.n - i /\ k \in Nat /\ (x.n > 0 => k > 0)
  BY <1>3, <1>4 DEF CopiedSoFar
<1>6. k > 0 => p \in Address
  <2>1. x.v + x.n <= Base + Size
    BY <1>3, <1>4, CopyFacts
  <2> QED
    BY <1>3, <1>4, <1>5, <2>1, AddressRange
<1>7. CASE k = 0
  <2>1. pc' = "done" /\ ret' = p - x.v /\ mem' = mem
    BY <1>1, <1>3, <1>7 DEF strlcpy, Return
  <2>2. x.n = 0 /\ i = 0 /\ ret' = 0
    <3>1. x.n = 0
      BY <1>4, <1>5, <1>7
    <3>2. i = 0
      BY <1>5, <1>7, <3>1
    <3>3. p = x.v + i /\ x.v \in Nat
      BY <1>3, <1>4
    <3> QED
      BY <2>1, <3>1, <3>2, <3>3
  <2>3. \A a \in Address : mem[a] = x.mem[a]
    BY <1>3, <1>5, <2>2, AddressRange DEF Put
  <2>4. mem = x.mem
    BY <2>3, CallFacts DEF Typed
  <2>5. Copy(x, mem', ret')
    BY <1>4, <2>1, <2>2, <2>4 DEF Copy
  <2> QED
    BY <1>1, <1>3, <2>1, <2>5 DEF Copying, CopiesDone
<1>8. CASE k # 0 /\ Room(k) /\ mem[q] # 0
  <2>1. /\ Store(p, mem[q]) /\ p' = p + 1 /\ q' = q + 1 /\ k' = k - 1 /\ pc' = "call"
    BY <1>1, <1>8 DEF strlcpy
  <2>2. Put(mem', x, i + 1, len)
    BY <1>3, <1>5, <1>6, <1>8, <2>1, CopyByte
  <2>3. i < len /\ Lower(i, len) = i /\ Lower(i + 1, len) = i + 1
    BY <1>3, <1>8 DEF Lower
  <2>4. q' = x.w + Lower(i + 1, len) /\ p' - to = i + 1 /\ i + 1 <= len
    <3>1. p' - to = i + 1
      BY <1>3, <2>1
    <3>2. q' = x.w + (i + 1)
      BY <1>4, <1>5, <2>1, <2>3
    <3> QED
      BY <2>3, <3>1, <3>2
  <2>5. k' = x.n - (i + 1) /\ k' \in Nat /\ k' > 0
    BY <1>4, <1>5, <1>8, <2>1 DEF Room
  <2>6. CopiedSoFar(x, mem', q', k', i + 1)
    BY <1>3, <1>4, <2>2, <2>4, <2>5 DEF CopiedSoFar
  <2>7. ~Is({"strcat"})' /\ pc' # "done"
    BY <1>1, <2>1 DEF Is
  <2> QED
    BY <1>1, <1>3, <2>4, <2>6, <2>7 DEF Copying, CopiesDone
<1>9. CASE k # 0 /\ ~(Room(k) /\ mem[q] # 0)
  <2>1. Store(p, 0) /\ pc' = "done" /\ ret' = p - x.v
    BY <1>1, <1>3, <1>9 DEF strlcpy, Return
  <2>2. x.n # 0 /\ ret' = i
    <3>1. x.n # 0
      BY <1>4, <1>5, <1>9
    <3>2. p = x.v + i /\ x.v \in Nat
      BY <1>3, <1>4
    <3> QED
      BY <2>1, <3>1, <3>2
  <2>3. Lower(x.n - 1, len) = i
    <3>1. k = 1 \/ i = len
      BY <1>3, <1>5, <1>9 DEF Room
    <3>2. k >= 1 /\ x.n - 1 = i + (k - 1)
      BY <1>4, <1>5, <1>9
    <3> QED
      BY <1>4, <1>5, <3>1, <3>2 DEF Lower
  <2>4. Put(mem, x, i, i)
    BY <1>3, <1>5, PutCut
  <2>5. \A a \in Address : mem'[a] = IF a = Dest(x) + i THEN 0 ELSE mem[a]
    <3>1. p = Dest(x) + i
      BY <1>3
    <3> QED
      BY <2>1, <3>1, StoreTyped DEF Store, Typed
  <2>6. Put(mem', x, i + 1, i)
    BY <1>3, <2>4, <2>5, PutNext
  <2>7. Copy(x, mem', ret')
    BY <1>3, <1>4, <2>2, <2>3, <2>6 DEF Copy
  <2> QED
    BY <1>1, <1>3, <2>1, <2>7 DEF Copying, CopiesDone
<1> QED
  BY <1>7, <1>8, <1>9

LEMMA CopiesSteps ==
  ASSUME Typed, Is(Copies), [Next]_vars
  PROVE  strcat \/ strlcpy \/ strncpy \/ strcpy \/ UNCHANGED vars
<1>1. call.fn \notin Moves /\ call.fn \notin Searches /\ call.fn # "strtol"
      /\ pc # "rep" /\ pc # "digit"
  BY DEF Typed, Is, Moves, Copies, Searches
<1>2. ~memmove /\ ~memset /\ ~rep /\ ~repEnds
  BY <1>1 DEF memmove, memset, rep, repEnds, Is, Moves
<1>3. ~strlen /\ ~strnlen /\ ~strchr /\ ~strfind /\ ~memfind /\ ~strcmp /\ ~strncmp /\ ~memcmp
  BY <1>1 DEF strlen, strnlen, strchr, strfind, memfind, strcmp, strncmp, memcmp, Scan, Is, Searches
<1>4. ~strtol /\ ~digit
  BY <1>1 DEF strtol, digit, Is
<1> QED
  BY <1>2, <1>3, <1>4 DEF Next

CopiesInv == Typed /\ Copying /\ CopiesDone

LEMMA CopiesInit == Init => CopiesInv
<1> SUFFICES ASSUME Init PROVE CopiesInv
  OBVIOUS
<1>1. /\ call \in Calls /\ mem = call.mem /\ p = call.v /\ q = call.w /\ k = call.n
      /\ pc = "call"
  BY DEF Init
<1>2. call.v \in Nat /\ call.w \in Nat /\ call.n \in Nat /\ p - call.v = 0
  BY <1>1, CallFacts, AddressRange
<1>3. ASSUME Is({"strcpy", "strncpy", "strlcpy"})
      PROVE  CopiedSoFar(call, mem, q, k, p - Dest(call))
  <2>1. call.fn \in Copies /\ call.fn # "strcat"
    BY <1>3 DEF Is, Copies
  <2>2. SrcLen(call) \in Nat /\ Dest(call) = call.v
    BY <1>1, <2>1, CopyFacts DEF StringOf
  <2>3. Put(mem, call, 0, SrcLen(call))
    BY <1>1, <1>2, <2>2, AddressRange DEF Put
  <2>4. Lower(0, SrcLen(call)) = 0
    BY <2>2 DEF Lower
  <2> QED
    BY <1>1, <1>2, <2>2, <2>3, <2>4 DEF CopiedSoFar
<1>4. Copying /\ CopiesDone
  BY <1>1, <1>2, <1>3 DEF Copying, CopiesDone
<1> QED
  BY <1>4, TypedInit DEF CopiesInv

LEMMA CopiesNext == CopiesInv /\ [Next]_vars => CopiesInv'
<1> SUFFICES ASSUME CopiesInv, [Next]_vars PROVE CopiesInv'
  OBVIOUS
<1>1. Typed' /\ call' = call
  BY TypedNext, CallStays DEF CopiesInv
<1>2. CASE ~Is(Copies)
  <2>1. ~Is(Copies)' /\ ~Is({"strcat"})' /\ ~Is({"strcpy", "strncpy", "strlcpy"})' /\ pc' # "copy"
    BY <1>1, <1>2 DEF Is, Copies, Typed
  <2> QED
    BY <1>1, <2>1 DEF CopiesInv, Copying, CopiesDone
<1>3. CASE Is(Copies)
  <2>1. CASE UNCHANGED vars
    BY <1>1, <2>1 DEF CopiesInv, Copying, CopiesDone, Is, vars
  <2> QED
    BY <1>1, <1>3, <2>1, CopiesSteps, StrcatStep, StrlcpyStep, StrncpyStep, StrcpyStep DEF CopiesInv
<1> QED
  BY <1>2, <1>3

LEMMA PutMeans ==
  ASSUME Typed, call.fn \in Copies, NEW to, to = Dest(call), NEW n \in Nat, NEW len \in Nat,
         Put(mem, call, n, len)
  PROVE  Holds(to, n, Copied(len))
<1>1. to \in Nat
  BY CopyFacts, AddressRange DEF Typed
<1>2. ASSUME NEW a \in Address
      PROVE  mem[a] = IF a \in to .. to + n - 1 THEN Copied(len)[a - to] ELSE call.mem[a]
  <2>1. a \in Nat /\ (to <= a /\ a < to + n <=> a \in to .. to + n - 1)
    BY <1>1, AddressRange
  <2>2. mem[a] = IF to <= a /\ a < to + n
                 THEN IF a - to < len THEN call.mem[call.w + (a - to)] ELSE 0
                 ELSE call.mem[a]
    BY DEF Put
  <2>3. ASSUME to <= a
        PROVE  Copied(len)[a - to] = IF a - to < len THEN call.mem[call.w + (a - to)] ELSE 0
    <3>1. a - to \in Nat
      BY <1>1, <2>1, <2>3
    <3> QED
      BY <3>1 DEF Copied
  <2> QED
    BY <1>1, <2>1, <2>2, <2>3
<1> QED
  BY <1>2 DEF Holds

LEMMA CopiesMeans == CopiesInv => CopiesOK
<1> SUFFICES ASSUME CopiesInv PROVE CopiesOK
  OBVIOUS
<1> USE DEF CopiesInv
<1>1. CASE ~(pc = "done" /\ Is(Copies))
  BY <1>1 DEF CopiesOK, Done, Is, Copies
<1>2. CASE pc = "done" /\ Is(Copies)
  <2>1. PICK x \in Calls : x = call /\ x.fn \in Copies
    BY <1>2 DEF Typed, Is
  <2>2. PICK len \in Nat : len = SrcLen(x)
    BY <2>1, CopyFacts DEF StringOf
  <2>3. Length(call.w) = len /\ x.n \in Nat
    BY <2>1, <2>2, CallFacts DEF Length, SrcLen
  <2>4. Dest(x) = IF x.fn = "strcat" THEN call.v + Length(call.v) ELSE call.v
    BY <2>1 DEF Dest, Length
  <2>5. Copy(x, mem, ret)
    BY <1>2, <2>1 DEF CopiesDone
  <2>6. \A n, l \in Nat : Put(mem, x, n, l) => Holds(Dest(x), n, Copied(l))
    BY <2>1, PutMeans
  <2>7. Done({"strcpy"}) => ret = call.v /\ Holds(call.v, len + 1, Copied(len))
    BY <2>1, <2>2, <2>4, <2>5, <2>6 DEF Copy, Done, Is
  <2>8. Done({"strcat"}) =>
          ret = call.v /\ Holds(call.v + Length(call.v), len + 1, Copied(len))
    BY <2>1, <2>2, <2>4, <2>5, <2>6 DEF Copy, Done, Is
  <2>9. Done({"strncpy"}) => ret = call.v /\ Holds(call.v, call.n, Copied(len))
    BY <2>1, <2>2, <2>3, <2>4, <2>5, <2>6 DEF Copy, Done, Is
  <2>10. ASSUME Done({"strlcpy"})
         PROVE  IF call.n = 0 THEN ret = 0 /\ mem = call.mem
                ELSE /\ ret = Lower(call.n - 1, len)
                     /\ Holds(call.v, Lower(call.n - 1, len) + 1, Copied(Lower(call.n - 1, len)))
    <3>1. x.fn = "strlcpy" /\ Dest(x) = call.v
      BY <2>1, <2>4, <2>10 DEF Done, Is
    <3>2. CASE x.n = 0
      BY <2>1, <2>5, <3>1, <3>2 DEF Copy
    <3>3. CASE x.n # 0
      <4>1. Lower(x.n - 1, len) \in Nat
        BY <2>3, <3>3 DEF Lower
      <4> QED
        BY <2>1, <2>2, <2>5, <2>6, <3>1, <3>3, <4>1 DEF Copy
    <3> QED
      BY <3>2, <3>3
  <2> QED
    BY <2>3, <2>7, <2>8, <2>9, <2>10 DEF CopiesOK
<1> QED
  BY <1>1, <1>2

(* The copies of strings write the string and its end, and nothing past    *)
(* the size: for every length of the strings.                              *)
THEOREM CopiesCorrect == Spec => []CopiesOK
BY CopiesInit, CopiesNext, CopiesMeans, PTL DEF Spec

(* Every write of the library: no function that writes leaves another byte *)
(* changed, or one of its own unwritten.                                   *)
THEOREM WritesAreCorrect == Spec => []WritesCorrect
<1>1. MovesOK /\ CopiesOK => WritesCorrect
  BY DEF WritesCorrect
<1> QED
  BY <1>1, MovesCorrect, CopiesCorrect, PTL

-----------------------------------------------------------------------------
(* Searches and comparisons.                                               *)

(* The byte at i is one to stop at, and r what is returned for it.         *)
Stopped(x, i, r) ==
  /\ x.fn = "strlen"  => x.mem[x.v + i] = 0 /\ r = i
  /\ x.fn = "strnlen" => (i = x.n \/ x.mem[x.v + i] = 0) /\ r = i
  /\ x.fn = "strchr"  => /\ x.mem[x.v + i] \in {0, x.c % 256}
                         /\ r = IF x.mem[x.v + i] = 0 THEN 0 ELSE x.v + i
  /\ x.fn = "strfind" => x.mem[x.v + i] \in {0, x.c % 256} /\ r = x.v + i
  /\ x.fn = "memfind" => (i = x.n \/ x.mem[x.v + i] = x.c % 256) /\ r = x.v + i
  /\ x.fn = "strcmp"  => /\ x.mem[x.v + i] = 0 \/ x.mem[x.v + i] # x.mem[x.w + i]
                         /\ r = x.mem[x.v + i] - x.mem[x.w + i]
  /\ x.fn = "strncmp" =>
       /\ i = x.n \/ x.mem[x.v + i] = 0 \/ x.mem[x.v + i] # x.mem[x.w + i]
       /\ r = IF i = x.n THEN 0 ELSE x.mem[x.v + i] - x.mem[x.w + i]
  /\ x.fn = "memcmp"  =>
       /\ i = x.n \/ x.mem[x.v + i] # x.mem[x.w + i]
       /\ r = IF i = x.n THEN 0 ELSE x.mem[x.v + i] - x.mem[x.w + i]
SearchesDone ==
  pc = "done" /\ Is(Searches) => \E i \in Nat : Passed(call, i) /\ Stopped(call, i, ret)

LEMMA SearchesSteps ==
  ASSUME Typed, Is(Searches), [Next]_vars
  PROVE  \/ strlen \/ strnlen \/ strchr \/ strfind \/ memfind
         \/ strcmp \/ strncmp \/ memcmp \/ UNCHANGED vars
<1>1. call.fn \notin Moves /\ call.fn \notin Copies /\ call.fn # "strtol"
      /\ pc # "rep" /\ pc # "digit" /\ pc # "copy"
  BY DEF Typed, Is, Moves, Copies, Searches
<1>2. ~memmove /\ ~memset /\ ~rep /\ ~repEnds
  BY <1>1 DEF memmove, memset, rep, repEnds, Is, Moves
<1>3. ~strcat /\ ~strlcpy /\ ~strncpy /\ ~strcpy
  BY <1>1 DEF strcat, strlcpy, strncpy, strcpy, Is, Copies
<1>4. ~strtol /\ ~digit
  BY <1>1 DEF strtol, digit, Is
<1> QED
  BY <1>2, <1>3, <1>4 DEF Next

(* A loop that goes on, or returns.                                        *)
LEMMA ScanStep ==
  ASSUME Typed, Searching, NEW fn \in Searches, NEW goes \in BOOLEAN, NEW value,
         Scan(fn, goes, value),
         ASSUME NEW x \in Calls, x = call, x.fn = fn, mem = x.mem, NEW i \in Nat,
                p = x.v + i, p - x.v = i, q = x.w + i, k = x.n - i, x.v \in Nat, x.w \in Nat,
                x.n \in Nat, Passed(x, i)
         PROVE  IF goes THEN Passed(x, i + 1) ELSE Stopped(x, i, value)
  PROVE  Searching' /\ SearchesDone'
<1>1. /\ pc = "call" /\ call.fn = fn /\ call' = call /\ mem' = mem
      /\ IF goes
         THEN p' = p + 1 /\ q' = q + 1 /\ k' = k - 1 /\ pc' = pc
         ELSE pc' = "done" /\ ret' = value
  BY DEF Scan, Return, Is
<1>2. PICK x \in Calls : x = call
  BY DEF Typed
<1>3. x.v \in Nat /\ x.w \in Nat /\ x.n \in Nat
  BY CallFacts, AddressRange
<1>4. PICK i \in Nat : i = p - x.v
  BY <1>1, <1>2 DEF Searching, Is, Passed
<1>5. /\ mem = x.mem /\ q = x.w + i /\ k = x.n - i /\ Passed(x, i)
  BY <1>1, <1>2, <1>4 DEF Searching, Is
<1>6. p = x.v + i
  BY <1>3, <1>4 DEF Typed
<1>7. IF goes THEN Passed(x, i + 1) ELSE Stopped(x, i, value)
  BY <1>1, <1>2, <1>3, <1>4, <1>5, <1>6
<1>8. CASE goes
  <2>1. p' - x.v = i + 1 /\ q' = x.w + (i + 1) /\ k' = x.n - (i + 1) /\ pc' = "call"
    BY <1>1, <1>3, <1>5, <1>6, <1>8
  <2>2. Passed(x, i + 1)
    BY <1>7, <1>8
  <2> QED
    BY <1>1, <1>2, <1>5, <2>1, <2>2 DEF Searching, SearchesDone, Is
<1>9. CASE ~goes
  BY <1>1, <1>2, <1>5, <1>7, <1>9 DEF Searching, SearchesDone, Is
<1> QED
  BY <1>8, <1>9

LEMMA PassedNext ==
  ASSUME NEW x \in Calls, x.fn \in Searches, NEW i \in Nat, Passed(x, i),
         x.fn \in {"strlen", "strnlen", "strchr", "strfind", "strcmp", "strncmp"} =>
           x.mem[x.v + i] # 0,
         x.fn \in {"strchr", "strfind", "memfind"} => x.mem[x.v + i] # x.c % 256,
         x.fn \in {"strcmp", "strncmp", "memcmp"} => x.mem[x.v + i] = x.mem[x.w + i],
         x.fn \in {"strnlen", "memfind", "strncmp", "memcmp"} => i + 1 <= x.n
  PROVE  Passed(x, i + 1)
<1>1. \A j \in 0 .. (i + 1) - 1 : j = i \/ j \in 0 .. i - 1
  OBVIOUS
<1> QED
  BY <1>1 DEF Passed

LEMMA strlenStep ==
  ASSUME Typed, Searching, strlen
  PROVE  Searching' /\ SearchesDone'
<1> DEFINE goes  == mem[p] # 0
           value == p - call.v
<1>1. "strlen" \in Searches /\ Scan("strlen", goes, value) /\ goes \in BOOLEAN
  BY DEF strlen, Searches, Left, Same
<1>2. ASSUME NEW x \in Calls, x = call, x.fn = "strlen", mem = x.mem, NEW i \in Nat,
             p = x.v + i, p - x.v = i, q = x.w + i, k = x.n - i, x.v \in Nat, x.w \in Nat,
             x.n \in Nat, Passed(x, i)
      PROVE  IF goes THEN Passed(x, i + 1) ELSE Stopped(x, i, value)
  <2>1. CASE goes
    BY <1>2, <2>1, PassedNext DEF Searches, Left, Same, CharArg
  <2>2. CASE ~goes
    BY <1>2, <2>2 DEF Stopped, Left, Same, CharArg, Passed
  <2> QED
    BY <2>1, <2>2
<1> HIDE DEF goes, value
<1> QED
  BY <1>1, <1>2, ScanStep

LEMMA strnlenStep ==
  ASSUME Typed, Searching, strnlen
  PROVE  Searching' /\ SearchesDone'
<1> DEFINE goes  == Left /\ mem[p] # 0
           value == p - call.v
<1>1. "strnlen" \in Searches /\ Scan("strnlen", goes, value) /\ goes \in BOOLEAN
  BY DEF strnlen, Searches, Left, Same
<1>2. ASSUME NEW x \in Calls, x = call, x.fn = "strnlen", mem = x.mem, NEW i \in Nat,
             p = x.v + i, p - x.v = i, q = x.w + i, k = x.n - i, x.v \in Nat, x.w \in Nat,
             x.n \in Nat, Passed(x, i)
      PROVE  IF goes THEN Passed(x, i + 1) ELSE Stopped(x, i, value)
  <2>1. CASE goes
    BY <1>2, <2>1, PassedNext DEF Searches, Left, Same, CharArg
  <2>2. CASE ~goes
    BY <1>2, <2>2 DEF Stopped, Left, Same, CharArg, Passed
  <2> QED
    BY <2>1, <2>2
<1> HIDE DEF goes, value
<1> QED
  BY <1>1, <1>2, ScanStep

LEMMA strchrStep ==
  ASSUME Typed, Searching, strchr
  PROVE  Searching' /\ SearchesDone'
<1> DEFINE goes  == mem[p] \notin {0, CharArg}
           value == IF mem[p] = 0 THEN 0 ELSE p
<1>1. "strchr" \in Searches /\ Scan("strchr", goes, value) /\ goes \in BOOLEAN
  BY DEF strchr, Searches, Left, Same
<1>2. ASSUME NEW x \in Calls, x = call, x.fn = "strchr", mem = x.mem, NEW i \in Nat,
             p = x.v + i, p - x.v = i, q = x.w + i, k = x.n - i, x.v \in Nat, x.w \in Nat,
             x.n \in Nat, Passed(x, i)
      PROVE  IF goes THEN Passed(x, i + 1) ELSE Stopped(x, i, value)
  <2>1. CASE goes
    BY <1>2, <2>1, PassedNext DEF Searches, Left, Same, CharArg
  <2>2. CASE ~goes
    BY <1>2, <2>2 DEF Stopped, Left, Same, CharArg, Passed
  <2> QED
    BY <2>1, <2>2
<1> HIDE DEF goes, value
<1> QED
  BY <1>1, <1>2, ScanStep

LEMMA strfindStep ==
  ASSUME Typed, Searching, strfind
  PROVE  Searching' /\ SearchesDone'
<1> DEFINE goes  == mem[p] \notin {0, CharArg}
           value == p
<1>1. "strfind" \in Searches /\ Scan("strfind", goes, value) /\ goes \in BOOLEAN
  BY DEF strfind, Searches, Left, Same
<1>2. ASSUME NEW x \in Calls, x = call, x.fn = "strfind", mem = x.mem, NEW i \in Nat,
             p = x.v + i, p - x.v = i, q = x.w + i, k = x.n - i, x.v \in Nat, x.w \in Nat,
             x.n \in Nat, Passed(x, i)
      PROVE  IF goes THEN Passed(x, i + 1) ELSE Stopped(x, i, value)
  <2>1. CASE goes
    BY <1>2, <2>1, PassedNext DEF Searches, Left, Same, CharArg
  <2>2. CASE ~goes
    BY <1>2, <2>2 DEF Stopped, Left, Same, CharArg, Passed
  <2> QED
    BY <2>1, <2>2
<1> HIDE DEF goes, value
<1> QED
  BY <1>1, <1>2, ScanStep

LEMMA memfindStep ==
  ASSUME Typed, Searching, memfind
  PROVE  Searching' /\ SearchesDone'
<1> DEFINE goes  == Left /\ mem[p] # CharArg
           value == p
<1>1. "memfind" \in Searches /\ Scan("memfind", goes, value) /\ goes \in BOOLEAN
  BY DEF memfind, Searches, Left, Same
<1>2. ASSUME NEW x \in Calls, x = call, x.fn = "memfind", mem = x.mem, NEW i \in Nat,
             p = x.v + i, p - x.v = i, q = x.w + i, k = x.n - i, x.v \in Nat, x.w \in Nat,
             x.n \in Nat, Passed(x, i)
      PROVE  IF goes THEN Passed(x, i + 1) ELSE Stopped(x, i, value)
  <2>1. CASE goes
    BY <1>2, <2>1, PassedNext DEF Searches, Left, Same, CharArg
  <2>2. CASE ~goes
    BY <1>2, <2>2 DEF Stopped, Left, Same, CharArg, Passed
  <2> QED
    BY <2>1, <2>2
<1> HIDE DEF goes, value
<1> QED
  BY <1>1, <1>2, ScanStep

LEMMA strcmpStep ==
  ASSUME Typed, Searching, strcmp
  PROVE  Searching' /\ SearchesDone'
<1> DEFINE goes  == Same
           value == mem[p] - mem[q]
<1>1. "strcmp" \in Searches /\ Scan("strcmp", goes, value) /\ goes \in BOOLEAN
  BY DEF strcmp, Searches, Left, Same
<1>2. ASSUME NEW x \in Calls, x = call, x.fn = "strcmp", mem = x.mem, NEW i \in Nat,
             p = x.v + i, p - x.v = i, q = x.w + i, k = x.n - i, x.v \in Nat, x.w \in Nat,
             x.n \in Nat, Passed(x, i)
      PROVE  IF goes THEN Passed(x, i + 1) ELSE Stopped(x, i, value)
  <2>1. CASE goes
    BY <1>2, <2>1, PassedNext DEF Searches, Left, Same, CharArg
  <2>2. CASE ~goes
    BY <1>2, <2>2 DEF Stopped, Left, Same, CharArg, Passed
  <2> QED
    BY <2>1, <2>2
<1> HIDE DEF goes, value
<1> QED
  BY <1>1, <1>2, ScanStep

LEMMA strncmpStep ==
  ASSUME Typed, Searching, strncmp
  PROVE  Searching' /\ SearchesDone'
<1> DEFINE goes  == Left /\ Same
           value == IF k = 0 THEN 0 ELSE mem[p] - mem[q]
<1>1. "strncmp" \in Searches /\ Scan("strncmp", goes, value) /\ goes \in BOOLEAN
  BY DEF strncmp, Searches, Left, Same
<1>2. ASSUME NEW x \in Calls, x = call, x.fn = "strncmp", mem = x.mem, NEW i \in Nat,
             p = x.v + i, p - x.v = i, q = x.w + i, k = x.n - i, x.v \in Nat, x.w \in Nat,
             x.n \in Nat, Passed(x, i)
      PROVE  IF goes THEN Passed(x, i + 1) ELSE Stopped(x, i, value)
  <2>1. CASE goes
    BY <1>2, <2>1, PassedNext DEF Searches, Left, Same, CharArg
  <2>2. CASE ~goes
    BY <1>2, <2>2 DEF Stopped, Left, Same, CharArg, Passed
  <2> QED
    BY <2>1, <2>2
<1> HIDE DEF goes, value
<1> QED
  BY <1>1, <1>2, ScanStep

LEMMA memcmpStep ==
  ASSUME Typed, Searching, memcmp
  PROVE  Searching' /\ SearchesDone'
<1> DEFINE goes  == Left /\ mem[p] = mem[q]
           value == IF k = 0 THEN 0 ELSE mem[p] - mem[q]
<1>1. "memcmp" \in Searches /\ Scan("memcmp", goes, value) /\ goes \in BOOLEAN
  BY DEF memcmp, Searches, Left, Same
<1>2. ASSUME NEW x \in Calls, x = call, x.fn = "memcmp", mem = x.mem, NEW i \in Nat,
             p = x.v + i, p - x.v = i, q = x.w + i, k = x.n - i, x.v \in Nat, x.w \in Nat,
             x.n \in Nat, Passed(x, i)
      PROVE  IF goes THEN Passed(x, i + 1) ELSE Stopped(x, i, value)
  <2>1. CASE goes
    BY <1>2, <2>1, PassedNext DEF Searches, Left, Same, CharArg
  <2>2. CASE ~goes
    BY <1>2, <2>2 DEF Stopped, Left, Same, CharArg, Passed
  <2> QED
    BY <2>1, <2>2
<1> HIDE DEF goes, value
<1> QED
  BY <1>1, <1>2, ScanStep

SearchesInv == Typed /\ Searching /\ SearchesDone

LEMMA SearchesInit == Init => SearchesInv
<1> SUFFICES ASSUME Init PROVE SearchesInv
  OBVIOUS
<1>1. /\ call \in Calls /\ mem = call.mem /\ p = call.v /\ q = call.w /\ k = call.n
      /\ pc = "call"
  BY DEF Init
<1>2. call.v \in Nat /\ call.w \in Nat /\ call.n \in Nat /\ p - call.v = 0
  BY <1>1, CallFacts, AddressRange
<1>3. Passed(call, 0)
  BY <1>2 DEF Passed
<1> QED
  BY <1>1, <1>2, <1>3, TypedInit DEF SearchesInv, Searching, SearchesDone

LEMMA SearchesNext == SearchesInv /\ [Next]_vars => SearchesInv'
<1> SUFFICES ASSUME SearchesInv, [Next]_vars PROVE SearchesInv'
  OBVIOUS
<1>1. Typed' /\ call' = call
  BY TypedNext, CallStays DEF SearchesInv
<1>2. CASE ~Is(Searches)
  <2>1. ~Is(Searches)'
    BY <1>1, <1>2 DEF Is
  <2> QED
    BY <1>1, <2>1 DEF SearchesInv, Searching, SearchesDone
<1>3. CASE Is(Searches)
  <2>1. CASE UNCHANGED vars
    BY <1>1, <2>1 DEF SearchesInv, Searching, SearchesDone, Is, vars
  <2>2. CASE strlen
    BY <1>1, <2>2, strlenStep DEF SearchesInv
  <2>3. CASE strnlen
    BY <1>1, <2>3, strnlenStep DEF SearchesInv
  <2>4. CASE strchr
    BY <1>1, <2>4, strchrStep DEF SearchesInv
  <2>5. CASE strfind
    BY <1>1, <2>5, strfindStep DEF SearchesInv
  <2>6. CASE memfind
    BY <1>1, <2>6, memfindStep DEF SearchesInv
  <2>7. CASE strcmp
    BY <1>1, <2>7, strcmpStep DEF SearchesInv
  <2>8. CASE strncmp
    BY <1>1, <2>8, strncmpStep DEF SearchesInv
  <2>9. CASE memcmp
    BY <1>1, <2>9, memcmpStep DEF SearchesInv
  <2> QED
    BY <1>3, <2>1, <2>2, <2>3, <2>4, <2>5, <2>6, <2>7, <2>8, <2>9, SearchesSteps DEF SearchesInv
<1> QED
  BY <1>2, <1>3

LEMMA FoundAt ==
  ASSUME NEW n \in Nat, NEW i \in 0 .. n, NEW bytes,
         \A j \in 0 .. i - 1 : call.mem[call.v + j] \notin bytes,
         i = n \/ call.mem[call.v + i] \in bytes
  PROVE  Found(n, bytes) = i
<1> DEFINE S == {j \in 0 .. n - 1 : call.mem[call.v + j] \in bytes}
<1>1. S \in SUBSET (0 .. n - 1) /\ (\A j \in 0 .. i - 1 : j \notin S) /\ (i = n \/ i \in S)
  OBVIOUS
<1>2. Found(n, bytes) = First(n, S)
  BY DEF Found
<1> HIDE DEF S
<1> QED
  BY <1>1, <1>2, FirstAt

LEMMA DifferAt ==
  ASSUME NEW n \in Nat, NEW i \in 0 .. n,
         \A j \in 0 .. i - 1 : call.mem[call.v + j] = call.mem[call.w + j],
         i = n \/ call.mem[call.v + i] # call.mem[call.w + i]
  PROVE  Compared(n) = IF i = n THEN 0 ELSE call.mem[call.v + i] - call.mem[call.w + i]
<1> DEFINE S == {j \in 0 .. n - 1 : call.mem[call.v + j] # call.mem[call.w + j]}
<1>1. S \in SUBSET (0 .. n - 1) /\ (\A j \in 0 .. i - 1 : j \notin S) /\ (i = n \/ i \in S)
  OBVIOUS
<1>2. Differ(n) = First(n, S)
  BY DEF Differ
<1> HIDE DEF S
<1>3. Differ(n) = i
  BY <1>1, <1>2, FirstAt
<1> QED
  BY <1>3 DEF Compared

LEMMA SearchesMeans == SearchesInv => SearchesOK
<1> SUFFICES ASSUME SearchesInv PROVE SearchesOK
  OBVIOUS
<1>1. CASE ~(pc = "done" /\ Is(Searches))
  BY <1>1 DEF SearchesOK, Done, Is, Searches
<1>2. CASE pc = "done" /\ Is(Searches)
  <2>1. PICK i \in Nat : Passed(call, i) /\ Stopped(call, i, ret)
    BY <1>2 DEF SearchesInv, SearchesDone
  <2>2. call.v \in Nat /\ call.v \in Address /\ call.n \in Nat /\ call \in Calls
    BY CallFacts, AddressRange DEF SearchesInv, Typed
  <2>3. ASSUME call.fn \in {"strlen", "strchr", "strfind", "strcmp", "strncmp"}
        PROVE  /\ Length(call.v) \in Nat /\ i <= Length(call.v)
               /\ call.mem[call.v + i] = 0 <=> i = Length(call.v)
    <3>1. IsString(call.mem, call.v)
      BY <2>2, <2>3, CallFacts DEF Defined
    <3>2. StringOf(call.mem, call.v, Length(call.v))
      BY <2>2, <3>1, StringEnds DEF Length
    <3>3. \A j \in 0 .. i - 1 : call.mem[call.v + j] # 0
      BY <2>1, <2>3 DEF Passed
    <3>4. Length(call.v) \in Nat
      BY <3>2 DEF StringOf
    <3> QED
      BY <2>2, <3>2, <3>3, <3>4, StringUnique
  <2>4. PICK len : len = Length(call.v)
    OBVIOUS
  <2>5. Done({"strlen"}) => ret = len
    BY <2>1, <2>3, <2>4 DEF Done, Is, Stopped
  <2>6. ASSUME Done({"strnlen"}) PROVE ret = Found(call.n, {0})
    <3>1. /\ i \in 0 .. call.n /\ ret = i
          /\ \A j \in 0 .. i - 1 : call.mem[call.v + j] \notin {0}
          /\ i = call.n \/ call.mem[call.v + i] \in {0}
      BY <2>1, <2>2, <2>6 DEF Done, Is, Stopped, Passed
    <3> QED
      BY <2>2, <3>1, FoundAt
  <2>7. ASSUME Done({"strchr", "strfind"})
        PROVE  Found(len, {CharArg}) = i /\ len \in Nat /\ (i = len <=> call.mem[call.v + i] = 0)
    <3>1. len \in Nat /\ i \in 0 .. len /\ (i = len <=> call.mem[call.v + i] = 0)
      BY <2>3, <2>4, <2>7 DEF Done, Is
    <3>2. /\ \A j \in 0 .. i - 1 : call.mem[call.v + j] \notin {CharArg}
          /\ i = len \/ call.mem[call.v + i] \in {CharArg}
      BY <2>1, <2>7, <3>1 DEF Done, Is, Stopped, Passed, CharArg
    <3> QED
      BY <3>1, <3>2, FoundAt
  <2>8. Done({"strchr"}) =>
          ret = IF Found(len, {CharArg}) = len THEN 0 ELSE call.v + Found(len, {CharArg})
    BY <2>1, <2>7 DEF Done, Is, Stopped
  <2>9. Done({"strfind"}) => ret = call.v + Found(len, {CharArg})
    BY <2>1, <2>7 DEF Done, Is, Stopped
  <2>10. ASSUME Done({"memfind"}) PROVE ret = call.v + Found(call.n, {CharArg})
    <3>1. /\ i \in 0 .. call.n /\ ret = call.v + i
          /\ \A j \in 0 .. i - 1 : call.mem[call.v + j] \notin {CharArg}
          /\ i = call.n \/ call.mem[call.v + i] \in {CharArg}
      BY <2>1, <2>2, <2>10 DEF Done, Is, Stopped, Passed, CharArg
    <3> QED
      BY <2>2, <3>1, FoundAt
  <2>11. ASSUME call.fn \in {"strcmp", "strncmp"}
         PROVE  /\ len \in Nat /\ i \in 0 .. len /\ (i = len <=> call.mem[call.v + i] = 0)
                /\ \A j \in 0 .. i - 1 : call.mem[call.v + j] = call.mem[call.w + j]
    BY <2>1, <2>3, <2>4, <2>11 DEF Passed
  <2>12. ASSUME Done({"strcmp"}) PROVE ret = Compared(len + 1)
    <3>1. call.fn = "strcmp"
      BY <2>12 DEF Done, Is
    <3>2. /\ call.mem[call.v + i] = 0 \/ call.mem[call.v + i] # call.mem[call.w + i]
          /\ ret = call.mem[call.v + i] - call.mem[call.w + i]
      BY <2>1, <3>1 DEF Stopped
    <3>3. CASE call.mem[call.v + i] # call.mem[call.w + i]
      BY <2>11, <3>1, <3>2, <3>3, DifferAt
    <3>4. CASE call.mem[call.v + i] = call.mem[call.w + i]
      <4>1. call.mem[call.v + i] = 0 /\ call.mem[call.w + i] = 0 /\ i = len /\ ret = 0
        BY <2>11, <3>1, <3>2, <3>4
      <4>2. \A j \in 0 .. (i + 1) - 1 : call.mem[call.v + j] = call.mem[call.w + j]
        BY <2>11, <3>1, <3>4
      <4>3. Compared(len + 1) = 0
        BY <2>11, <3>1, <4>1, <4>2, DifferAt
      <4> QED
        BY <4>1, <4>3
    <3> QED
      BY <3>3, <3>4
  <2>13. ASSUME Done({"strncmp"}) PROVE ret = Compared(Lower(call.n, len + 1))
    <3>1. call.fn = "strncmp"
      BY <2>13 DEF Done, Is
    <3>2. /\ i = call.n \/ call.mem[call.v + i] = 0 \/ call.mem[call.v + i] # call.mem[call.w + i]
          /\ ret = IF i = call.n THEN 0 ELSE call.mem[call.v + i] - call.mem[call.w + i]
          /\ i <= call.n
      BY <2>1, <3>1 DEF Stopped, Passed
    <3>3. CASE i = call.n
      <4>1. Lower(call.n, len + 1) = i
        BY <2>2, <2>11, <3>1, <3>3 DEF Lower
      <4> QED
        BY <2>11, <3>1, <3>2, <3>3, <4>1, DifferAt
    <3>4. CASE i # call.n /\ call.mem[call.v + i] # call.mem[call.w + i]
      <4>1. PICK n \in Nat : n = Lower(call.n, len + 1) /\ i \in 0 .. n /\ i # n
        BY <2>2, <2>11, <3>1, <3>2, <3>4 DEF Lower
      <4>2. Compared(n) = call.mem[call.v + i] - call.mem[call.w + i]
        BY <2>11, <3>1, <3>4, <4>1, DifferAt
      <4> QED
        BY <3>2, <3>4, <4>1, <4>2
    <3>5. CASE i # call.n /\ call.mem[call.v + i] = call.mem[call.w + i]
      <4>1. call.mem[call.v + i] = 0 /\ call.mem[call.w + i] = 0 /\ i = len /\ ret = 0
        BY <2>11, <3>1, <3>2, <3>5
      <4>2. Lower(call.n, len + 1) = i + 1
        BY <2>2, <2>11, <3>1, <3>2, <3>5, <4>1 DEF Lower
      <4>3. \A j \in 0 .. (i + 1) - 1 : call.mem[call.v + j] = call.mem[call.w + j]
        BY <2>11, <3>1, <3>5
      <4>4. Compared(i + 1) = 0
        BY <4>3, DifferAt
      <4> QED
        BY <4>1, <4>2, <4>4
    <3> QED
      BY <3>3, <3>4, <3>5
  <2>14. ASSUME Done({"memcmp"}) PROVE ret = Compared(call.n)
    <3>1. call.fn = "memcmp"
      BY <2>14 DEF Done, Is
    <3>2. /\ i = call.n \/ call.mem[call.v + i] # call.mem[call.w + i]
          /\ ret = IF i = call.n THEN 0 ELSE call.mem[call.v + i] - call.mem[call.w + i]
          /\ i <= call.n
          /\ \A j \in 0 .. i - 1 : call.mem[call.v + j] = call.mem[call.w + j]
      BY <2>1, <3>1 DEF Stopped, Passed
    <3> QED
      BY <2>2, <3>2, DifferAt
  <2> QED
    BY <2>4, <2>5, <2>6, <2>8, <2>9, <2>10, <2>12, <2>13, <2>14 DEF SearchesOK
<1> QED
  BY <1>1, <1>2

(* The searches and comparisons, for every text, size and byte.            *)
THEOREM SearchesCorrect == Spec => []SearchesOK
BY SearchesInit, SearchesNext, SearchesMeans, PTL DEF Spec

-----------------------------------------------------------------------------
(* strtol.                                                                 *)

(* f[b] is the value of the digits before b.                               *)
Value(x, a, f) ==
  f = [b \in From(x) .. a |->
         IF b = From(x) THEN 0 ELSE f[b - 1] * NumBase(x) + Digit(x.mem[b - 1])]
Read(x, a, val) ==
  /\ From(x) \in Nat /\ a \in Nat /\ From(x) <= a
  /\ \A b \in From(x) .. a - 1 : Digit(x.mem[b]) < NumBase(x)
  /\ \E f : /\ Value(x, a, f) /\ f \in [From(x) .. a -> Nat]
            /\ f[a] <= LongMax => val = f[a]
Numbering ==
  /\ pc = "call" /\ Is({"strtol"}) =>
       /\ mem = call.mem /\ p >= call.v
       /\ \A b \in call.v .. p - 1 : mem[b] \in Blank
  /\ pc = "digit" =>
       /\ mem = call.mem /\ num = [neg |-> num.neg, base |-> NumBase(call), val |-> num.val]
       /\ num.neg = (call.mem[NumStart(call)] = MINUS)
       /\ num.val \in Int /\ Read(call, p, num.val)
NumberDone ==
  pc = "done" /\ Is({"strtol"}) =>
    /\ Digit(call.mem[p]) >= NumBase(call)
    /\ \E val \in Int :
         /\ Read(call, p, val)
         /\ ret = IF call.mem[NumStart(call)] = MINUS THEN Long(-val) ELSE val

LEMMA DigitRange ==
  ASSUME NEW c
  PROVE  /\ Digit(c) \in 0 .. 35 \cup {99}
         /\ Digit(ZERO) = 0
<1> DEFINE d == Digit(c)
<1>1. d = CASE c \in 48 .. 57  -> c - 48
            [] c \in 97 .. 122 -> c - 97 + 10
            [] c \in 65 .. 90  -> c - 65 + 10
            [] OTHER           -> 99
  BY DEF Digit
<1> HIDE DEF d
<1>2. d \in 0 .. 35 \cup {99}
  BY <1>1
<1>3. Digit(ZERO) = 0
  BY DEF Digit, ZERO
<1> QED
  BY <1>2, <1>3 DEF d

LEMMA LongFits ==
  /\ LongMax \in Nat
  /\ \A v \in Int : Long(v) \in Int
  /\ \A v \in 0 .. LongMax : Long(v) = v /\ Long(-v) = -v
<1>1. LongMax \in Nat
  BY StringLibAssumption
<1>2. PICK M \in Nat : M = 2 * LongMax + 2 /\ M > 0
  BY <1>1
<1>3. \A v \in Int : v % M \in Int
  BY <1>2
<1>4. \A v \in 0 .. M - 1 : v % M = v
  BY <1>2
<1>5. \A v \in Int : Long(v) = ((v + LongMax + 1) % M) - (LongMax + 1)
  BY <1>2 DEF Long
<1>6. ASSUME NEW v \in Int PROVE Long(v) \in Int
  <2>1. v + LongMax + 1 \in Int
    BY <1>1
  <2> QED
    BY <1>1, <1>3, <1>5, <2>1
<1>7. ASSUME NEW v \in 0 .. LongMax PROVE Long(v) = v /\ Long(-v) = -v
  <2>1. v + LongMax + 1 \in 0 .. M - 1 /\ -v + LongMax + 1 \in 0 .. M - 1 /\ -v \in Int
    BY <1>1, <1>2
  <2>2. (v + LongMax + 1) % M = v + LongMax + 1 /\ (-v + LongMax + 1) % M = -v + LongMax + 1
    BY <1>4, <2>1
  <2>3. v \in Int /\ (v + LongMax + 1) - (LongMax + 1) = v
    BY <1>1
  <2>4. (-v + LongMax + 1) - (LongMax + 1) = -v
    BY <1>1, <2>1
  <2> QED
    BY <1>5, <2>1, <2>2, <2>3, <2>4
<1> QED
  BY <1>1, <1>6, <1>7

LEMMA NumStartIs ==
  ASSUME NEW x \in Calls, NEW a \in Address, a >= x.v, x.mem[a] \notin Blank,
         \A b \in x.v .. a - 1 : x.mem[b] \in Blank
  PROVE  NumStart(x) = a
<1>1. PICK f : f = NumStart(x)
  OBVIOUS
<1>2. f \in Address /\ f >= x.v /\ x.mem[f] \notin Blank /\ \A b \in x.v .. f - 1 : x.mem[b] \in Blank
  BY <1>1 DEF NumStart
<1>3. f \in Nat /\ a \in Nat /\ x.v \in Nat
  BY <1>2, CallFacts, AddressRange
<1>4. ~(f < a) /\ ~(a < f)
  BY <1>2, <1>3
<1> QED
  BY <1>1, <1>3, <1>4

LEMMA StrtolFacts ==
  ASSUME NEW x \in Calls, x.fn = "strtol"
  PROVE  /\ NumBase(x) \in 2 .. 36
         /\ x.v \in Nat /\ IsString(x.mem, x.v)
<1>1. x.n \in {0} \cup 2 .. 36 /\ IsString(x.mem, x.v) /\ x.v \in Nat
  BY CallFacts, AddressRange DEF Defined
<1> QED
  BY <1>1 DEF NumBase

(* A character more.                                                       *)
LEMMA ReadNext ==
  ASSUME NEW x \in Calls, x.fn = "strtol", NEW a, NEW val \in Int, Read(x, a, val),
         NEW d, d = Digit(x.mem[a]), d < NumBase(x)
  PROVE  Read(x, a + 1, Long(val * NumBase(x) + d))
<1>1. PICK f : /\ Value(x, a, f) /\ f \in [From(x) .. a -> Nat]
               /\ f[a] <= LongMax => val = f[a]
  BY DEF Read
<1>2. PICK s, B \in Nat : s = From(x) /\ B = NumBase(x) /\ B >= 2
  BY StrtolFacts DEF Read
<1>3. a \in Nat /\ s <= a /\ d \in Nat
  <2>1. d \in 0 .. 35 \cup {99}
    BY DigitRange
  <2>2. a \in Nat /\ s <= a
    BY <1>2 DEF Read
  <2> QED
    BY <2>1, <2>2
<1> DEFINE g == [b \in s .. a + 1 |-> IF b = a + 1 THEN f[a] * B + d ELSE f[b]]
<1>4. f[a] \in Nat /\ f[a] * B \in Nat /\ f[a] * B >= f[a]
  <2>1. \A m \in Nat : m * B \in Nat /\ m * B >= m
    BY <1>2
  <2>2. f \in [s .. a -> Nat] /\ a \in s .. a
    BY <1>1, <1>2, <1>3
  <2>3. PICK m : m = f[a]
    OBVIOUS
  <2>4. m \in Nat
    BY <2>2, <2>3
  <2>5. m * B \in Nat /\ m * B >= m
    BY <2>1, <2>4
  <2> QED
    BY <2>3, <2>4, <2>5
<1>5. g \in [s .. a + 1 -> Nat] /\ g[a + 1] = f[a] * B + d /\ \A b \in s .. a : g[b] = f[b]
  BY SMTT(30), <1>1, <1>2, <1>3, <1>4
<1> HIDE DEF g
<1>6. Value(x, a + 1, g)
  <2>1. ASSUME NEW b \in s .. a + 1
        PROVE  g[b] = IF b = s THEN 0 ELSE g[b - 1] * B + Digit(x.mem[b - 1])
    <3>1. CASE b = a + 1
      <4>1. b - 1 = a /\ b # s /\ a \in s .. a
        BY <1>3, <3>1
      <4> QED
        BY <1>5, <3>1, <4>1
    <3>2. CASE b # a + 1
      <4>1. b \in s .. a /\ (b # s => b - 1 \in s .. a)
        BY <1>2, <1>3, <3>2
      <4>2. f[b] = IF b = s THEN 0 ELSE f[b - 1] * B + Digit(x.mem[b - 1])
        BY <1>1, <1>2, <4>1 DEF Value
      <4> QED
        BY <1>5, <4>1, <4>2
    <3> QED
      BY <3>1, <3>2
  <2> QED
    BY <1>2, <1>5, <2>1 DEF Value
<1>7. g[a + 1] <= LongMax => Long(val * B + d) = g[a + 1]
  <2> SUFFICES ASSUME f[a] * B + d <= LongMax PROVE Long(val * B + d) = f[a] * B + d
    BY <1>5
  <2>1. f[a] * B + d \in 0 .. LongMax /\ f[a] <= LongMax
    BY <1>3, <1>4, LongFits
  <2>2. val = f[a]
    BY <1>1, <2>1
  <2> QED
    BY <2>1, <2>2, LongFits
<1>8. \A b \in s .. (a + 1) - 1 : Digit(x.mem[b]) < B
  <2>1. \A b \in s .. (a + 1) - 1 : b = a \/ b \in s .. a - 1
    BY <1>2, <1>3
  <2> QED
    BY <1>2, <2>1 DEF Read
<1> QED
  BY <1>2, <1>3, <1>5, <1>6, <1>7, <1>8 DEF Read

LEMMA StrtolStep ==
  ASSUME Typed, Numbering, strtol
  PROVE  Numbering' /\ NumberDone'
<1>1. /\ pc = "call" /\ Is({"strtol"}) /\ call' = call /\ mem' = mem
  BY DEF strtol
<1>2. PICK x \in Calls : x = call /\ x.fn = "strtol"
  BY <1>1 DEF Typed, Is
<1>3. /\ mem = x.mem /\ p >= x.v /\ x.v \in Nat /\ p \in Nat
      /\ \A b \in x.v .. p - 1 : x.mem[b] \in Blank
  BY <1>1, <1>2, StrtolFacts DEF Numbering, Typed
<1>4. CASE mem[p] \in Blank
  <2>1. p' = p + 1 /\ pc' = "call"
    BY <1>1, <1>4 DEF strtol
  <2>2. \A b \in x.v .. p' - 1 : b = p \/ b \in x.v .. p - 1
    BY <1>3, <2>1
  <2> QED
    BY <1>1, <1>2, <1>3, <1>4, <2>1, <2>2 DEF Numbering, NumberDone
<1>5. CASE mem[p] \notin Blank
  <2>1. p \in Address
    <3>1. PICK e \in Address : x.v <= e /\ x.mem[e] = 0
      BY <1>2, StrtolFacts DEF IsString
    <3>2. 0 \notin Blank /\ e \in Nat
      BY AddressRange DEF Blank
    <3>3. ~(e < p)
      BY <1>3, <3>1, <3>2
    <3>4. Base <= x.v
      BY CallFacts, AddressRange
    <3> QED
      BY <1>3, <3>1, <3>2, <3>3, <3>4, AddressRange
  <2>2. NumStart(x) = p
    BY <1>3, <1>5, <2>1, NumStartIs
  <2>3. PICK s : s = SignEnd(x)
    OBVIOUS
  <2>4. s = (IF mem[p] \in {PLUS, MINUS} THEN p + 1 ELSE p) /\ s \in Nat
    BY <1>3, <2>2, <2>3 DEF SignEnd
  <2> DEFINE hex   == call.n \in {0, 16} /\ mem[s] = ZERO /\ mem[s + 1] = SmallX
             octal == ~hex /\ call.n = 0 /\ mem[s] = ZERO
             base  == IF hex THEN 16 ELSE IF octal THEN 8 ELSE IF call.n = 0 THEN 10 ELSE call.n
  <2>5. /\ p' = IF hex THEN s + 2 ELSE IF octal THEN s + 1 ELSE s
        /\ num' = [neg |-> mem[p] = MINUS, val |-> 0, base |-> base]
        /\ pc' = "digit"
    BY <1>1, <1>5, <2>4 DEF strtol
  <2>6. hex <=> IsHex(x)
    BY <1>2, <1>3, <2>3 DEF IsHex
  <2>7. base = NumBase(x)
    BY <1>2, <1>3, <2>3, <2>6 DEF NumBase
  <2>8. From(x) = IF hex THEN s + 2 ELSE s
    BY <2>3, <2>6 DEF From
  <2>9. octal => NumBase(x) = 8 /\ x.mem[s] = ZERO /\ From(x) = s /\ p' = s + 1
    BY <1>3, <2>5, <2>7, <2>8
  <2>10. ~octal => From(x) = p'
    BY <2>5, <2>8
  <2>11. From(x) \in Nat /\ NumBase(x) \in Nat
    BY <1>2, <2>4, <2>8, StrtolFacts
  <2> HIDE DEF hex, octal, base
  <2>12. Read(x, p', 0)
    <3>1. CASE ~octal
      <4> DEFINE f == [b \in From(x) .. From(x) |-> 0]
      <4>1. f \in [From(x) .. From(x) -> Nat] /\ f[From(x)] = 0
        BY <2>11
      <4>2. \A b \in From(x) .. From(x) : b = From(x)
        BY <2>11
      <4>3. Value(x, From(x), f)
        BY <4>2 DEF Value
      <4> HIDE DEF f
      <4>4. \A b \in From(x) .. From(x) - 1 : FALSE
        BY <2>11
      <4> QED
        BY <2>10, <2>11, <3>1, <4>1, <4>3, <4>4 DEF Read
    <3>2. CASE octal
      <4> DEFINE f == [b \in s .. s + 1 |-> 0]
      <4>1. f \in [s .. s + 1 -> Nat] /\ f[s + 1] = 0
        BY <2>4
      <4>2. \A b \in s .. s + 1 : b = s \/ (b = s + 1 /\ b - 1 = s /\ s \in s .. s + 1)
        BY <2>4
      <4>3. Digit(x.mem[s]) = 0 /\ 0 * NumBase(x) + 0 = 0
        BY <2>9, <3>2, DigitRange
      <4>4. ASSUME NEW b \in s .. s + 1
            PROVE  f[b] = IF b = s THEN 0 ELSE f[b - 1] * NumBase(x) + Digit(x.mem[b - 1])
        <5>1. CASE b = s
          BY <5>1
        <5>2. CASE b # s
          <6>1. b - 1 = s /\ f[b - 1] = 0 /\ f[b] = 0
            BY <4>2, <5>2
          <6> QED
            BY <4>3, <5>2, <6>1
        <5> QED
          BY <5>1, <5>2
      <4>5. Value(x, s + 1, f)
        BY <2>9, <3>2, <4>4 DEF Value
      <4> HIDE DEF f
      <4>6. \A b \in s .. (s + 1) - 1 : b = s
        BY <2>4
      <4>7. s + 1 \in Nat /\ s <= s + 1
        BY <2>4
      <4> QED
        BY <2>4, <2>9, <3>2, <4>1, <4>3, <4>5, <4>6, <4>7 DEF Read
    <3> QED
      BY <3>1, <3>2
  <2>13. num' = [neg |-> num'.neg, base |-> NumBase(x), val |-> num'.val] /\ num'.val = 0
    BY <2>5, <2>7
  <2>14. num'.neg = (x.mem[NumStart(x)] = MINUS)
    BY <1>3, <2>2, <2>5
  <2> QED
    BY <1>1, <1>2, <1>3, <2>5, <2>12, <2>13, <2>14 DEF Numbering, NumberDone
<1> QED
  BY <1>4, <1>5

LEMMA DigitStep ==
  ASSUME Typed, Numbering, digit
  PROVE  Numbering' /\ NumberDone'
<1>1. pc = "digit" /\ call' = call /\ mem' = mem
  BY DEF digit
<1>2. PICK x \in Calls : x = call /\ x.fn = "strtol"
  BY <1>1 DEF Typed, Is
<1>3. /\ mem = x.mem /\ num = [neg |-> num.neg, base |-> NumBase(x), val |-> num.val]
      /\ num.neg = (x.mem[NumStart(x)] = MINUS)
      /\ num.val \in Int /\ Read(x, p, num.val) /\ num.base = NumBase(x)
  BY <1>1, <1>2 DEF Numbering
<1>4. PICK d : d = Digit(mem[p]) /\ d \in 0 .. 35 \cup {99}
  BY DigitRange
<1>5. NumBase(x) \in 2 .. 36
  BY <1>2, StrtolFacts
<1>6. CASE d # 99 /\ d < NumBase(x)
  <2>1. /\ num' = [num EXCEPT !.val = Long(num.val * num.base + d)]
        /\ p' = p + 1 /\ pc' = pc
    BY <1>3, <1>4, <1>6 DEF digit, Accepts
  <2>2. Read(x, p + 1, Long(num.val * NumBase(x) + d))
    BY <1>2, <1>3, <1>4, <1>6, ReadNext
  <2>3. Long(num.val * NumBase(x) + d) \in Int
    <3>1. num.val * NumBase(x) + d \in Int
      BY <1>3, <1>4, <1>5
    <3> QED
      BY <3>1, LongFits
  <2>4. num' = [neg |-> num.neg, base |-> NumBase(x), val |-> Long(num.val * NumBase(x) + d)]
    BY <1>3, <2>1
  <2>5. /\ num' = [neg |-> num'.neg, base |-> NumBase(x), val |-> num'.val]
        /\ num'.neg = num.neg /\ num'.val = Long(num.val * NumBase(x) + d)
    BY <2>4
  <2>6. pc' = "digit" /\ ~(pc' = "call") /\ ~(pc' = "done")
    BY <1>1, <2>1
  <2> QED
    BY <1>1, <1>2, <1>3, <2>1, <2>2, <2>3, <2>5, <2>6 DEF Numbering, NumberDone
<1>7. CASE ~(d # 99 /\ d < NumBase(x))
  <2>1. /\ ret' = IF num.neg THEN Long(-num.val) ELSE num.val
        /\ p' = p /\ pc' = "done"
    BY <1>3, <1>4, <1>7 DEF digit, Accepts, Return
  <2>2. Digit(x.mem[p]) >= NumBase(x)
    BY <1>3, <1>4, <1>5, <1>7
  <2>3. ret' = IF x.mem[NumStart(x)] = MINUS THEN Long(-num.val) ELSE num.val
    BY <1>3, <2>1
  <2> QED
    BY <1>1, <1>2, <1>3, <2>1, <2>2, <2>3 DEF Numbering, NumberDone
<1> QED
  BY <1>6, <1>7

LEMMA StrtolSteps ==
  ASSUME Typed, Is({"strtol"}), [Next]_vars
  PROVE  strtol \/ digit \/ UNCHANGED vars
<1>1. call.fn = "strtol" /\ pc # "rep" /\ pc # "copy"
  BY DEF Typed, Is, Moves
<1>2. ~memmove /\ ~memset /\ ~rep /\ ~repEnds
  BY <1>1 DEF memmove, memset, rep, repEnds, Is
<1>3. ~strcat /\ ~strlcpy /\ ~strncpy /\ ~strcpy
  BY <1>1 DEF strcat, strlcpy, strncpy, strcpy, Is
<1>4. ~strlen /\ ~strnlen /\ ~strchr /\ ~strfind /\ ~memfind /\ ~strcmp /\ ~strncmp /\ ~memcmp
  BY <1>1 DEF strlen, strnlen, strchr, strfind, memfind, strcmp, strncmp, memcmp, Scan, Is
<1> QED
  BY <1>2, <1>3, <1>4 DEF Next

StrtolInv == Typed /\ Numbering /\ NumberDone

LEMMA StrtolInit == Init => StrtolInv
<1> SUFFICES ASSUME Init PROVE StrtolInv
  OBVIOUS
<1>1. call \in Calls /\ mem = call.mem /\ p = call.v /\ pc = "call"
  BY DEF Init
<1>2. call.v \in Nat
  BY <1>1, CallFacts, AddressRange
<1>3. p >= call.v /\ \A b \in call.v .. p - 1 : mem[b] \in Blank
  BY <1>1, <1>2
<1> QED
  BY <1>1, <1>3, TypedInit DEF StrtolInv, Numbering, NumberDone

LEMMA StrtolNext == StrtolInv /\ [Next]_vars => StrtolInv'
<1> SUFFICES ASSUME StrtolInv, [Next]_vars PROVE StrtolInv'
  OBVIOUS
<1>1. Typed' /\ call' = call
  BY TypedNext, CallStays DEF StrtolInv
<1>2. CASE ~Is({"strtol"})
  <2>1. ~Is({"strtol"})' /\ pc' # "digit"
    BY <1>1, <1>2 DEF Is, Typed
  <2> QED
    BY <1>1, <2>1 DEF StrtolInv, Numbering, NumberDone
<1>3. CASE Is({"strtol"})
  <2>1. CASE UNCHANGED vars
    BY <1>1, <2>1 DEF StrtolInv, Numbering, NumberDone, Is, vars
  <2> QED
    BY <1>1, <1>3, <2>1, StrtolSteps, StrtolStep, DigitStep DEF StrtolInv
<1> QED
  BY <1>2, <1>3

(* The value is determined by its equation.                                *)
LEMMA ValueUnique ==
  ASSUME NEW x, NEW a \in Nat, From(x) \in Nat, From(x) <= a,
         NEW f, Value(x, a, f), NEW g, Value(x, a, g)
  PROVE  f[a] = g[a]
<1>1. PICK s \in Nat : s = From(x)
  OBVIOUS
<1>2. PICK B : B = NumBase(x)
  OBVIOUS
<1>3. \A b \in s .. a : /\ f[b] = IF b = s THEN 0 ELSE f[b - 1] * B + Digit(x.mem[b - 1])
                        /\ g[b] = IF b = s THEN 0 ELSE g[b - 1] * B + Digit(x.mem[b - 1])
  BY <1>1, <1>2 DEF Value
<1> DEFINE S == {n \in Nat : s + n <= a => f[s + n] = g[s + n]}
<1>4. 0 \in S
  <2>1. s + 0 = s
    OBVIOUS
  <2> QED
    BY <1>3, <2>1
<1>5. ASSUME NEW n \in Nat, n \in S PROVE n + 1 \in S
  <2> SUFFICES ASSUME s + (n + 1) <= a PROVE f[s + (n + 1)] = g[s + (n + 1)]
    OBVIOUS
  <2>1. /\ s + (n + 1) \in s .. a /\ s + (n + 1) # s /\ s + (n + 1) - 1 = s + n
        /\ s + n <= a
    OBVIOUS
  <2>2. f[s + n] = g[s + n]
    BY <1>5, <2>1
  <2> QED
    BY <1>3, <2>1, <2>2
<1> HIDE DEF S
<1>6. Nat \subseteq S
  BY <1>4, <1>5, SetInduction
<1>7. a - s \in Nat /\ s + (a - s) = a
  BY <1>1
<1> QED
  BY <1>6, <1>7 DEF S

LEMMA StrtolMeans == StrtolInv => StrtolOK
<1> SUFFICES ASSUME StrtolInv, Done({"strtol"}) PROVE StrtolOK
  BY DEF StrtolOK
<1>1. PICK x \in Calls : x = call /\ x.fn = "strtol"
  BY DEF StrtolInv, Typed, Done, Is
<1>2. PICK val \in Int :
        /\ Digit(x.mem[p]) >= NumBase(x) /\ Read(x, p, val)
        /\ ret = IF x.mem[NumStart(x)] = MINUS THEN Long(-val) ELSE val
  BY <1>1 DEF StrtolInv, NumberDone, Done
<1>3. PICK f : Value(x, p, f) /\ f \in [From(x) .. p -> Nat] /\ (f[p] <= LongMax => val = f[p])
  BY <1>2 DEF Read
<1>4. NumValue(x, p) = f[p]
  <2> DEFINE value == CHOOSE h : h = [b \in From(x) .. p |->
                        IF b = From(x) THEN 0 ELSE h[b - 1] * NumBase(x) + Digit(x.mem[b - 1])]
  <2>1. NumValue(x, p) = value[p]
    BY DEF NumValue
  <2>2. PICK h : h = value
    OBVIOUS
  <2>3. Value(x, p, h)
    BY <1>3, <2>2 DEF Value
  <2>4. From(x) \in Nat /\ p \in Nat /\ From(x) <= p
    BY <1>2 DEF Read
  <2> HIDE DEF value
  <2> QED
    BY <1>3, <2>1, <2>2, <2>3, <2>4, ValueUnique
<1>5. f[p] \in Nat
  BY <1>2, <1>3 DEF Read
<1>6. NumValue(x, p) <= LongMax =>
        ret = IF x.mem[NumStart(x)] = MINUS THEN -NumValue(x, p) ELSE NumValue(x, p)
  BY <1>2, <1>3, <1>4, <1>5, LongFits
<1>7. \A a \in From(x) .. p - 1 : Digit(x.mem[a]) < NumBase(x)
  BY <1>2 DEF Read
<1> QED
  BY <1>1, <1>2, <1>6, <1>7 DEF StrtolOK

(* The numbers strtol reads, in every base, as long as a long holds them.  *)
THEOREM StrtolCorrect == Spec => []StrtolOK
BY StrtolInit, StrtolNext, StrtolMeans, PTL DEF Spec

(* Every result of the library that is not memory.                         *)
THEOREM ResultsAreCorrect == Spec => []ResultCorrect
<1>1. SearchesOK /\ StrtolOK => ResultCorrect
  BY DEF ResultCorrect
<1> QED
  BY <1>1, SearchesCorrect, StrtolCorrect, PTL
=============================================================================
