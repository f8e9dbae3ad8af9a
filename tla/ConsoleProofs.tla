---------------------------- MODULE ConsoleProofs ----------------------------
(***************************************************************************)
(* The circular buffer of the console is a queue, for every size of the    *)
(* buffer, every keyboard and every serial input: Console implements Fifo. *)
(* The types hold whether or not input keeps up with the buffer (FastSpec).*)
(* The refinement needs that it does: Pending counts the characters that   *)
(* may still enter the buffer, and stays below its size.                   *)
(*                                                                         *)
(* The keyboard driver, in the second part, reads what the typist struck,  *)
(* for every keyboard whose keys are in the tables (KeyboardAssumption),   *)
(* however the polls divide the bytes of a key and whether or not the      *)
(* buffer overflows.  Where two keys have one modifier, as shiftcode[]     *)
(* allows, the typist has at most one of them down (OneOfEach): the code   *)
(* ends the modifier with the first of the two that is released.           *)
(***************************************************************************)
EXTENDS Console, SequenceTheorems, TLAPS

Ring == [buf : [0 .. CONSBUFSIZE - 1 -> Byte],
         rpos : 0 .. CONSBUFSIZE - 1, wpos : 0 .. CONSBUFSIZE - 1, unread : Nat]

LEMMA SizeFact == CONSBUFSIZE \in Nat /\ CONSBUFSIZE > 1
BY ConsoleAssumption DEF ConsoleAssumption

(* cons after cons_getc took a character.                                  *)
Taken(cs) == [cs EXCEPT !.rpos = Advance(@), !.unread = @ - 1]

-----------------------------------------------------------------------------
(* The circular buffer.                                                    *)

LEMMA WaitingRange ==
  ASSUME NEW cs \in Ring
  PROVE  /\ Waiting(cs) \in 0 .. CONSBUFSIZE - 1
         /\ HasInput(cs) <=> Waiting(cs) # 0
         /\ \A i \in 1 .. Waiting(cs) : Slot(cs.rpos + i - 1) \in 0 .. CONSBUFSIZE - 1
BY SizeFact DEF Ring, Waiting, HasInput, Slot

LEMMA ContentsIsSeq ==
  ASSUME NEW cs \in Ring
  PROVE  /\ Contents(cs) \in Seq(Byte)
         /\ Len(Contents(cs)) = Waiting(cs)
         /\ \A i \in 1 .. Waiting(cs) : Contents(cs)[i] = cs.buf[Slot(cs.rpos + i - 1)]
<1>1. \A i \in 1 .. Waiting(cs) : cs.buf[Slot(cs.rpos + i - 1)] \in Byte
  BY WaitingRange DEF Ring
<1>2. Waiting(cs) \in Nat
  BY WaitingRange, SizeFact
<1> QED
  BY <1>1, <1>2 DEF Contents

LEMMA AdvanceType ==
  ASSUME NEW pos \in 0 .. CONSBUFSIZE - 1
  PROVE  /\ Advance(pos) \in 0 .. CONSBUFSIZE - 1
         /\ Advance(pos) = pos + 1 \/ (pos = CONSBUFSIZE - 1 /\ Advance(pos) = 0)
BY SizeFact DEF Advance

LEMMA StashFields ==
  ASSUME NEW cs \in Ring, NEW c \in Byte, c # 0
  PROVE  /\ stash(cs, c) = [buf |-> [cs.buf EXCEPT ![cs.wpos] = c], rpos |-> cs.rpos,
                            wpos |-> Advance(cs.wpos), unread |-> cs.unread + 1]
         /\ [cs.buf EXCEPT ![cs.wpos] = c] \in [0 .. CONSBUFSIZE - 1 -> Byte]
<1>1. cs = [buf |-> cs.buf, rpos |-> cs.rpos, wpos |-> cs.wpos, unread |-> cs.unread]
  BY DEF Ring
<1>2. /\ cs.buf \in [0 .. CONSBUFSIZE - 1 -> Byte] /\ cs.wpos \in 0 .. CONSBUFSIZE - 1
  BY DEF Ring
<1>3. [cs.buf EXCEPT ![cs.wpos] = c] \in [0 .. CONSBUFSIZE - 1 -> Byte]
  BY <1>2
<1> QED
  BY <1>1, <1>3 DEF stash

LEMMA StashRing ==
  ASSUME NEW cs \in Ring, NEW c \in Byte
  PROVE  stash(cs, c) \in Ring
<1>1. CASE c = 0
  BY <1>1 DEF stash
<1>2. CASE c # 0
  <2>1. /\ cs.rpos \in 0 .. CONSBUFSIZE - 1 /\ Advance(cs.wpos) \in 0 .. CONSBUFSIZE - 1
        /\ cs.unread + 1 \in Nat
    BY AdvanceType DEF Ring
  <2> QED
    <3> DEFINE b == [cs.buf EXCEPT ![cs.wpos] = c]
    <3>1. /\ stash(cs, c) = [buf |-> b, rpos |-> cs.rpos, wpos |-> Advance(cs.wpos),
                             unread |-> cs.unread + 1]
          /\ b \in [0 .. CONSBUFSIZE - 1 -> Byte]
      BY <1>2, StashFields
    <3> HIDE DEF b
    <3> QED
      BY <2>1, <3>1 DEF Ring
<1> QED
  BY <1>1, <1>2

LEMMA StashWaiting ==
  ASSUME NEW cs \in Ring, NEW c \in Byte, c # 0
  PROVE  /\ Waiting(cs) < CONSBUFSIZE - 1 => Waiting(stash(cs, c)) = Waiting(cs) + 1
         /\ Waiting(cs) = CONSBUFSIZE - 1 => Waiting(stash(cs, c)) = 0
         /\ stash(cs, c).unread = cs.unread + 1
<1>1. /\ stash(cs, c).rpos = cs.rpos /\ stash(cs, c).wpos = Advance(cs.wpos)
      /\ stash(cs, c).unread = cs.unread + 1
  BY StashFields
<1>2. cs.rpos \in 0 .. CONSBUFSIZE - 1 /\ cs.wpos \in 0 .. CONSBUFSIZE - 1
  BY DEF Ring
<1> QED
  BY <1>1, <1>2, SizeFact, AdvanceType DEF Waiting

(* cons_intr appends to the queue.                                         *)
LEMMA StashAppends ==
  ASSUME NEW cs \in Ring, NEW c \in Byte, c # 0, Waiting(cs) < CONSBUFSIZE - 1
  PROVE  Contents(stash(cs, c)) = Append(Contents(cs), c)
<1> DEFINE t == stash(cs, c)
           n == Waiting(cs)
<1>1. t \in Ring /\ Waiting(t) = n + 1
  BY StashRing, StashWaiting
<1>2. n \in Nat
  BY WaitingRange, SizeFact
<1>3. t.rpos = cs.rpos /\ t.buf = [cs.buf EXCEPT ![cs.wpos] = c]
  BY StashFields
<1>4. Slot(cs.rpos + n) = cs.wpos
  BY SizeFact DEF Ring, Slot, Waiting
<1>5. \A i \in 1 .. n : Slot(cs.rpos + i - 1) # cs.wpos
  BY SizeFact DEF Ring, Slot, Waiting
<1>6. \A i \in 1 .. n : t.buf[Slot(t.rpos + i - 1)] = cs.buf[Slot(cs.rpos + i - 1)]
  BY <1>3, <1>5, WaitingRange DEF Ring
<1>7. t.buf[Slot(t.rpos + (n + 1) - 1)] = c
  <2>1. t.rpos + (n + 1) - 1 = cs.rpos + n
    BY <1>2, <1>3 DEF Ring
  <2> QED
    BY <2>1, <1>3, <1>4 DEF Ring
<1>8. /\ Contents(t) \in Seq(Byte) /\ Len(Contents(t)) = n + 1
      /\ \A i \in 1 .. n + 1 : Contents(t)[i] = t.buf[Slot(t.rpos + i - 1)]
  BY <1>1, ContentsIsSeq
<1>9. /\ Contents(cs) \in Seq(Byte) /\ Len(Contents(cs)) = n
      /\ \A i \in 1 .. n : Contents(cs)[i] = cs.buf[Slot(cs.rpos + i - 1)]
  BY ContentsIsSeq
<1>10. /\ Append(Contents(cs), c) \in Seq(Byte)
       /\ Len(Append(Contents(cs), c)) = n + 1
       /\ \A i \in 1 .. n : Append(Contents(cs), c)[i] = Contents(cs)[i]
       /\ Append(Contents(cs), c)[n + 1] = c
  <2> HIDE DEF n
  <2> QED BY <1>2, <1>9
<1>11. \A i \in 1 .. n + 1 : Contents(t)[i] = Append(Contents(cs), c)[i]
  <2> HIDE DEF n, t
  <2> SUFFICES ASSUME NEW i \in 1 .. n + 1
               PROVE  Contents(t)[i] = Append(Contents(cs), c)[i]
    OBVIOUS
  <2>1. CASE i = n + 1
    BY <2>1, <1>2, <1>7, <1>8, <1>10
  <2>2. CASE i \in 1 .. n
    <3>1. Contents(t)[i] = t.buf[Slot(t.rpos + i - 1)]
      BY <1>8
    <3>2. t.buf[Slot(t.rpos + i - 1)] = cs.buf[Slot(cs.rpos + i - 1)]
      BY <2>2, <1>6
    <3> QED
      BY <3>1, <3>2, <2>2, <1>9, <1>10
  <2>3. i = n + 1 \/ i \in 1 .. n
    BY <1>2
  <2> QED
    BY <2>1, <2>2, <2>3
<1> QED
  BY <1>8, <1>10, <1>11, SeqEqual

LEMMA TakenRing ==
  ASSUME NEW cs \in Ring, HasInput(cs), cs.unread >= Waiting(cs)
  PROVE  /\ Taken(cs) \in Ring
         /\ Waiting(Taken(cs)) = Waiting(cs) - 1
         /\ Taken(cs).buf = cs.buf /\ Taken(cs).rpos = Advance(cs.rpos)
         /\ Taken(cs).unread = cs.unread - 1
<1>0. cs = [buf |-> cs.buf, rpos |-> cs.rpos, wpos |-> cs.wpos, unread |-> cs.unread]
  BY DEF Ring
<1>1. /\ cs.rpos \in 0 .. CONSBUFSIZE - 1 /\ cs.wpos \in 0 .. CONSBUFSIZE - 1
      /\ cs.unread \in Nat /\ cs.buf \in [0 .. CONSBUFSIZE - 1 -> Byte]
  BY DEF Ring
<1>2. Taken(cs) = [buf |-> cs.buf, rpos |-> Advance(cs.rpos), wpos |-> cs.wpos,
                   unread |-> cs.unread - 1]
  <2> DEFINE x == Advance(cs.rpos)
             y == cs.unread - 1
  <2>1. Taken(cs) = [cs EXCEPT !.rpos = x, !.unread = y]
    BY Zenon DEF Taken
  <2> HIDE DEF x, y
  <2>2. Taken(cs) = [buf |-> cs.buf, rpos |-> x, wpos |-> cs.wpos, unread |-> y]
    BY <1>0, <2>1
  <2> QED
    BY <2>2 DEF x, y
<1>3. cs.rpos # cs.wpos
  BY DEF HasInput
<1>4. Waiting(cs) \in Nat \ {0}
  BY WaitingRange, SizeFact
<1>5. cs.unread - 1 \in Nat
  BY <1>1, <1>4
<1>6. Taken(cs) \in Ring
  BY <1>1, <1>2, <1>5, AdvanceType DEF Ring
<1>7. Waiting(Taken(cs)) = Waiting(cs) - 1
  <2>1. Taken(cs).rpos = Advance(cs.rpos) /\ Taken(cs).wpos = cs.wpos
    BY <1>2
  <2>2. Advance(cs.rpos) \in 0 .. CONSBUFSIZE - 1
    BY <1>1, AdvanceType
  <2> QED
    BY <1>1, <1>3, <2>1, <2>2, SizeFact DEF Waiting, Advance
<1> QED
  BY <1>2, <1>6, <1>7

(* cons_getc returns the head of the queue and leaves its tail.            *)
LEMMA TakenTail ==
  ASSUME NEW cs \in Ring, HasInput(cs), cs.unread >= Waiting(cs)
  PROVE  /\ Contents(cs) # <<>>
         /\ cs.buf[cs.rpos] = Head(Contents(cs))
         /\ Contents(Taken(cs)) = Tail(Contents(cs))
<1> DEFINE t == Taken(cs)
           n == Waiting(cs)
<1>1. t \in Ring /\ Waiting(t) = n - 1
  BY TakenRing
<1>2. n \in Nat \ {0}
  BY WaitingRange, SizeFact
<1>3. t.buf = cs.buf /\ t.rpos = Advance(cs.rpos)
  BY TakenRing
<1>4. \A i \in 1 .. n - 1 : Slot(t.rpos + i - 1) = Slot(cs.rpos + (i + 1) - 1)
  <2>1. cs.rpos \in 0 .. CONSBUFSIZE - 1
    BY DEF Ring
  <2>2. PICK r, a : r = cs.rpos /\ a = t.rpos
    OBVIOUS
  <2>3. r \in 0 .. CONSBUFSIZE - 1 /\ (a = r + 1 \/ (r = CONSBUFSIZE - 1 /\ a = 0))
    BY <1>3, <2>1, <2>2, AdvanceType
  <2>4. n \in 0 .. CONSBUFSIZE - 1
    BY WaitingRange
  <2> HIDE DEF n, t
  <2>5. ASSUME NEW i \in 1 .. n - 1 PROVE Slot(a + i - 1) = Slot(r + (i + 1) - 1)
    <3>1. i \in Nat /\ i > 0 /\ i < CONSBUFSIZE - 1
      BY <2>4, SizeFact
    <3>2. CASE a = r + 1
      <4>1. a + i - 1 = r + (i + 1) - 1
        BY <2>3, <3>1, <3>2, SizeFact
      <4> QED
        BY <4>1
    <3>3. CASE r = CONSBUFSIZE - 1 /\ a = 0
      BY <3>1, <3>3, SizeFact DEF Slot
    <3> QED
      BY <2>3, <3>2, <3>3
  <2> QED
    BY <2>2, <2>5
<1>5. Slot(cs.rpos + 1 - 1) = cs.rpos
  BY SizeFact DEF Ring, Slot
<1>6. /\ Contents(t) \in Seq(Byte) /\ Len(Contents(t)) = n - 1
      /\ \A i \in 1 .. n - 1 : Contents(t)[i] = t.buf[Slot(t.rpos + i - 1)]
  BY <1>1, ContentsIsSeq
<1>7. /\ Contents(cs) \in Seq(Byte) /\ Len(Contents(cs)) = n
      /\ \A i \in 1 .. n : Contents(cs)[i] = cs.buf[Slot(cs.rpos + i - 1)]
  BY ContentsIsSeq
<1>8. Contents(cs) # <<>>
  BY <1>2, <1>7
<1>9. cs.buf[cs.rpos] = Head(Contents(cs))
  <2>1. Contents(cs)[1] = cs.buf[cs.rpos]
    BY <1>2, <1>5, <1>7
  <2> QED
    BY <2>1, <1>7, <1>8
<1>10. /\ Tail(Contents(cs)) \in Seq(Byte)
       /\ Len(Tail(Contents(cs))) = n - 1
       /\ \A i \in 1 .. n - 1 : Tail(Contents(cs))[i] = Contents(cs)[i + 1]
  BY <1>7, <1>8, HeadTailProperties
<1>11. \A i \in 1 .. n - 1 : Contents(t)[i] = Tail(Contents(cs))[i]
  <2> HIDE DEF n, t
  <2> SUFFICES ASSUME NEW i \in 1 .. n - 1
               PROVE  Contents(t)[i] = Tail(Contents(cs))[i]
    OBVIOUS
  <2>1. i + 1 \in 1 .. n
    BY <1>2
  <2>2. Contents(t)[i] = cs.buf[Slot(t.rpos + i - 1)]
    BY <1>3, <1>6
  <2>3. Contents(cs)[i + 1] = cs.buf[Slot(cs.rpos + (i + 1) - 1)]
    BY <2>1, <1>7
  <2> QED
    BY <2>2, <2>3, <1>4, <1>10
<1> QED
  BY <1>6, <1>8, <1>9, <1>10, <1>11, SeqEqual

-----------------------------------------------------------------------------
(* The keyboard driver.                                                    *)

LEMMA TablesType ==
  ASSUME NEW data \in Byte
  PROVE  /\ shiftcode(data) \subseteq Flags /\ togglecode(data) \subseteq Flags
         /\ normalmap(data) \in Byte /\ shiftmap(data) \in Byte /\ ctlmap(data) \in Byte
<1>1. shiftcode(data) \subseteq Flags /\ togglecode(data) \subseteq Flags
  BY DEF shiftcode, togglecode, Flags
<1>2. normalmap(data) \in Byte
  BY DEF normalmap, Byte, KEY_HOME, KEY_DEL
<1>3. ctlmap(data) \in Byte
  BY DEF ctlmap, Byte, KEY_HOME, KEY_DEL
<1> QED
  BY <1>1, <1>2, <1>3 DEF shiftmap, Byte

LEMMA SwapCaseType ==
  ASSUME NEW c \in Byte
  PROVE  SwapCase(c) \in Byte
BY DEF SwapCase, Byte

LEMMA KbdType ==
  ASSUME NEW flags, flags \subseteq Flags, NEW data \in Byte
  PROVE  /\ kbd_proc_data(flags, data).shift \subseteq Flags
         /\ kbd_proc_data(flags, data).c \in Byte
<1>1. CASE data = E0
  BY <1>1 DEF kbd_proc_data, Flags, Byte
<1>2. CASE data # E0 /\ data >= 128
  <2> DEFINE d == IF "E0ESC" \in flags THEN data ELSE data - 128
  <2>1. kbd_proc_data(flags, data) =
          [shift |-> flags \ (shiftcode(d) \cup {"E0ESC"}), c |-> 0]
    BY <1>2 DEF kbd_proc_data
  <2> HIDE DEF d
  <2> QED
    BY <2>1 DEF Byte
<1>3. CASE data # E0 /\ ~(data >= 128)
  <2> DEFINE d == IF "E0ESC" \in flags THEN data + 128 ELSE data
             s == Toggle((flags \ {"E0ESC"}) \cup shiftcode(d), togglecode(d))
             c == charcode(s, d)
  <2>1. d \in Byte
    BY <1>3 DEF Byte
  <2>2. s \subseteq Flags
    <3> HIDE DEF d
    <3> QED BY <2>1, TablesType DEF Toggle
  <2>3. c \in Byte
    <3> HIDE DEF d, s
    <3> QED BY <2>1, TablesType DEF charcode
  <2>4. kbd_proc_data(flags, data) =
          [shift |-> s, c |-> IF "CAPSLOCK" \in s THEN SwapCase(c) ELSE c]
    BY <1>3 DEF kbd_proc_data
  <2> HIDE DEF s, c
  <2> QED
    BY <2>2, <2>3, <2>4, SwapCaseType
<1> QED
  BY <1>1, <1>2, <1>3

-----------------------------------------------------------------------------
(* The types.  cons_getc takes a character only when one is waiting, so    *)
(* what it subtracts from unread was counted: IInv says so.                *)

IInv == TypeOK /\ Waiting(cons) <= cons.unread

LEMMA SentType ==
  ASSUME NEW codes \in Seq(Byte), NEW strike \in Strike \cup {NULL}
  PROVE  Sent(codes, strike) \in Seq(Packet) /\ Len(Sent(codes, strike)) = Len(codes)
<1>1. Len(codes) \in Nat /\ \A i \in 1 .. Len(codes) : codes[i] \in Byte
  OBVIOUS
<1>2. ASSUME NEW i \in 1 .. Len(codes)
      PROVE  [data |-> codes[i], aux |-> FALSE,
              strike |-> IF i = Len(codes) THEN strike ELSE NULL] \in Packet
  BY <1>1 DEF Packet
<1> QED
  BY <1>1, <1>2 DEF Sent

LEMMA InitInv == Init => IInv
<1> SUFFICES ASSUME Init PROVE IInv
  OBVIOUS
<1>1. 0 \in Byte
  BY DEF Byte
<1>2. cons \in Ring /\ Waiting(cons) = 0 /\ cons.unread = 0
  BY <1>1, SizeFact DEF Init, Ring, Waiting
<1>3. 0 \in 0 .. MaxEvents
  BY ConsoleAssumption DEF ConsoleAssumption
<1>4. /\ cons \in Ring /\ serial_exists \in BOOLEAN /\ out \in Byte
      /\ shift \subseteq Flags /\ pc \in {"serial", "kbd", "take", "reset"}
  BY <1>1, <1>2 DEF Init
<1>5. /\ rx \in Byte \cup {NULL} /\ obuf \in Packet \cup {NULL} /\ kq \in Seq(Packet)
      /\ down \subseteq Keys /\ caps \in BOOLEAN /\ events \in 0 .. MaxEvents
  <2>1. <<>> \in Seq(Packet)
    OBVIOUS
  <2>2. rx = NULL /\ obuf = NULL /\ kq = <<>> /\ down = {} /\ caps = FALSE /\ events = 0
    BY DEF Init
  <2> QED
    BY <1>3, <2>1, <2>2
<1> QED
  BY <1>2, <1>4, <1>5 DEF IInv, TypeOK, Ring

(* What a step of the kernel does to the buffer, whichever it is.          *)
LEMMA StashInv ==
  ASSUME NEW cs \in Ring, NEW c \in Byte, Waiting(cs) <= cs.unread
  PROVE  stash(cs, c) \in Ring /\ Waiting(stash(cs, c)) <= stash(cs, c).unread
<1>1. CASE c = 0
  BY <1>1 DEF stash
<1>2. CASE c # 0
  <2>1. Waiting(cs) \in 0 .. CONSBUFSIZE - 1 /\ cs.unread \in Nat
    BY WaitingRange DEF Ring
  <2>2. stash(cs, c) \in Ring
    BY StashRing
  <2> QED
    BY <1>2, <2>1, <2>2, SizeFact, StashWaiting
<1> QED
  BY <1>1, <1>2

LEMMA SerialInv == IInv /\ serial_intr => IInv'
<1> SUFFICES ASSUME IInv, serial_intr PROVE IInv'
  OBVIOUS
<1>1. cons \in Ring /\ Waiting(cons) <= cons.unread
  BY DEF IInv, TypeOK, Ring
<1>2. CASE serial_exists /\ rx # NULL
  <2>1. rx \in Byte
    BY <1>2 DEF IInv, TypeOK
  <2>2. cons' = stash(cons, rx) /\ rx' = NULL /\ pc' = pc
    BY <1>2 DEF serial_intr
  <2>3. cons' \in Ring /\ Waiting(cons)' <= cons'.unread
    BY <1>1, <2>1, <2>2, StashInv DEF Waiting
  <2> QED
    BY <2>2, <2>3 DEF serial_intr, IInv, TypeOK, Ring
<1>3. CASE ~(serial_exists /\ rx # NULL)
  BY <1>1, <1>3 DEF serial_intr, IInv, TypeOK, Ring, Waiting
<1> QED
  BY <1>2, <1>3

LEMMA KbdInv == IInv /\ kbd_intr => IInv'
<1> SUFFICES ASSUME IInv, kbd_intr PROVE IInv'
  OBVIOUS
<1>1. cons \in Ring /\ Waiting(cons) <= cons.unread
  BY DEF IInv, TypeOK, Ring
<1>2. CASE obuf # NULL /\ ~obuf.aux
  <2> DEFINE r == kbd_proc_data(shift, obuf.data)
  <2>1. obuf.data \in Byte /\ shift \subseteq Flags
    BY <1>2 DEF IInv, TypeOK, Packet
  <2>2. r.shift \subseteq Flags /\ r.c \in Byte
    BY <2>1, KbdType
  <2>3. /\ shift' = r.shift /\ obuf' = NULL
        /\ \/ pc' = "reset" /\ cons' = cons
           \/ pc' = pc /\ cons' = stash(cons, r.c)
    BY <1>2 DEF kbd_intr
  <2> HIDE DEF r
  <2>4. cons' \in Ring /\ Waiting(cons)' <= cons'.unread
    BY <1>1, <2>2, <2>3, StashInv DEF Waiting
  <2> QED
    BY <2>2, <2>3, <2>4 DEF kbd_intr, IInv, TypeOK, Ring
<1>3. CASE ~(obuf # NULL /\ ~obuf.aux)
  BY <1>1, <1>3 DEF kbd_intr, IInv, TypeOK, Ring, Waiting
<1> QED
  BY <1>2, <1>3

LEMMA GetcInv == IInv /\ cons_getc => IInv'
<1> SUFFICES ASSUME IInv, cons_getc PROVE IInv'
  OBVIOUS
<1>1. cons \in Ring /\ Waiting(cons) <= cons.unread
  BY DEF IInv, TypeOK, Ring
<1>2. CASE HasInput(cons)
  <2>1. cons' = Taken(cons) /\ out' = cons.buf[cons.rpos]
    BY <1>2, Zenon DEF cons_getc, Taken
  <2>2. cons.unread \in Nat /\ Waiting(cons) \in Nat /\ cons.buf[cons.rpos] \in Byte
    BY <1>1, WaitingRange, SizeFact DEF Ring
  <2>3. cons.unread >= Waiting(cons)
    BY <1>1, <2>2
  <2>4. /\ Taken(cons) \in Ring /\ Waiting(Taken(cons)) = Waiting(cons) - 1
        /\ Taken(cons).unread = cons.unread - 1
    BY <1>1, <1>2, <2>3, TakenRing
  <2>5. cons' \in Ring /\ Waiting(cons)' <= cons'.unread
    BY <1>1, <2>1, <2>2, <2>4 DEF Waiting
  <2> QED
    BY <2>1, <2>2, <2>5 DEF cons_getc, devices, IInv, TypeOK, Ring
<1>3. CASE ~HasInput(cons)
  <2>1. cons' = cons /\ out' = 0 /\ 0 \in Byte
    BY <1>3 DEF cons_getc, Byte
  <2> QED
    BY <1>1, <2>1 DEF cons_getc, devices, IInv, TypeOK, Ring, Waiting
<1> QED
  BY <1>2, <1>3

LEMMA TransferInv == IInv /\ Transfer => IInv'
<1> SUFFICES ASSUME IInv, Transfer PROVE IInv'
  OBVIOUS
<1>1. Head(kq) \in Packet /\ Tail(kq) \in Seq(Packet)
  BY DEF Transfer, IInv, TypeOK
<1> QED
  BY <1>1 DEF Transfer, kernel, IInv, TypeOK, Waiting

(* A key struck is noted with its modifiers.                               *)
LEMMA PressStrike ==
  ASSUME IInv, NEW k \in Keys, Press(k)
  PROVE  /\ \E strike \in Strike : kq' = kq \o Sent(k.make, strike)
         /\ down' \subseteq Keys /\ caps' \in BOOLEAN
<1> DEFINE keys == down \cup {k}
           cap  == IF k.mod = "CAPS" THEN ~caps ELSE caps
           mods == {j.mod : j \in keys} \ {"", "CAPS"}
           strike == [key |-> k, mods |-> mods, caps |-> cap]
<1>1. keys \subseteq Keys /\ caps \in BOOLEAN /\ cap \in BOOLEAN
  BY DEF IInv, TypeOK
<1>2. \A j \in Keys : /\ j.mod \in {"", "SHIFT", "CTL", "ALT", "CAPS"}
                      /\ j.make \in Seq(Byte)
  BY ConsoleAssumption DEF ConsoleAssumption, KeyType
<1>3. mods \in SUBSET Modifiers
  <2> HIDE DEF keys
  <2> QED BY <1>1, <1>2 DEF Modifiers
<1>4. strike \in Strike
  <2> HIDE DEF mods, cap
  <2> QED BY <1>1, <1>3 DEF Strike
<1>5. down' = keys /\ caps' = cap /\ kq' = kq \o Sent(k.make, strike)
  BY Zenon DEF Press
<1> HIDE DEF keys, cap, strike
<1> QED
  BY <1>1, <1>4, <1>5

LEMMA PressInv ==
  ASSUME IInv, events < MaxEvents, NEW k \in Keys, Press(k)
  PROVE  IInv'
<1>1. k.make \in Seq(Byte)
  BY ConsoleAssumption DEF ConsoleAssumption, KeyType
<1>2. PICK strike \in Strike : kq' = kq \o Sent(k.make, strike)
  BY PressStrike
<1>3. Sent(k.make, strike) \in Seq(Packet)
  BY <1>1, SentType
<1>4. kq' \in Seq(Packet)
  BY <1>2, <1>3 DEF IInv, TypeOK
<1>5. events' = events + 1 /\ UNCHANGED <<kernel, serial_exists, rx, obuf>>
  BY DEF Press
<1>6. events' \in 0 .. MaxEvents
  BY <1>5, ConsoleAssumption DEF IInv, TypeOK, ConsoleAssumption
<1>7. down' \subseteq Keys /\ caps' \in BOOLEAN
  BY PressStrike
<1> QED
  BY <1>4, <1>5, <1>6, <1>7 DEF kernel, IInv, TypeOK, Waiting

LEMMA ReleaseInv ==
  ASSUME IInv, events < MaxEvents, NEW k \in Keys, Release(k)
  PROVE  IInv'
<1>1. k.break \in Seq(Byte)
  BY ConsoleAssumption DEF ConsoleAssumption, KeyType
<1>2. Sent(k.break, NULL) \in Seq(Packet)
  BY <1>1, SentType
<1>3. kq' \in Seq(Packet)
  BY <1>2 DEF Release, IInv, TypeOK
<1>4. events' \in 0 .. MaxEvents
  BY ConsoleAssumption DEF Release, IInv, TypeOK, ConsoleAssumption
<1> QED
  BY <1>3, <1>4 DEF Release, kernel, IInv, TypeOK, Waiting

LEMMA MouseInv ==
  ASSUME IInv, events < MaxEvents, MouseMoves
  PROVE  IInv'
<1>1. [data |-> 0, aux |-> TRUE, strike |-> NULL] \in Packet
  BY DEF Packet, Byte
<1>2. kq' \in Seq(Packet)
  BY <1>1 DEF MouseMoves, IInv, TypeOK
<1>3. events' \in 0 .. MaxEvents
  BY ConsoleAssumption DEF MouseMoves, IInv, TypeOK, ConsoleAssumption
<1> QED
  BY <1>2, <1>3 DEF MouseMoves, kernel, IInv, TypeOK, Waiting

LEMMA SerialArrivesInv ==
  ASSUME IInv, events < MaxEvents, NEW b \in SerialBytes, SerialArrives(b)
  PROVE  IInv'
<1>1. b \in Byte
  BY ConsoleAssumption DEF ConsoleAssumption
<1>2. events' \in 0 .. MaxEvents
  BY ConsoleAssumption DEF SerialArrives, IInv, TypeOK, ConsoleAssumption
<1> QED
  BY <1>1, <1>2 DEF SerialArrives, kernel, IInv, TypeOK, Waiting

LEMMA FastNextInv == IInv /\ [FastNext]_vars => IInv'
<1> SUFFICES ASSUME IInv, [FastNext]_vars PROVE IInv'
  OBVIOUS
<1>1. CASE Kernel
  BY <1>1, SerialInv, KbdInv, GetcInv DEF Kernel
<1>2. CASE Transfer
  BY <1>2, TransferInv
<1>3. CASE FastInput
  BY <1>3, SerialArrivesInv, PressInv, ReleaseInv, MouseInv DEF FastInput
<1>4. CASE UNCHANGED vars
  BY <1>4 DEF vars, kernel, devices, IInv, TypeOK, Waiting
<1> QED
  BY <1>1, <1>2, <1>3, <1>4 DEF FastNext

LEMMA NextIsFast == [Next]_vars => [FastNext]_vars
BY DEF Next, FastNext, Input, FastInput

(* console.c, whether or not input keeps up with the buffer: the positions *)
(* stay in it and the flags and characters are those of the tables.        *)
THEOREM FastTypeCorrect == FastSpec => []TypeOK
<1>1. FastSpec => []IInv
  BY InitInv, FastNextInv, PTL DEF FastSpec
<1>2. IInv => TypeOK
  BY DEF IInv
<1> QED
  BY <1>1, <1>2, PTL

(* The same of the machine whose input keeps up with the buffer.           *)
THEOREM ConsoleTypeCorrect == Spec => []TypeOK
<1>1. Spec => FastSpec
  BY NextIsFast, PTL DEF Spec, FastSpec
<1> QED
  BY <1>1, FastTypeCorrect, PTL

-----------------------------------------------------------------------------
(* The queue.  A character that is on its way has a place in the buffer:   *)
(* Pending does not grow but where Input checks that it may.               *)

FitInv == IInv /\ Pending < CONSBUFSIZE

LEMMA PendingType ==
  ASSUME IInv
  PROVE  /\ cons \in Ring /\ Waiting(cons) \in Nat /\ Len(kq) \in Nat
         /\ Waiting(cons) < CONSBUFSIZE
<1>1. cons \in Ring /\ Len(kq) \in Nat
  BY DEF IInv, TypeOK, Ring
<1> QED
  BY <1>1, WaitingRange, SizeFact

LEMMA PendingNat == IInv => Pending \in Nat
<1> SUFFICES ASSUME IInv PROVE Pending \in Nat
  OBVIOUS
<1> QED
  BY PendingType DEF Pending

LEMMA InitFits == Init => FitInv
<1> SUFFICES ASSUME Init PROVE FitInv
  OBVIOUS
<1>1. IInv
  BY InitInv
<1>2. Waiting(cons) = 0
  BY SizeFact DEF Init, Waiting
<1>3. Len(kq) = 0 /\ rx = NULL /\ obuf = NULL
  BY DEF Init
<1> QED
  BY <1>1, <1>2, <1>3, SizeFact DEF FitInv, Pending

(* A character leaves a device for the buffer, where there is room for it. *)
LEMMA StashFits ==
  ASSUME NEW cs \in Ring, NEW c \in Byte, Waiting(cs) + 1 < CONSBUFSIZE
  PROVE  /\ Waiting(stash(cs, c)) \in Nat /\ Waiting(stash(cs, c)) <= Waiting(cs) + 1
         /\ c = 0 => Contents(stash(cs, c)) = Contents(cs)
         /\ c # 0 => /\ Len(Contents(cs)) < CONSBUFSIZE - 1
                     /\ Contents(stash(cs, c)) = Append(Contents(cs), c)
<1>1. Waiting(cs) \in Nat
  BY WaitingRange, SizeFact
<1>2. CASE c = 0
  BY <1>1, <1>2 DEF stash
<1>3. CASE c # 0
  <2>1. Waiting(cs) < CONSBUFSIZE - 1
    BY <1>1, SizeFact
  <2>2. Waiting(stash(cs, c)) = Waiting(cs) + 1
    BY <1>3, <2>1, StashWaiting
  <2>3. Contents(stash(cs, c)) = Append(Contents(cs), c)
    BY <1>3, <2>1, StashAppends
  <2>4. Len(Contents(cs)) < CONSBUFSIZE - 1
    BY <2>1, ContentsIsSeq
  <2> QED
    BY <1>1, <1>3, <2>2, <2>3, <2>4
<1> QED
  BY <1>2, <1>3

QueueStep == [Queue!Next]_<<Contents(cons), out>>

LEMMA SerialQueue == FitInv /\ serial_intr => QueueStep /\ Pending' <= Pending
<1> SUFFICES ASSUME FitInv, serial_intr PROVE QueueStep /\ Pending' <= Pending
  OBVIOUS
<1>0. /\ cons \in Ring /\ Waiting(cons) \in Nat /\ Len(kq) \in Nat
      /\ Pending < CONSBUFSIZE /\ out' = out /\ obuf' = obuf /\ kq' = kq
  BY PendingType DEF FitInv, serial_intr
<1>1. CASE serial_exists /\ rx # NULL
  <2>1. rx \in Byte
    BY <1>1 DEF FitInv, IInv, TypeOK
  <2>2. cons' = stash(cons, rx) /\ rx' = NULL
    BY <1>1 DEF serial_intr
  <2>3. Waiting(cons) + 1 < CONSBUFSIZE
    BY <1>0, <1>1, SizeFact DEF Pending
  <2>4. /\ Waiting(cons') \in Nat /\ Waiting(cons') <= Waiting(cons) + 1
        /\ rx = 0 => Contents(cons') = Contents(cons)
        /\ rx # 0 => /\ Len(Contents(cons)) < CONSBUFSIZE - 1
                     /\ Contents(cons') = Append(Contents(cons), rx)
    BY <1>0, <2>1, <2>2, <2>3, StashFits
  <2>5. Pending' <= Pending
    BY <1>0, <1>1, <2>2, <2>4 DEF Pending
  <2>6. CASE rx = 0
    BY <1>0, <2>4, <2>5, <2>6 DEF QueueStep
  <2>7. CASE rx # 0
    <3>1. rx \in 1 .. 255
      BY <2>1, <2>7 DEF Byte
    <3>2. Queue!Put(rx)
      BY <1>0, <2>4, <2>7 DEF Queue!Put
    <3> QED
      BY <2>5, <3>1, <3>2 DEF QueueStep, Queue!Next
  <2> QED
    BY <2>5, <2>6, <2>7
<1>2. CASE ~(serial_exists /\ rx # NULL)
  <2>1. cons' = cons /\ rx' = rx
    BY <1>2 DEF serial_intr
  <2> QED
    BY <1>0, <2>1 DEF QueueStep, Pending
<1> QED
  BY <1>1, <1>2

LEMMA KbdQueue == FitInv /\ kbd_intr => QueueStep /\ Pending' <= Pending
<1> SUFFICES ASSUME FitInv, kbd_intr PROVE QueueStep /\ Pending' <= Pending
  OBVIOUS
<1>0. /\ cons \in Ring /\ Waiting(cons) \in Nat /\ Len(kq) \in Nat
      /\ Pending < CONSBUFSIZE /\ out' = out /\ rx' = rx /\ kq' = kq
  BY PendingType DEF FitInv, kbd_intr
<1>1. CASE obuf # NULL /\ ~obuf.aux
  <2> DEFINE c == kbd_proc_data(shift, obuf.data).c
  <2>1. c \in Byte
    BY <1>1, KbdType DEF FitInv, IInv, TypeOK, Packet
  <2>2. obuf' = NULL /\ (cons' = cons \/ cons' = stash(cons, c))
    BY <1>1 DEF kbd_intr
  <2> HIDE DEF c
  <2>3. Waiting(cons) + 1 < CONSBUFSIZE
    BY <1>0, <1>1, SizeFact DEF Pending
  <2>4. CASE cons' = cons
    BY <1>0, <2>2, <2>4 DEF QueueStep, Pending
  <2>5. CASE cons' = stash(cons, c)
    <3>1. /\ Waiting(cons') \in Nat /\ Waiting(cons') <= Waiting(cons) + 1
          /\ c = 0 => Contents(cons') = Contents(cons)
          /\ c # 0 => /\ Len(Contents(cons)) < CONSBUFSIZE - 1
                      /\ Contents(cons') = Append(Contents(cons), c)
      BY <1>0, <2>1, <2>3, <2>5, StashFits
    <3>2. Pending' <= Pending
      BY <1>0, <1>1, <2>2, <3>1 DEF Pending
    <3>3. CASE c = 0
      BY <1>0, <3>1, <3>2, <3>3 DEF QueueStep
    <3>4. CASE c # 0
      <4>1. c \in 1 .. 255
        BY <2>1, <3>4 DEF Byte
      <4>2. Queue!Put(c)
        BY <1>0, <3>1, <3>4 DEF Queue!Put
      <4> QED
        BY <3>2, <4>1, <4>2 DEF QueueStep, Queue!Next
    <3> QED
      BY <3>3, <3>4
  <2> QED
    BY <2>2, <2>4, <2>5
<1>2. CASE ~(obuf # NULL /\ ~obuf.aux)
  <2>1. cons' = cons /\ obuf' = obuf
    BY <1>2 DEF kbd_intr
  <2> QED
    BY <1>0, <2>1 DEF QueueStep, Pending
<1> QED
  BY <1>1, <1>2

LEMMA GetcQueue == FitInv /\ cons_getc => QueueStep /\ Pending' <= Pending
<1> SUFFICES ASSUME FitInv, cons_getc PROVE QueueStep /\ Pending' <= Pending
  OBVIOUS
<1>0. /\ cons \in Ring /\ Waiting(cons) \in Nat /\ Len(kq) \in Nat
      /\ rx' = rx /\ obuf' = obuf /\ kq' = kq
      /\ cons.unread \in Nat /\ Waiting(cons) <= cons.unread
  BY PendingType DEF FitInv, IInv, cons_getc, devices, Ring
<1>1. CASE HasInput(cons)
  <2>1. cons' = Taken(cons) /\ out' = cons.buf[cons.rpos]
    BY <1>1, Zenon DEF cons_getc, Taken
  <2>2. cons.unread >= Waiting(cons)
    BY <1>0
  <2>3. Waiting(cons') = Waiting(cons) - 1
    BY <1>0, <1>1, <2>1, <2>2, TakenRing
  <2>4. /\ Contents(cons) # <<>> /\ out' = Head(Contents(cons))
        /\ Contents(cons') = Tail(Contents(cons))
    BY <1>0, <1>1, <2>1, <2>2, TakenTail
  <2>5. Queue!Get
    BY <2>4 DEF Queue!Get
  <2>6. Pending' <= Pending
    BY <1>0, <2>3 DEF Pending
  <2> QED
    BY <2>5, <2>6 DEF QueueStep, Queue!Next
<1>2. CASE ~HasInput(cons)
  <2>1. cons' = cons /\ out' = 0
    BY <1>2 DEF cons_getc
  <2>2. Contents(cons) = <<>>
    <3>1. Waiting(cons) = 0
      BY <1>0, <1>2, WaitingRange
    <3> QED
      BY <1>0, <3>1, ContentsIsSeq
  <2>3. Queue!Get
    BY <2>1, <2>2 DEF Queue!Get
  <2> QED
    BY <1>0, <2>1, <2>3 DEF QueueStep, Queue!Next, Pending
<1> QED
  BY <1>1, <1>2

LEMMA TransferQueue == FitInv /\ Transfer => QueueStep /\ Pending' <= Pending
<1> SUFFICES ASSUME FitInv, Transfer PROVE QueueStep /\ Pending' <= Pending
  OBVIOUS
<1>1. /\ Waiting(cons) \in Nat /\ kq \in Seq(Packet) /\ kq # <<>>
      /\ obuf = NULL /\ kq' = Tail(kq) /\ cons' = cons /\ out' = out /\ rx' = rx
  BY PendingType DEF FitInv, IInv, TypeOK, Transfer, kernel
<1>2. Len(kq') = Len(kq) - 1 /\ Len(kq) \in Nat
  BY <1>1
<1> QED
  BY <1>1, <1>2 DEF QueueStep, Pending

LEMMA InputQueue == FitInv /\ Input => QueueStep /\ Pending' < CONSBUFSIZE
<1> SUFFICES ASSUME FitInv, Input PROVE QueueStep /\ Pending' < CONSBUFSIZE
  OBVIOUS
<1>0. /\ Waiting(cons) \in Nat /\ kq \in Seq(Packet) /\ Len(kq) \in Nat
      /\ events < MaxEvents
  BY PendingType DEF FitInv, IInv, TypeOK, Input
<1>1. cons' = cons /\ out' = out
  BY DEF Input, SerialArrives, Press, Release, MouseMoves, kernel
<1>2. ASSUME NEW b \in SerialBytes, InputFits(1), SerialArrives(b)
      PROVE  Pending' < CONSBUFSIZE
  <2>1. obuf' = obuf /\ kq' = kq
    BY <1>2 DEF SerialArrives
  <2> QED
    BY <1>0, <1>1, <1>2, <2>1, SizeFact DEF InputFits, Pending
<1>3. ASSUME NEW codes \in Seq(Byte), NEW strike \in Strike \cup {NULL},
             InputFits(Len(codes)), kq' = kq \o Sent(codes, strike),
             rx' = rx, obuf' = obuf
      PROVE  Pending' < CONSBUFSIZE
  <2>1. Sent(codes, strike) \in Seq(Packet) /\ Len(Sent(codes, strike)) = Len(codes)
    BY SentType
  <2>2. Len(kq') = Len(kq) + Len(codes) /\ Len(codes) \in Nat
    <3> DEFINE sent == Sent(codes, strike)
    <3>1. sent \in Seq(Packet) /\ kq' = kq \o sent /\ Len(sent) = Len(codes)
      BY <1>3, <2>1
    <3> HIDE DEF sent
    <3>2. Len(kq \o sent) = Len(kq) + Len(sent)
      BY <1>0, <3>1, ConcatProperties
    <3> QED
      BY <3>1, <3>2
  <2> QED
    BY <1>0, <1>1, <1>3, <2>2, SizeFact DEF InputFits, Pending
<1>4. ASSUME NEW k \in Keys, InputFits(Len(k.make)), Press(k)
      PROVE  Pending' < CONSBUFSIZE
  <2>1. k.make \in Seq(Byte)
    BY ConsoleAssumption DEF ConsoleAssumption, KeyType
  <2>2. \E strike \in Strike : kq' = kq \o Sent(k.make, strike)
    BY <1>0, <1>4, PressStrike DEF FitInv
  <2>3. rx' = rx /\ obuf' = obuf
    BY <1>4 DEF Press
  <2> QED
    BY <1>3, <1>4, <2>1, <2>2, <2>3
<1>5. ASSUME NEW k \in Keys, InputFits(Len(k.break)), Release(k)
      PROVE  Pending' < CONSBUFSIZE
  <2>1. k.break \in Seq(Byte)
    BY ConsoleAssumption DEF ConsoleAssumption, KeyType
  <2>2. kq' = kq \o Sent(k.break, NULL) /\ rx' = rx /\ obuf' = obuf
    BY <1>5 DEF Release
  <2> QED
    BY <1>3, <1>5, <2>1, <2>2
<1>6. ASSUME InputFits(1), MouseMoves
      PROVE  Pending' < CONSBUFSIZE
  <2>1. Len(kq') = Len(kq) + 1 /\ rx' = rx /\ obuf' = obuf
    BY <1>0, <1>6 DEF MouseMoves
  <2> QED
    BY <1>0, <1>1, <1>6, <2>1, SizeFact DEF InputFits, Pending
<1>7. Pending' < CONSBUFSIZE
  BY <1>2, <1>4, <1>5, <1>6 DEF Input
<1> QED
  BY <1>1, <1>7 DEF QueueStep

LEMMA NextQueue == FitInv /\ [Next]_vars => QueueStep /\ FitInv'
<1> SUFFICES ASSUME FitInv, [Next]_vars PROVE QueueStep /\ FitInv'
  OBVIOUS
<1>0. IInv'
  BY FastNextInv, NextIsFast DEF FitInv
<1>1. CASE Kernel \/ Transfer
  <2>1. QueueStep /\ Pending' <= Pending
    BY <1>1, SerialQueue, KbdQueue, GetcQueue, TransferQueue DEF Kernel
  <2>2. Pending \in Nat
    BY PendingNat DEF FitInv
  <2>3. (IInv => Pending \in Nat)'
    BY PendingNat, PTL
  <2> QED
    BY <1>0, <2>1, <2>2, <2>3, SizeFact DEF FitInv
<1>2. CASE Input
  BY <1>0, <1>2, InputQueue DEF FitInv
<1>3. CASE UNCHANGED vars
  BY <1>0, <1>3 DEF FitInv, QueueStep, Pending, Waiting, Contents, vars, kernel, devices
<1> QED
  BY <1>1, <1>2, <1>3 DEF Next

(* console.c, cons_intr and cons_getc: while input keeps up, the circular  *)
(* buffer is a queue of the characters of both devices, returned once and  *)
(* in order, for every size of the buffer, keyboard and serial input.      *)
THEOREM QueueCorrect == Spec => ImplementsFifo
<1>1. Init => Queue!Init
  <2> SUFFICES ASSUME Init PROVE Queue!Init
    OBVIOUS
  <2>1. cons \in Ring /\ Waiting(cons) = 0 /\ out = 0
    BY InitFits, PendingType, SizeFact DEF Init, FitInv, Waiting
  <2>2. Contents(cons) = <<>>
    BY <2>1, ContentsIsSeq
  <2> QED
    BY <2>1, <2>2 DEF Queue!Init
<1>2. Spec => []FitInv
  BY InitFits, NextQueue, PTL DEF Spec
<1> QED
  BY <1>1, <1>2, NextQueue, PTL DEF Spec, ImplementsFifo, Queue!Spec, QueueStep

-----------------------------------------------------------------------------
(* The keyboard driver.                                                    *)

-----------------------------------------------------------------------------
(* The flags after a byte, and what the byte must give: the character the  *)
(* typist meant, with the modifiers that were in force.                    *)
After(F, b) == IF b.aux THEN F ELSE kbd_proc_data(F, b.data).shift

Right(F, b) ==
  ~b.aux =>
    /\ kbd_proc_data(F, b.data).c = IF b.strike = NULL THEN 0 ELSE Meaning(b.strike)
    /\ b.strike # NULL => After(F, b) \cap Modifiers = b.strike.mods

(* The driver that has the flags F comes to G when it has read all of q,   *)
(* and is right about each byte; f gives the flags in between.             *)
Path(f, q) ==
  /\ f \in [0 .. Len(q) -> SUBSET Flags]
  /\ \A i \in 1 .. Len(q) : f[i] = After(f[i - 1], q[i]) /\ Right(f[i - 1], q[i])

Reads(F, q, G) == \E f : Path(f, q) /\ f[0] = F /\ f[Len(q)] = G

(* The flags of a driver that has read everything.                         *)
Agrees(F, keys, cap) ==
  /\ F \subseteq Flags
  /\ \A m \in Modifiers : m \in F <=> \E k \in keys : k.mod = m
  /\ "CAPSLOCK" \in F <=> cap
  /\ "E0ESC" \notin F

(* The flags when the byte in the controller is read.                      *)
Flagged == IF obuf = NULL THEN shift ELSE After(shift, obuf)

Tracked ==
  /\ obuf # NULL => Right(shift, obuf)
  /\ \E G : Reads(Flagged, kq, G) /\ Agrees(G, down, caps)
  /\ OneOfEach(down)

KInv == IInv /\ Tracked

-----------------------------------------------------------------------------
(* The bytes of a key.                                                     *)

(* The flags and the character of the key with the index d.                *)
Struck(F, d) == Toggle(F \cup shiftcode(d), togglecode(d))
Char(F, d) == IF "CAPSLOCK" \in F THEN SwapCase(charcode(F, d)) ELSE charcode(F, d)

LEMMA Escape ==
  ASSUME NEW F
  PROVE  kbd_proc_data(F, E0) = [shift |-> F \cup {"E0ESC"}, c |-> 0]
BY DEF kbd_proc_data

LEMMA MakeCode ==
  ASSUME NEW F, "E0ESC" \notin F, NEW d \in Byte, d < 128
  PROVE  kbd_proc_data(F, d) = [shift |-> Struck(F, d), c |-> Char(Struck(F, d), d)]
<1>1. d # E0 /\ ~(d >= 128)
  BY DEF E0, Byte
<1>2. F \ {"E0ESC"} = F
  OBVIOUS
<1> QED
  BY <1>1, <1>2 DEF kbd_proc_data, Struck, Char

LEMMA EscapedMakeCode ==
  ASSUME NEW F, "E0ESC" \notin F, NEW d \in Byte, ~(d < 128)
  PROVE  kbd_proc_data(F \cup {"E0ESC"}, d - 128) =
           [shift |-> Struck(F, d), c |-> Char(Struck(F, d), d)]
<1> DEFINE b == d - 128
<1>1. b # E0 /\ ~(b >= 128) /\ b + 128 = d
  BY DEF E0, Byte
<1>2. (F \cup {"E0ESC"}) \ {"E0ESC"} = F /\ "E0ESC" \in F \cup {"E0ESC"}
  OBVIOUS
<1> HIDE DEF b
<1>3. kbd_proc_data(F \cup {"E0ESC"}, b) =
        [shift |-> Struck(F, d), c |-> Char(Struck(F, d), d)]
  BY <1>1, <1>2 DEF kbd_proc_data, Struck, Char
<1> QED
  BY <1>3 DEF b

LEMMA BreakCode ==
  ASSUME NEW F, "E0ESC" \notin F, NEW d \in Byte, d < 128, d # E0 - 128
  PROVE  kbd_proc_data(F, d + 128) = [shift |-> F \ shiftcode(d), c |-> 0]
<1> DEFINE b == d + 128
<1>1. b # E0 /\ b >= 128 /\ b - 128 = d
  BY DEF E0, Byte
<1>2. F \ (shiftcode(d) \cup {"E0ESC"}) = F \ shiftcode(d)
  OBVIOUS
<1> HIDE DEF b
<1>3. kbd_proc_data(F, b) = [shift |-> F \ shiftcode(d), c |-> 0]
  BY <1>1, <1>2 DEF kbd_proc_data
<1> QED
  BY <1>3 DEF b

LEMMA EscapedBreakCode ==
  ASSUME NEW F, "E0ESC" \notin F, NEW d \in Byte, ~(d < 128), d # E0
  PROVE  kbd_proc_data(F \cup {"E0ESC"}, d) = [shift |-> F \ shiftcode(d), c |-> 0]
<1>1. d >= 128
  BY DEF Byte
<1>2. /\ (F \cup {"E0ESC"}) \ (shiftcode(d) \cup {"E0ESC"}) = F \ shiftcode(d)
      /\ "E0ESC" \in F \cup {"E0ESC"}
  OBVIOUS
<1> QED
  BY <1>1, <1>2 DEF kbd_proc_data

-----------------------------------------------------------------------------
(* A key goes down or up: the flags follow the keys.                       *)

(* The lists of flags do not overlap.                                      *)
LEMMA Toggles ==
  ASSUME NEW d \in Byte
  PROVE  togglecode(d) \subseteq Flags /\ togglecode(d) \cap Modifiers = {}
         /\ "E0ESC" \notin togglecode(d)
BY DEF togglecode, Flags, Modifiers

LEMMA KeyIndex ==
  ASSUME NEW k \in Keys
  PROVE  \E d \in Byte : HasIndex(k, d)
BY KeyboardAssumption DEF KeyboardAssumption

(* The modifiers of the keys that are down.                                *)
InForce(mods, keys) ==
  /\ mods \subseteq Modifiers
  /\ \A m \in Modifiers : m \in mods <=> \E k \in keys : k.mod = m

(* The Caps Lock state after the key k.                                    *)
Capped(ncap, cap, k) == ncap = IF k.mod = "CAPS" THEN ~cap ELSE cap

(* What the strike s notes of the key k, struck with these keys down.      *)
Notes(s, k, keys, cap) ==
  s.key = k /\ InForce(s.mods, keys \cup {k}) /\ Capped(s.caps, cap, k)

(* A driver that agrees with the keys reads the key k, with the index d.   *)
ReadsKey(F, keys, k, d, s) ==
  /\ Agrees(Struck(F, d), keys \cup {k}, s.caps)
  /\ Struck(F, d) \cap Modifiers = s.mods
  /\ Char(Struck(F, d), d) = Meaning(s)

LEMMA PressAgrees ==
  ASSUME NEW F, NEW keys \in SUBSET Keys, NEW cap \in BOOLEAN, Agrees(F, keys, cap),
         NEW k \in Keys, NEW d \in Byte, HasIndex(k, d),
         NEW s, Notes(s, k, keys, cap)
  PROVE  ReadsKey(F, keys, k, d, s)
<1> DEFINE S == Struck(F, d)
           mods == s.mods
           ncap == s.caps
<1>1. s.key = k /\ InForce(mods, keys \cup {k}) /\ Capped(ncap, cap, k)
  BY DEF Notes
<1> HIDE DEF mods, ncap
<1>2. /\ shiftcode(d) = {k.mod} \cap Modifiers
      /\ "CAPSLOCK" \in togglecode(d) <=> k.mod = "CAPS"
      /\ k.plain = normalmap(d) /\ k.shifted = shiftmap(d) /\ k.control = ctlmap(d)
  BY DEF HasIndex
<1>3. /\ togglecode(d) \subseteq Flags /\ togglecode(d) \cap Modifiers = {}
      /\ "E0ESC" \notin togglecode(d)
  BY Toggles
<1>4. /\ F \subseteq Flags /\ "E0ESC" \notin F
      /\ \A m \in Modifiers : m \in F <=> \E j \in keys : j.mod = m
      /\ "CAPSLOCK" \in F <=> cap
  BY DEF Agrees
<1>5. /\ Modifiers \subseteq Flags /\ "CAPSLOCK" \notin Modifiers /\ "E0ESC" \notin Modifiers
  BY DEF Modifiers, Flags
<1>6. ASSUME NEW m
      PROVE  m \in S <=>
               \/ (m \in F \/ m \in shiftcode(d)) /\ m \notin togglecode(d)
               \/ m \in togglecode(d) /\ ~(m \in F \/ m \in shiftcode(d))
  BY DEF Struck, Toggle
<1>7. S \subseteq Flags
  BY <1>2, <1>3, <1>4, <1>5, <1>6
<1>8. ASSUME NEW m \in Modifiers
      PROVE  m \in S <=> \E j \in keys \cup {k} : j.mod = m
  BY <1>2, <1>3, <1>4, <1>6
<1>9. "CAPSLOCK" \in S <=> ncap
  BY <1>1, <1>2, <1>4, <1>5, <1>6 DEF Capped
<1>10. "E0ESC" \notin S
  BY <1>2, <1>3, <1>4, <1>5, <1>6
<1>11. Agrees(S, keys \cup {k}, ncap)
  <2> HIDE DEF S
  <2> QED BY <1>7, <1>8, <1>9, <1>10 DEF Agrees
<1>12. ASSUME NEW m PROVE m \in mods <=> m \in S \cap Modifiers
  <2> HIDE DEF S
  <2> QED BY <1>1, <1>8 DEF InForce
<1>13. S \cap Modifiers = mods
  <2> HIDE DEF S
  <2> QED BY <1>12
<1>14. ("CTL" \in S <=> "CTL" \in mods) /\ ("SHIFT" \in S <=> "SHIFT" \in mods)
  <2> HIDE DEF S
  <2> QED BY <1>13 DEF Modifiers
<1>15. Char(S, d) = Meaning(s)
  <2> HIDE DEF S
  <2>1. s.key = k /\ s.mods = mods /\ s.caps = ncap
    BY <1>1 DEF mods, ncap
  <2> QED BY <1>2, <1>9, <1>14, <2>1 DEF Char, Meaning, charcode
<1> QED
  BY <1>11, <1>13, <1>15 DEF ReadsKey, mods, ncap

LEMMA ReleaseAgrees ==
  ASSUME NEW F, NEW keys \in SUBSET Keys, NEW cap \in BOOLEAN, Agrees(F, keys, cap),
         OneOfEach(keys), NEW k \in keys, NEW d \in Byte, HasIndex(k, d)
  PROVE  Agrees(F \ shiftcode(d), keys \ {k}, cap)
<1>1. shiftcode(d) = {k.mod} \cap Modifiers
  BY DEF HasIndex
<1>2. "CAPSLOCK" \notin Modifiers
  BY DEF Modifiers
<1>3. ASSUME NEW m \in Modifiers
      PROVE  m \in F \ shiftcode(d) <=> \E j \in keys \ {k} : j.mod = m
  <2>1. m \in F <=> \E j \in keys : j.mod = m
    BY DEF Agrees
  <2>2. CASE m = k.mod
    <3>1. \A j \in keys : j.mod = m => j = k
      BY <2>2 DEF OneOfEach
    <3> QED
      BY <1>1, <2>2, <3>1
  <2>3. CASE m # k.mod
    BY <1>1, <2>1, <2>3
  <2> QED
    BY <2>2, <2>3
<1> QED
  BY <1>1, <1>2, <1>3 DEF Agrees

-----------------------------------------------------------------------------
(* Reading a sequence of bytes.                                            *)

LEMMA ReadsNothing ==
  ASSUME NEW F \in SUBSET Flags
  PROVE  Reads(F, <<>>, F)
<1> DEFINE f == [i \in 0 .. 0 |-> F]
<1>1. f \in [0 .. Len(<<>>) -> SUBSET Flags] /\ f[0] = F /\ f[Len(<<>>)] = F
  OBVIOUS
<1>2. Path(f, <<>>)
  BY <1>1 DEF Path
<1> QED
  BY <1>1, <1>2 DEF Reads

LEMMA ReadsAppend ==
  ASSUME NEW F, NEW q \in Seq(Packet), NEW G, Reads(F, q, G),
         NEW b \in Packet, Right(G, b), After(G, b) \subseteq Flags
  PROVE  Reads(F, Append(q, b), After(G, b))
<1> DEFINE n == Len(q)
           r == Append(q, b)
<1>1. PICK f : Path(f, q) /\ f[0] = F /\ f[n] = G
  BY DEF Reads
<1>2. n \in Nat /\ Len(r) = n + 1 /\ r[n + 1] = b /\ \A i \in 1 .. n : r[i] = q[i]
  OBVIOUS
<1> HIDE DEF r, n
<1>3. /\ f \in [0 .. n -> SUBSET Flags]
      /\ \A i \in 1 .. n : f[i] = After(f[i - 1], q[i]) /\ Right(f[i - 1], q[i])
  BY <1>1 DEF Path, n
<1> DEFINE g == [i \in 0 .. n + 1 |-> IF i = n + 1 THEN After(G, b) ELSE f[i]]
<1>4. \A i \in 0 .. n : g[i] = f[i]
  BY <1>2
<1>5. g[n + 1] = After(G, b)
  BY <1>2
<1>6. g \in [0 .. n + 1 -> SUBSET Flags]
  BY <1>2, <1>3
<1> HIDE DEF g
<1>7. ASSUME NEW i \in 1 .. n + 1
      PROVE  g[i] = After(g[i - 1], r[i]) /\ Right(g[i - 1], r[i])
  <2>1. CASE i = n + 1
    <3>1. i - 1 = n /\ g[n] = G
      BY <1>1, <1>2, <1>4, <2>1
    <3> QED
      BY <1>2, <1>5, <2>1, <3>1
  <2>2. CASE i # n + 1
    <3>1. i \in 1 .. n /\ i \in 0 .. n /\ i - 1 \in 0 .. n
      BY <1>2, <2>2
    <3>2. g[i] = f[i] /\ g[i - 1] = f[i - 1] /\ r[i] = q[i]
      BY <1>2, <1>4, <3>1
    <3> QED
      BY <1>3, <3>1, <3>2
  <2> QED
    BY <2>1, <2>2
<1>8. Path(g, r)
  BY <1>2, <1>6, <1>7 DEF Path
<1>9. g[0] = F
  BY <1>1, <1>2, <1>4
<1>10. Reads(F, r, After(G, b))
  BY <1>2, <1>5, <1>8, <1>9 DEF Reads
<1> QED
  BY <1>10 DEF r

LEMMA ReadsHead ==
  ASSUME NEW F, NEW q \in Seq(Packet), q # <<>>, NEW G, Reads(F, q, G)
  PROVE  /\ F \subseteq Flags /\ Right(F, Head(q))
         /\ Reads(After(F, Head(q)), Tail(q), G)
<1> DEFINE n == Len(q)
           b == Head(q)
           r == Tail(q)
<1>1. PICK f : Path(f, q) /\ f[0] = F /\ f[n] = G
  BY DEF Reads
<1>2. /\ n \in Nat /\ n > 0 /\ b = q[1] /\ Len(r) = n - 1
      /\ \A i \in 1 .. n - 1 : r[i] = q[i + 1]
  OBVIOUS
<1> HIDE DEF r, b, n
<1>3. /\ f \in [0 .. n -> SUBSET Flags]
      /\ \A i \in 1 .. n : f[i] = After(f[i - 1], q[i]) /\ Right(f[i - 1], q[i])
  BY <1>1 DEF Path, n
<1>4. f[1] = After(F, b) /\ Right(F, b) /\ F \subseteq Flags
  <2>1. 1 \in 1 .. n /\ 0 \in 0 .. n /\ 1 - 1 = 0
    BY <1>2
  <2> QED
    BY <1>1, <1>2, <1>3, <2>1
<1> DEFINE g == [i \in 0 .. n - 1 |-> f[i + 1]]
<1>5. \A i \in 0 .. n - 1 : g[i] = f[i + 1]
  OBVIOUS
<1>6. g \in [0 .. n - 1 -> SUBSET Flags]
  BY <1>2, <1>3
<1> HIDE DEF g
<1>7. ASSUME NEW i \in 1 .. n - 1
      PROVE  g[i] = After(g[i - 1], r[i]) /\ Right(g[i - 1], r[i])
  <2>1. i \in 0 .. n - 1 /\ i - 1 \in 0 .. n - 1 /\ i + 1 \in 1 .. n /\ (i - 1) + 1 = i
        /\ (i + 1) - 1 = i
    BY <1>2
  <2>2. g[i] = f[i + 1] /\ g[i - 1] = f[i] /\ r[i] = q[i + 1]
    BY <1>2, <1>5, <2>1
  <2>3. f[i + 1] = After(f[(i + 1) - 1], q[i + 1]) /\ Right(f[(i + 1) - 1], q[i + 1])
    BY <1>3, <2>1
  <2> QED
    BY <2>1, <2>2, <2>3
<1>8. Path(g, r)
  BY <1>2, <1>6, <1>7 DEF Path
<1>9. g[0] = After(F, b) /\ g[n - 1] = G
  <2>1. 0 \in 0 .. n - 1 /\ n - 1 \in 0 .. n - 1 /\ 0 + 1 = 1 /\ (n - 1) + 1 = n
    BY <1>2
  <2> QED
    BY <1>1, <1>4, <1>5, <2>1
<1>10. Reads(After(F, b), r, G)
  BY <1>2, <1>8, <1>9 DEF Reads
<1> QED
  BY <1>4, <1>10 DEF r, b

(* One byte more, seen as a concatenation.                                 *)
LEMMA ConcatOne ==
  ASSUME NEW q \in Seq(Packet), NEW t \in Seq(Packet), NEW b \in Packet,
         Len(t) = 1, t[1] = b
  PROVE  q \o t = Append(q, b)
<1>1. q \o t \in Seq(Packet) /\ Len(q \o t) = Len(q) + 1
  BY ConcatProperties
<1>2. Append(q, b) \in Seq(Packet) /\ Len(Append(q, b)) = Len(q) + 1
  BY AppendProperties
<1>3. ASSUME NEW i \in 1 .. Len(q) + 1 PROVE (q \o t)[i] = Append(q, b)[i]
  <2>1. Len(q) \in Nat /\ (i <= Len(q) \/ i = Len(q) + 1)
    OBVIOUS
  <2>2. (q \o t)[i] = IF i <= Len(q) THEN q[i] ELSE t[i - Len(q)]
    BY <2>1, ConcatProperties
  <2>3. Append(q, b)[i] = IF i <= Len(q) THEN q[i] ELSE b
    BY <2>1, AppendProperties
  <2>4. i = Len(q) + 1 => i - Len(q) = 1
    BY <2>1
  <2> QED
    BY <2>1, <2>2, <2>3, <2>4
<1> QED
  BY <1>1, <1>2, <1>3, SeqEqual

LEMMA ConcatTwo ==
  ASSUME NEW q \in Seq(Packet), NEW t \in Seq(Packet), NEW a \in Packet, NEW b \in Packet,
         Len(t) = 2, t[1] = a, t[2] = b
  PROVE  q \o t = Append(Append(q, a), b)
<1> DEFINE n == Len(q)
<1>1. q \o t \in Seq(Packet) /\ Len(q \o t) = Len(q) + Len(t)
  BY ONLY q \in Seq(Packet), t \in Seq(Packet), ConcatProperties
<1>2. \A i \in 1 .. Len(q) + Len(t) :
        (q \o t)[i] = IF i <= Len(q) THEN q[i] ELSE t[i - Len(q)]
  BY ONLY q \in Seq(Packet), t \in Seq(Packet), ConcatProperties
<1>3. PICK r : r = Append(q, a)
  OBVIOUS
<1>4. /\ r \in Seq(Packet) /\ Len(r) = Len(q) + 1 /\ r[Len(q) + 1] = a
      /\ \A i \in 1 .. Len(q) : r[i] = q[i]
  BY ONLY q \in Seq(Packet), a \in Packet, <1>3, AppendProperties
<1>5. PICK w : w = Append(r, b)
  OBVIOUS
<1>6. /\ w \in Seq(Packet) /\ Len(w) = Len(r) + 1 /\ w[Len(r) + 1] = b
      /\ \A i \in 1 .. Len(r) : w[i] = r[i]
  BY ONLY b \in Packet, <1>4, <1>5, AppendProperties
<1>7. PICK u : u = q \o t
  OBVIOUS
<1>8. n \in Nat /\ u \in Seq(Packet) /\ Len(u) = n + 2 /\ Len(w) = n + 2 /\ Len(r) = n + 1
  BY ONLY q \in Seq(Packet), Len(t) = 2, <1>1, <1>4, <1>6, <1>7
<1> HIDE DEF n
<1>9. ASSUME NEW i \in 1 .. n + 2 PROVE u[i] = w[i]
  <2>1. u[i] = IF i <= n THEN q[i] ELSE t[i - n]
    BY <1>2, <1>7 DEF n
  <2>2. CASE i \in 1 .. n
    <3>1. i <= n /\ i \in 1 .. n + 1
      BY <1>8, <2>2
    <3> QED
      BY <1>4, <1>6, <1>8, <2>1, <2>2, <3>1 DEF n
  <2>3. CASE i = n + 1
    <3>1. i - n = 1 /\ ~(i <= n) /\ i \in 1 .. n + 1
      BY <1>8, <2>3
    <3> QED
      BY <1>4, <1>6, <1>8, <2>1, <2>3, <3>1 DEF n
  <2>4. CASE i = n + 2
    <3>1. i - n = 2 /\ ~(i <= n) /\ i = (n + 1) + 1
      BY <1>8, <2>4
    <3> QED
      BY <1>6, <1>8, <2>1, <3>1
  <2> QED
    BY <1>8, <2>2, <2>3, <2>4
<1>10. u = w
  BY <1>6, <1>8, <1>9, SeqEqual
<1> QED
  BY <1>3, <1>5, <1>7, <1>10

(* The bytes Press and Release send.                                       *)
LEMMA SentOne ==
  ASSUME NEW q \in Seq(Packet), NEW c \in Byte, NEW s \in Strike \cup {NULL}
  PROVE  q \o Sent(<<c>>, s) = Append(q, [data |-> c, aux |-> FALSE, strike |-> s])
<1> DEFINE b == [data |-> c, aux |-> FALSE, strike |-> s]
<1>1. b \in Packet
  BY DEF Packet
<1>2. <<c>> \in Seq(Byte) /\ Len(<<c>>) = 1
  OBVIOUS
<1>3. Sent(<<c>>, s) \in Seq(Packet) /\ Len(Sent(<<c>>, s)) = 1
  BY <1>2, SentType
<1>4. Sent(<<c>>, s)[1] = b
  <2>1. \A i \in 1 .. 1 : Sent(<<c>>, s)[i] = [data |-> <<c>>[i], aux |-> FALSE,
                                              strike |-> IF i = 1 THEN s ELSE NULL]
    BY <1>2, Zenon DEF Sent
  <2>2. 1 \in 1 .. 1 /\ <<c>>[1] = c
    OBVIOUS
  <2> QED
    BY <2>1, <2>2
<1> HIDE DEF b
<1>5. q \o Sent(<<c>>, s) = Append(q, b)
  BY <1>1, <1>3, <1>4, ConcatOne
<1> QED
  BY <1>5 DEF b

LEMMA SentTwo ==
  ASSUME NEW q \in Seq(Packet), NEW c \in Byte, NEW e \in Byte, NEW s \in Strike \cup {NULL}
  PROVE  q \o Sent(<<c, e>>, s) =
           Append(Append(q, [data |-> c, aux |-> FALSE, strike |-> NULL]),
                  [data |-> e, aux |-> FALSE, strike |-> s])
<1> DEFINE a == [data |-> c, aux |-> FALSE, strike |-> NULL]
           b == [data |-> e, aux |-> FALSE, strike |-> s]
           u == Sent(<<c, e>>, s)
<1>1. a \in Packet /\ b \in Packet
  BY DEF Packet
<1>2. <<c, e>> \in Seq(Byte) /\ Len(<<c, e>>) = 2
  OBVIOUS
<1>3. u \in Seq(Packet) /\ Len(u) = 2
  BY <1>2, SentType
<1>4. u[1] = a /\ u[2] = b
  <2>1. \A i \in 1 .. 2 : u[i] = [data |-> <<c, e>>[i], aux |-> FALSE,
                                 strike |-> IF i = 2 THEN s ELSE NULL]
    BY <1>2, Zenon DEF Sent
  <2>2. 1 \in 1 .. 2 /\ 2 \in 1 .. 2 /\ 1 # 2 /\ <<c, e>>[1] = c /\ <<c, e>>[2] = e
    OBVIOUS
  <2> HIDE DEF u
  <2> QED
    BY <2>1, <2>2
<1> HIDE DEF a, b, u
<1>5. q \o u = Append(Append(q, a), b)
  BY <1>1, <1>3, <1>4, ConcatTwo
<1> QED
  BY <1>5 DEF a, b, u

-----------------------------------------------------------------------------
(* A key sent to a driver that agrees with the keys: the driver agrees     *)
(* again when it has read it.                                              *)

LEMMA NotEmpty == NULL \notin Strike /\ NULL \notin Packet
BY PacketAssumption DEF PacketAssumption

(* A byte that is not the last of a key, or belongs to its release, has no *)
(* character.                                                              *)
LEMMA QuietByte ==
  ASSUME NEW F, NEW b, ~b.aux, b.strike = NULL, kbd_proc_data(F, b.data).c = 0
  PROVE  Right(F, b) /\ After(F, b) = kbd_proc_data(F, b.data).shift
BY DEF Right, After

LEMMA KeyMade ==
  ASSUME NEW F, NEW q \in Seq(Packet), NEW G, "E0ESC" \notin G,
         G \subseteq Flags, Reads(F, q, G), NEW k \in Keys, NEW d \in Byte, HasIndex(k, d),
         NEW s \in Strike, Struck(G, d) \subseteq Flags,
         Char(Struck(G, d), d) = Meaning(s), Struck(G, d) \cap Modifiers = s.mods
  PROVE  Reads(F, q \o Sent(k.make, s), Struck(G, d))
<1>1. CASE d < 128
  <2>1. k.make = <<d>>
    BY <1>1 DEF HasIndex
  <2>2. PICK b : b = [data |-> d, aux |-> FALSE, strike |-> s]
    OBVIOUS
  <2>3. b \in Packet /\ b.data = d /\ ~b.aux /\ b.strike = s /\ b.strike # NULL
    BY <2>2, NotEmpty DEF Packet
  <2>4. /\ kbd_proc_data(G, d).shift = Struck(G, d)
        /\ kbd_proc_data(G, d).c = Char(Struck(G, d), d)
    BY <1>1, MakeCode
  <2>5. After(G, b) = Struck(G, d)
    BY <2>3, <2>4 DEF After
  <2>6. Right(G, b)
    BY <2>3, <2>4, <2>5 DEF Right
  <2>7. Reads(F, Append(q, b), Struck(G, d))
    BY <2>3, <2>5, <2>6, ReadsAppend
  <2>8. q \o Sent(<<d>>, s) = Append(q, b)
    BY <2>2, SentOne
  <2> QED
    BY <2>1, <2>7, <2>8
<1>2. CASE ~(d < 128)
  <2>1. k.make = <<E0, d - 128>> /\ d - 128 \in Byte /\ E0 \in Byte
    BY <1>2 DEF HasIndex, Byte, E0
  <2>2. PICK a : a = [data |-> E0, aux |-> FALSE, strike |-> NULL]
    OBVIOUS
  <2>3. PICK b : b = [data |-> d - 128, aux |-> FALSE, strike |-> s]
    OBVIOUS
  <2>4. a \in Packet /\ a.data = E0 /\ ~a.aux /\ a.strike = NULL
    BY <2>1, <2>2 DEF Packet
  <2>5. b \in Packet /\ b.data = d - 128 /\ ~b.aux /\ b.strike = s /\ b.strike # NULL
    BY <2>1, <2>3, NotEmpty DEF Packet
  <2>6. PICK E : E = G \cup {"E0ESC"}
    OBVIOUS
  <2>7. Right(G, a) /\ After(G, a) = E /\ E \subseteq Flags
    <3>1. kbd_proc_data(G, E0).shift = E /\ kbd_proc_data(G, E0).c = 0
      BY <2>6, Escape
    <3>2. E \subseteq Flags
      BY <2>6 DEF Flags
    <3> QED
      BY <2>4, <3>1, <3>2, QuietByte
  <2>8. Reads(F, Append(q, a), E)
    BY <2>4, <2>7, ReadsAppend
  <2>9. /\ kbd_proc_data(E, d - 128).shift = Struck(G, d)
        /\ kbd_proc_data(E, d - 128).c = Char(Struck(G, d), d)
    <3>1. kbd_proc_data(G \cup {"E0ESC"}, d - 128) =
            [shift |-> Struck(G, d), c |-> Char(Struck(G, d), d)]
      BY <1>2, EscapedMakeCode
    <3> QED
      BY <2>6, <3>1
  <2>10. After(E, b) = Struck(G, d)
    BY <2>5, <2>9 DEF After
  <2>11. Right(E, b)
    BY <2>5, <2>9, <2>10 DEF Right
  <2>12. Append(q, a) \in Seq(Packet)
    BY <2>4
  <2>13. Reads(F, Append(Append(q, a), b), Struck(G, d))
    BY <2>5, <2>8, <2>10, <2>11, <2>12, ReadsAppend
  <2>14. q \o Sent(<<E0, d - 128>>, s) = Append(Append(q, a), b)
    BY <2>1, <2>2, <2>3, SentTwo
  <2> QED
    BY <2>1, <2>13, <2>14
<1> QED
  BY <1>1, <1>2

LEMMA KeyBroken ==
  ASSUME NEW F, NEW q \in Seq(Packet), NEW G, "E0ESC" \notin G,
         G \subseteq Flags, Reads(F, q, G), NEW k \in Keys, NEW d \in Byte, HasIndex(k, d)
  PROVE  Reads(F, q \o Sent(k.break, NULL), G \ shiftcode(d))
<1>0. d # E0 - 128 /\ d # E0 /\ NULL \in Strike \cup {NULL}
  BY DEF HasIndex
<1>1. CASE d < 128
  <2>1. k.break = <<d + 128>> /\ d + 128 \in Byte
    BY <1>1 DEF HasIndex, Byte
  <2>2. PICK b : b = [data |-> d + 128, aux |-> FALSE, strike |-> NULL]
    OBVIOUS
  <2>3. b \in Packet /\ b.data = d + 128 /\ ~b.aux /\ b.strike = NULL
    BY <2>1, <2>2 DEF Packet
  <2>4. /\ kbd_proc_data(G, d + 128).shift = G \ shiftcode(d)
        /\ kbd_proc_data(G, d + 128).c = 0
    <3>1. kbd_proc_data(G, d + 128) = [shift |-> G \ shiftcode(d), c |-> 0]
      BY <1>0, <1>1, BreakCode
    <3> QED
      BY <3>1
  <2>5. After(G, b) = G \ shiftcode(d) /\ Right(G, b)
    BY <2>3, <2>4, QuietByte
  <2>6. Reads(F, Append(q, b), G \ shiftcode(d))
    BY <2>3, <2>5, ReadsAppend
  <2>7. q \o Sent(<<d + 128>>, NULL) = Append(q, b)
    BY <2>1, <2>2, SentOne
  <2> QED
    BY <2>1, <2>6, <2>7
<1>2. CASE ~(d < 128)
  <2>1. k.break = <<E0, d>> /\ E0 \in Byte
    BY <1>2 DEF HasIndex, Byte, E0
  <2>2. PICK a : a = [data |-> E0, aux |-> FALSE, strike |-> NULL]
    OBVIOUS
  <2>3. PICK b : b = [data |-> d, aux |-> FALSE, strike |-> NULL]
    OBVIOUS
  <2>4. a \in Packet /\ a.data = E0 /\ ~a.aux /\ a.strike = NULL
    BY <2>1, <2>2 DEF Packet
  <2>5. b \in Packet /\ b.data = d /\ ~b.aux /\ b.strike = NULL
    BY <2>3 DEF Packet
  <2>6. PICK E : E = G \cup {"E0ESC"}
    OBVIOUS
  <2>7. Right(G, a) /\ After(G, a) = E /\ E \subseteq Flags
    <3>1. kbd_proc_data(G, E0).shift = E /\ kbd_proc_data(G, E0).c = 0
      BY <2>6, Escape
    <3>2. E \subseteq Flags
      BY <2>6 DEF Flags
    <3> QED
      BY <2>4, <3>1, <3>2, QuietByte
  <2>8. Reads(F, Append(q, a), E) /\ Append(q, a) \in Seq(Packet)
    BY <2>4, <2>7, ReadsAppend
  <2>9. /\ kbd_proc_data(E, d).shift = G \ shiftcode(d)
        /\ kbd_proc_data(E, d).c = 0
    <3>1. kbd_proc_data(G \cup {"E0ESC"}, d) = [shift |-> G \ shiftcode(d), c |-> 0]
      BY <1>0, <1>2, EscapedBreakCode
    <3> QED
      BY <2>6, <3>1
  <2>10. After(E, b) = G \ shiftcode(d) /\ Right(E, b)
    BY <2>5, <2>9, QuietByte
  <2>11. Reads(F, Append(Append(q, a), b), G \ shiftcode(d))
    <3>1. After(E, b) \subseteq Flags
      BY <2>10
    <3>2. Reads(F, Append(Append(q, a), b), After(E, b))
      BY <2>5, <2>8, <2>10, <3>1, ReadsAppend
    <3> QED
      BY <2>10, <3>2
  <2>12. q \o Sent(<<E0, d>>, NULL) = Append(Append(q, a), b)
    BY <2>1, <2>2, <2>3, SentTwo
  <2> QED
    BY <2>1, <2>11, <2>12
<1> QED
  BY <1>1, <1>2

-----------------------------------------------------------------------------
(* The invariant: whatever the driver has not read yet, it comes to agree  *)
(* with the keys and is right about each byte on the way.                  *)

LEMMA InitTracked == Init => Tracked
<1> SUFFICES ASSUME Init PROVE Tracked
  OBVIOUS
<1>1. obuf = NULL /\ kq = <<>> /\ shift = {} /\ down = {} /\ caps = FALSE
  BY DEF Init
<1>2. Reads({}, <<>>, {})
  BY ReadsNothing
<1>3. Agrees({}, {}, FALSE)
  BY DEF Agrees
<1> QED
  BY <1>1, <1>2, <1>3 DEF Tracked, Flagged, OneOfEach

LEMMA QuietTracked ==
  ASSUME Tracked, UNCHANGED <<shift, obuf, kq, down, caps>>
  PROVE  Tracked'
BY DEF Tracked, Flagged

LEMMA KbdTracked == IInv /\ Tracked /\ kbd_intr => Tracked'
<1> SUFFICES ASSUME IInv, Tracked, kbd_intr PROVE Tracked'
  OBVIOUS
<1>1. kq' = kq /\ down' = down /\ caps' = caps
  BY DEF kbd_intr
<1>2. CASE obuf # NULL /\ ~obuf.aux
  <2>1. shift' = kbd_proc_data(shift, obuf.data).shift /\ obuf' = NULL
    BY <1>2 DEF kbd_intr
  <2>2. Flagged' = Flagged
    BY <1>2, <2>1 DEF Flagged, After
  <2> QED
    BY <1>1, <2>1, <2>2 DEF Tracked
<1>3. CASE ~(obuf # NULL /\ ~obuf.aux)
  <2>1. shift' = shift /\ obuf' = obuf
    BY <1>3 DEF kbd_intr
  <2> QED
    BY <1>1, <2>1, QuietTracked
<1> QED
  BY <1>2, <1>3

LEMMA TransferTracked == IInv /\ Tracked /\ Transfer => Tracked'
<1> SUFFICES ASSUME IInv, Tracked, Transfer PROVE Tracked'
  OBVIOUS
<1>1. /\ obuf = NULL /\ kq # <<>> /\ obuf' = Head(kq) /\ kq' = Tail(kq)
      /\ shift' = shift /\ down' = down /\ caps' = caps
  BY DEF Transfer, kernel
<1>2. kq \in Seq(Packet)
  BY DEF IInv, TypeOK
<1>3. Head(kq) # NULL
  BY <1>1, <1>2, NotEmpty
<1>4. PICK G : Reads(shift, kq, G) /\ Agrees(G, down, caps)
  BY <1>1 DEF Tracked, Flagged
<1>5. Right(shift, Head(kq)) /\ Reads(After(shift, Head(kq)), Tail(kq), G)
  BY <1>1, <1>2, <1>4, ReadsHead
<1>6. Flagged' = After(shift, Head(kq))
  BY <1>1, <1>3 DEF Flagged
<1> QED
  BY <1>1, <1>4, <1>5, <1>6 DEF Tracked

LEMMA PressTracked ==
  ASSUME IInv, Tracked, NEW k \in Keys, Press(k)
  PROVE  Tracked'
<1>1. PICK ncap : ncap = (IF k.mod = "CAPS" THEN ~caps ELSE caps)
  OBVIOUS
<1>2. PICK mods : mods = {j.mod : j \in down \cup {k}} \ {"", "CAPS"}
  OBVIOUS
<1>3. PICK s : s = [key |-> k, mods |-> mods, caps |-> ncap]
  OBVIOUS
<1>4. /\ shift' = shift /\ obuf' = obuf /\ down' = down \cup {k} /\ caps' = ncap
      /\ kq' = kq \o Sent(k.make, s)
      /\ OneOfEach(down \cup {k})
  BY <1>1, <1>2, <1>3 DEF Press, kernel
<1>5. kq \in Seq(Packet) /\ down \in SUBSET Keys /\ caps \in BOOLEAN /\ ncap \in BOOLEAN
  BY <1>1 DEF IInv, TypeOK
<1>6. s.key = k /\ s.mods = mods /\ s.caps = ncap
  BY <1>3
<1>7. Capped(ncap, caps, k)
  BY <1>1 DEF Capped
<1>8. InForce(mods, down \cup {k})
  <2>1. \A j \in down \cup {k} : j.mod \in Modifiers \cup {"", "CAPS"}
    BY <1>5, ConsoleAssumption DEF ConsoleAssumption, KeyType, Modifiers
  <2>2. "CAPS" \notin Modifiers /\ "" \notin Modifiers
    BY DEF Modifiers
  <2>3. ASSUME NEW m PROVE m \in mods <=> m \in Modifiers /\ \E j \in down \cup {k} : j.mod = m
    BY <1>2, <2>1, <2>2
  <2> QED
    BY <2>3 DEF InForce
<1>9. PICK d \in Byte : HasIndex(k, d)
  BY KeyIndex
<1>10. PICK G : Reads(Flagged, kq, G) /\ Agrees(G, down, caps)
  BY DEF Tracked
<1>11. /\ Agrees(Struck(G, d), down \cup {k}, ncap)
       /\ Struck(G, d) \cap Modifiers = mods
       /\ Char(Struck(G, d), d) = Meaning(s)
  <2>1. Notes(s, k, down, caps)
    BY <1>6, <1>8, <1>7 DEF Notes
  <2>2. ReadsKey(G, down, k, d, s)
    BY <1>5, <1>9, <1>10, <2>1, PressAgrees
  <2> QED
    BY <1>6, <2>2 DEF ReadsKey
<1>12. s \in Strike
  <2>1. mods \in SUBSET Modifiers
    BY <1>11
  <2> QED
    BY <1>3, <1>5, <2>1 DEF Strike
<1>13. "E0ESC" \notin G /\ G \subseteq Flags /\ Struck(G, d) \subseteq Flags
  BY <1>10, <1>11 DEF Agrees
<1>14. Reads(Flagged, kq \o Sent(k.make, s), Struck(G, d))
  BY <1>5, <1>6, <1>9, <1>10, <1>11, <1>12, <1>13, KeyMade
<1>15. Flagged' = Flagged
  BY <1>4 DEF Flagged
<1> QED
  BY <1>4, <1>11, <1>14, <1>15 DEF Tracked

LEMMA ReleaseTracked ==
  ASSUME IInv, Tracked, NEW k \in Keys, Release(k)
  PROVE  Tracked'
<1>1. /\ shift' = shift /\ obuf' = obuf /\ down' = down \ {k} /\ caps' = caps
      /\ kq' = kq \o Sent(k.break, NULL) /\ k \in down
  BY DEF Release, kernel
<1>2. kq \in Seq(Packet) /\ down \in SUBSET Keys /\ caps \in BOOLEAN
  BY DEF IInv, TypeOK
<1>3. PICK d \in Byte : HasIndex(k, d)
  BY KeyIndex
<1>4. PICK G : Reads(Flagged, kq, G) /\ Agrees(G, down, caps)
  BY DEF Tracked
<1>5. OneOfEach(down) /\ OneOfEach(down \ {k})
  BY DEF Tracked, OneOfEach
<1>9. Agrees(G \ shiftcode(d), down \ {k}, caps)
  BY <1>1, <1>2, <1>3, <1>4, <1>5, ReleaseAgrees
<1>6. "E0ESC" \notin G /\ G \subseteq Flags
  BY <1>4 DEF Agrees
<1>7. Reads(Flagged, kq \o Sent(k.break, NULL), G \ shiftcode(d))
  BY <1>2, <1>3, <1>4, <1>6, KeyBroken
<1>8. Flagged' = Flagged
  BY <1>1 DEF Flagged
<1> QED
  BY <1>1, <1>5, <1>7, <1>8, <1>9 DEF Tracked

LEMMA MouseTracked ==
  ASSUME IInv, Tracked, MouseMoves
  PROVE  Tracked'
<1>1. PICK b : b = [data |-> 0, aux |-> TRUE, strike |-> NULL]
  OBVIOUS
<1>2. /\ shift' = shift /\ obuf' = obuf /\ down' = down /\ caps' = caps
      /\ kq' = Append(kq, b)
  BY <1>1 DEF MouseMoves, kernel
<1>3. b \in Packet /\ b.aux
  BY <1>1 DEF Packet, Byte
<1>4. kq \in Seq(Packet)
  BY DEF IInv, TypeOK
<1>5. PICK G : Reads(Flagged, kq, G) /\ Agrees(G, down, caps)
  BY DEF Tracked
<1>6. Right(G, b) /\ After(G, b) = G /\ G \subseteq Flags
  BY <1>3, <1>5 DEF Right, After, Agrees
<1>7. Reads(Flagged, Append(kq, b), G)
  BY <1>3, <1>4, <1>5, <1>6, ReadsAppend
<1>8. Flagged' = Flagged
  BY <1>2 DEF Flagged
<1> QED
  BY <1>2, <1>5, <1>7, <1>8 DEF Tracked

LEMMA FastNextTracked == KInv /\ [FastNext]_vars => KInv'
<1> SUFFICES ASSUME IInv, Tracked, [FastNext]_vars PROVE Tracked'
  BY FastNextInv DEF KInv
<1>1. CASE serial_intr
  BY <1>1, QuietTracked DEF serial_intr
<1>2. CASE kbd_intr
  BY <1>2, KbdTracked
<1>3. CASE cons_getc
  BY <1>3, QuietTracked DEF cons_getc, devices
<1>4. CASE Transfer
  BY <1>4, TransferTracked
<1>5. ASSUME NEW b \in SerialBytes, SerialArrives(b) PROVE Tracked'
  BY <1>5, QuietTracked DEF SerialArrives, kernel
<1>6. ASSUME NEW k \in Keys, Press(k) PROVE Tracked'
  BY <1>6, PressTracked
<1>7. ASSUME NEW k \in Keys, Release(k) PROVE Tracked'
  BY <1>7, ReleaseTracked
<1>8. CASE MouseMoves
  BY <1>8, MouseTracked
<1>9. CASE UNCHANGED vars
  BY <1>9, QuietTracked DEF vars, kernel, devices
<1> QED
  BY <1>1, <1>2, <1>3, <1>4, <1>5, <1>6, <1>7, <1>8, <1>9 DEF FastNext, Kernel, FastInput

LEMMA KeyboardInvariance == FastSpec => []KInv
<1>1. Init => KInv
  BY InitInv, InitTracked DEF KInv
<1> QED
  BY <1>1, FastNextTracked, PTL DEF FastSpec

(* The machine whose input keeps up with the buffer is one of those the    *)
(* theorems below speak of.                                                *)
LEMMA SpecIsFast == Spec => FastSpec
BY NextIsFast, PTL DEF Spec, FastSpec

(* No Shift, Ctrl or Alt sticks, and Caps Lock is in step, once the driver *)
(* has read all the keyboard sent: on any keyboard, typed on by somebody   *)
(* who has not both keys of a modifier down at once.                       *)
THEOREM ModifiersCorrect == FastSpec => []ModifiersTrackKeys
<1>1. KInv => ModifiersTrackKeys
  <2> SUFFICES ASSUME KInv, obuf = NULL, kq = <<>>
               PROVE  Agrees(shift, down, caps)
    BY DEF ModifiersTrackKeys, Agrees
  <2>1. PICK G : Reads(shift, <<>>, G) /\ Agrees(G, down, caps)
    BY DEF KInv, Tracked, Flagged
  <2>2. G = shift
    BY <2>1 DEF Reads
  <2> QED
    BY <2>1, <2>2
<1> QED
  BY <1>1, KeyboardInvariance, PTL

(* The character kbd_proc_data makes of a key is the one its modifiers     *)
(* meant when it was struck, however late the kernel polls.                *)
THEOREM CharactersCorrect == FastSpec => []CharacterAsTyped
<1>1. KInv => CharacterAsTyped
  BY DEF KInv, Tracked, Right, CharacterAsTyped
<1> QED
  BY <1>1, KeyboardInvariance, PTL

-----------------------------------------------------------------------------
(* The reset.                                                              *)

LEMMA DelOnly ==
  ASSUME NEW s \in Strike, "CTL" \in s.mods
  PROVE  Meaning(s) = KEY_DEL <=> s.key.plain = KEY_DEL
<1>1. s.key \in Keys
  BY DEF Strike
<1>2. PICK d \in Byte : HasIndex(s.key, d)
  BY <1>1, KeyIndex
<1>3. s.key.plain = normalmap(d) /\ s.key.control = ctlmap(d)
  BY <1>2 DEF HasIndex
<1>4. ctlmap(d) = KEY_DEL <=> normalmap(d) = KEY_DEL
  BY DEF ctlmap, normalmap, KEY_DEL, KEY_HOME
<1>5. \A c \in Byte : SwapCase(c) = KEY_DEL <=> c = KEY_DEL
  BY DEF SwapCase, KEY_DEL, Byte
<1>6. ctlmap(d) \in Byte
  BY TablesType
<1> QED
  BY <1>3, <1>4, <1>5, <1>6 DEF Meaning

(* The machine is reset by Del struck with Ctrl and Alt down, and by       *)
(* nothing else, however late the kernel reads the keys.                   *)
THEOREM ResetCorrect == FastSpec => CtrlAltDelResets
<1> DEFINE DelRead == /\ pc = "kbd" /\ obuf # NULL /\ obuf' = NULL
                      /\ obuf.strike # NULL
                      /\ obuf.strike.key.plain = KEY_DEL
                      /\ {"CTL", "ALT"} \subseteq obuf.strike.mods
<1>1. ASSUME KInv, FastNext PROVE pc' = "reset" <=> DelRead
  <2>1. pc # "reset"
    BY <1>1 DEF FastNext
  <2>2. CASE kbd_intr
    <3>1. CASE obuf # NULL /\ ~obuf.aux
      <4> DEFINE r == kbd_proc_data(shift, obuf.data)
      <4>1. obuf.strike \in Strike \cup {NULL} /\ shift \subseteq Flags
        BY <1>1, <3>1 DEF KInv, IInv, TypeOK, Packet
      <4>2. /\ r.c = IF obuf.strike = NULL THEN 0 ELSE Meaning(obuf.strike)
            /\ obuf.strike # NULL => r.shift \cap Modifiers = obuf.strike.mods
        BY <1>1, <3>1 DEF KInv, Tracked, Right, After
      <4>3. pc = "kbd" /\ obuf' = NULL /\ (pc' = "reset" <=> Reboots(r.shift, r.c))
        BY <2>1, <2>2, <3>1 DEF kbd_intr
      <4>4. CASE obuf.strike = NULL
        <5>1. r.c # KEY_DEL
          BY <4>2, <4>4 DEF KEY_DEL
        <5> QED
          BY <4>3, <4>4, <5>1 DEF Reboots
      <4>5. CASE obuf.strike # NULL
        <5>1. {"CTL", "ALT"} \subseteq r.shift <=> {"CTL", "ALT"} \subseteq obuf.strike.mods
          BY <4>2, <4>5 DEF Modifiers
        <5>2. r.c = Meaning(obuf.strike)
          BY <4>2, <4>5
        <5>3. "CTL" \in obuf.strike.mods =>
                (Meaning(obuf.strike) = KEY_DEL <=> obuf.strike.key.plain = KEY_DEL)
          BY <4>1, <4>5, DelOnly
        <5> HIDE DEF r
        <5> QED
          BY <3>1, <4>3, <4>5, <5>1, <5>2, <5>3 DEF Reboots
      <4> QED
        BY <4>4, <4>5
    <3>2. CASE ~(obuf # NULL /\ ~obuf.aux)
      BY <2>2, <3>2 DEF kbd_intr
    <3> QED
      BY <3>1, <3>2
  <2>3. CASE serial_intr
    BY <2>1, <2>3 DEF serial_intr
  <2>4. CASE cons_getc
    BY <2>4 DEF cons_getc
  <2>5. CASE Transfer
    BY <2>1, <2>5 DEF Transfer, kernel
  <2>6. CASE FastInput
    BY <2>1, <2>6 DEF FastInput, SerialArrives, Press, Release, MouseMoves, kernel
  <2> QED
    BY <1>1, <2>2, <2>3, <2>4, <2>5, <2>6 DEF FastNext, Kernel
<1>2. KInv /\ [FastNext]_vars => [pc' = "reset" <=> DelRead]_vars
  <2> HIDE DEF DelRead
  <2> QED BY <1>1
<1>3. FastSpec => [][FastNext]_vars
  BY DEF FastSpec
<1> QED
  BY <1>2, <1>3, KeyboardInvariance, PTL DEF CtrlAltDelResets

=============================================================================
