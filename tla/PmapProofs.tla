----------------------------- MODULE PmapProofs ------------------------------
(***************************************************************************)
(* The safety of Pmap for every number of pages, every shape of the        *)
(* address spaces and every width of pp_ref; and that pmap.c implements    *)
(* VirtMem: reference counts, list links and page tables are one way to    *)
(* keep address spaces and a pool of pages.                                *)
(***************************************************************************)
EXTENDS Pmap, PmapLemmas

-----------------------------------------------------------------------------
(* The state is well formed.                                               *)

LEMMA InitType == Init => TypeOK
BY BootType DEF Init, TypeOK

LEMMA OtherCallType == TypeOK /\ OtherCall => TypeOK'
<1> SUFFICES ASSUME TypeOK, OtherCall PROVE TypeOK'
  OBVIOUS
<1> USE DEF TypeOK
<1>1. ASSUME NEW flags \in {0, 1}, Alloc(flags) PROVE TypeOK'
  BY <1>1, AllocType DEF Alloc
<1>2. ASSUME NEW p \in Page, Free(p) PROVE TypeOK'
  BY <1>2, FreeType DEF Free
<1>3. ASSUME NEW p \in Page, WriteHeld(p) PROVE TypeOK'
  BY <1>3, JunkType DEF WriteHeld, Scribbled, MMType
<1>4. ASSUME NEW d \in Pgdirs, NEW v \in VA, Remove(d, v) PROVE TypeOK'
  BY <1>4, RemoveType DEF Remove
<1>5. ASSUME NEW d \in Pgdirs, NEW v \in VA, Walk(d, v) PROVE TypeOK'
  BY <1>5, WalkType DEF Walk
<1>6. ASSUME NEW v \in VA, TlbFill(v) PROVE TypeOK'
  <2>1. mm.cr3 \in Pgdirs
    BY DEF MMType
  <2>2. Pte(mm, mm.cr3, v) \in Entry
    BY <1>6, <2>1, PteType DEF TlbFill, IsMapped
  <2> QED
    BY <1>6, <2>2 DEF TlbFill, Translate, MMType
<1>7. ASSUME NEW v \in VA, Store(v) PROVE TypeOK'
  BY <1>7, JunkType DEF Store, Scribbled, MMType
<1>8. ASSUME NEW d \in Pgdirs, Lcr3(d) PROVE TypeOK'
  BY <1>8 DEF Lcr3, lcr3, MMType
<1> QED
  BY <1>1, <1>2, <1>3, <1>4, <1>5, <1>6, <1>7, <1>8 DEF OtherCall

LEMMA InsertCallType ==
  ASSUME TypeOK, NEW d \in Pgdirs, NEW p \in Page, NEW v \in VA,
         NEW perm \in Perms, Insert(d, p, v, perm)
  PROVE  TypeOK'
<1>1. perm \in SUBSET {"W", "U"}
  BY ClientAssumption
<1> QED
  BY <1>1, InsertType DEF TypeOK, Insert

(* Whatever the caller does, even with more mappings of a page than pp_ref *)
(* can count, every field of the memory manager stays in its range.        *)
THEOREM TypeCorrectManyMappings == SpecManyMappings => []TypeOK
<1>1. TypeOK /\ NextManyMappings => TypeOK'
  BY OtherCallType, InsertCallType DEF NextManyMappings
<1>2. TypeOK /\ UNCHANGED vars => TypeOK'
  BY DEF TypeOK, vars
<1> QED
  BY <1>1, <1>2, InitType, PTL DEF SpecManyMappings

LEMMA NextType == TypeOK /\ Next => TypeOK'
BY OtherCallType, InsertCallType DEF Next

(* The callers of the interface keep the state well formed.                *)
THEOREM TypeCorrect == Spec => []TypeOK
<1>1. TypeOK /\ Next => TypeOK'
  BY NextType
<1>2. TypeOK /\ UNCHANGED vars => TypeOK'
  BY DEF TypeOK, vars
<1> QED
  BY <1>1, <1>2, InitType, PTL DEF Spec
-----------------------------------------------------------------------------
(* The invariant of the specification.                                     *)

IInv == TypeOK /\ Inv(mm, held, {})

LEMMA InitInv == Init => IInv
BY InitType, BootInv DEF Init, IInv

(* A store through a cached translation reaches a page of data.            *)
LEMMA CachedPage ==
  ASSUME IInv, NEW v \in VA, Store(v)
  PROVE  mm.tlb[v].addr \in Page /\ ~IsTable(mm, mm.tlb[v].addr)
<1> DEFINE p == mm.tlb[v].addr
<1>1. mm \in MMType /\ Inv(mm, held, {})
  BY DEF IInv, TypeOK
<1>2. p \in Page /\ IsMapped(mm, mm.cr3, v) /\ mm.tlb[v] = Pte(mm, mm.cr3, v)
  BY <1>1 DEF Store, Inv, Coherent
<1>3. <<mm.cr3, v>> \in Mappings(mm, p)
  BY <1>1, <1>2 DEF Mappings, MMType
<1>4. IsData(mm, p)
  BY <1>3, MappingsFinite
<1> QED
  BY <1>1, <1>2, <1>4 DEF Inv, Disjoint

LEMMA NextInv == IInv /\ Next => IInv'
<1> SUFFICES ASSUME IInv, Next PROVE Inv(mm', held', {})
  <2>1. IInv /\ Next => TypeOK'
    BY NextType DEF IInv
  <2> QED
    BY <2>1 DEF IInv
<1> USE DEF IInv
<1>1. mm \in MMType /\ held \in SUBSET Page /\ Inv(mm, held, {}) /\ {} \in SUBSET Page
  BY DEF TypeOK
<1>2. ASSUME NEW flags \in {0, 1}, Alloc(flags) PROVE Inv(mm', held', {})
  <2>1. CASE page_alloc(mm, flags).pp = NULL
    <3>1. mm' = mm /\ held' = held
      BY <1>2, <2>1 DEF Alloc, page_alloc
    <3> QED
      BY <1>1, <3>1
  <2>2. CASE page_alloc(mm, flags).pp # NULL
    <3>1. mm' = page_alloc(mm, flags).st /\ held' = held \cup {page_alloc(mm, flags).pp}
      BY <1>2, <2>2 DEF Alloc
    <3> QED
      BY <1>1, <2>2, <3>1, AllocInv
  <2> QED
    BY <2>1, <2>2
<1>3. ASSUME NEW p \in Page, Free(p) PROVE Inv(mm', held', {})
  <2>1. p \in held \ {}
    BY <1>3 DEF Free
  <2> QED
    BY <1>1, <1>3, <2>1, FreeInv DEF Free
<1>4. ASSUME NEW p \in Page, WriteHeld(p) PROVE Inv(mm', held', {})
  <2>1. ~IsTable(mm, p)
    BY <1>1, <1>4 DEF WriteHeld, Inv, Disjoint
  <2> QED
    BY <1>1, <1>4, <2>1, ScribbleInv DEF WriteHeld
<1>5. ASSUME NEW d \in Pgdirs, NEW v \in VA, Remove(d, v) PROVE Inv(mm', held', {})
  BY <1>1, <1>5, RemoveInv DEF Remove
<1>6. ASSUME NEW d \in Pgdirs, NEW v \in VA, Walk(d, v) PROVE Inv(mm', held', {})
  BY <1>1, <1>6, WalkInv DEF Walk
<1>7. ASSUME NEW v \in VA, TlbFill(v) PROVE Inv(mm', held', {})
  BY <1>1, <1>7, TranslateInv DEF TlbFill
<1>8. ASSUME NEW v \in VA, Store(v) PROVE Inv(mm', held', {})
  <2>1. mm.tlb[v].addr \in Page /\ ~IsTable(mm, mm.tlb[v].addr)
    BY <1>8, CachedPage
  <2> QED
    BY <1>1, <1>8, <2>1, ScribbleInv DEF Store
<1>9. ASSUME NEW d \in Pgdirs, Lcr3(d) PROVE Inv(mm', held', {})
  BY <1>1, <1>9, Lcr3Inv DEF Lcr3
<1>10. ASSUME NEW d \in Pgdirs, NEW p \in Page, NEW v \in VA, NEW perm \in Perms,
              RefFits(mm, p), Insert(d, p, v, perm)
       PROVE  Inv(mm', held', {})
  <2>1. p \in held \/ IsData(mm, p)
    BY <1>10 DEF Insert
  <2>2. p \notin {} /\ perm \in SUBSET {"W", "U"}
    BY ClientAssumption
  <2> DEFINE i == page_insert(mm, d, p, v, perm)
  <2>3. Inv(i.st, IF i.ret = "OK" THEN held \ {p} ELSE held, {})
    BY <1>1, <1>10, <2>1, <2>2, InsertInv
  <2> QED
    BY <1>10, <2>3 DEF Insert
<1> QED
  BY <1>2, <1>3, <1>4, <1>5, <1>6, <1>7, <1>8, <1>9, <1>10 DEF Next, OtherCall

LEMMA Invariance == Spec => []IInv
<1>1. IInv /\ UNCHANGED vars => IInv'
  BY DEF IInv, TypeOK, vars
<1> QED
  BY <1>1, InitInv, NextInv, PTL DEF Spec

(* page_free and page_alloc keep the free list a list of distinct pages.   *)
THEOREM FreeListCorrect == Spec => []FreeListIsChain
<1>1. IInv => FreeListIsChain
  BY DEF IInv, Inv, FreeListIsChain
<1> QED
  BY <1>1, Invariance, PTL

(* pp_ref counts the mappings of a page exactly, whatever the sequence of  *)
(* calls, as long as no page has RefMod mappings.                          *)
THEOREM RefCountCorrect == Spec => []RefCountExact
<1>1. IInv => RefCountExact
  BY DEF IInv, Inv, RefCountExact
<1> QED
  BY <1>1, Invariance, PTL

(* No page is used twice, none is lost: in particular no free page is      *)
(* mapped in any address space.                                            *)
THEOREM PartitionCorrect == Spec => []PagesPartitioned
<1>1. IInv => PagesPartitioned
  <2>1. held \cup {} = held
    OBVIOUS
  <2> QED
    BY <2>1 DEF IInv, Inv, PagesPartitioned
<1> QED
  BY <1>1, Invariance, PTL

(* Page tables are never shared and never hold garbage.                    *)
THEOREM TablesCorrect == Spec => []TablesWellFormed
<1>1. IInv => TablesWellFormed
  BY DEF IInv, Inv, TablesWellFormed
<1> QED
  BY <1>1, Invariance, PTL

(* page_remove and page_insert leave no stale translation behind.          *)
THEOREM TlbCorrect == Spec => []TlbCoherent
<1>1. IInv => TlbCoherent
  BY DEF IInv, Inv, TlbCoherent
<1> QED
  BY <1>1, Invariance, PTL

(* A caller that respects the interface never panics the kernel.           *)
THEOREM NoPanicCorrect == Spec => []NoPanic
<1>1. IInv => NoPanic
  BY DEF IInv, Inv, NoPanic
<1> QED
  BY <1>1, Invariance, PTL

-----------------------------------------------------------------------------
(* What the abstract state is, given what a call did to the tables.        *)

(* The abstract value of one address.                                      *)
LEMMA SpacesAt ==
  ASSUME NEW s, NEW d \in Pgdirs, NEW v \in VA
  PROVE  Spaces(s)[<<d, v>>] =
           IF IsMapped(s, d, v)
           THEN [page |-> Pte(s, d, v).addr, perm |-> Pte(s, d, v).perm \ {"P"}]
           ELSE NULL
BY DEF Spaces

(* A mapped address has a page, and its translation is not NULL.           *)
LEMMA SpacesMapped ==
  ASSUME NEW s \in MMType, Clean(s), NEW d \in Pgdirs, NEW v \in VA
  PROVE  /\ Spaces(s)[<<d, v>>] # NULL <=> IsMapped(s, d, v)
         /\ IsMapped(s, d, v) => /\ Pte(s, d, v).addr \in Page
                                 /\ Spaces(s)[<<d, v>>].page = Pte(s, d, v).addr
<1>1. CASE IsMapped(s, d, v)
  <2>1. HasTable(s, d, v) /\ Present(Pte(s, d, v)) /\ Pte(s, d, v) \in Entry
    BY <1>1, PteType DEF IsMapped
  <2>2. ~Present(ZeroPte)
    BY DEF Present, ZeroPte
  <2>3. Pte(s, d, v).addr \in Page
    BY <2>1, <2>2 DEF Clean
  <2>4. Pte(s, d, v).perm \ {"P"} \in SUBSET {"W", "U"}
    BY <2>1 DEF Entry
  <2> DEFINE a == Pte(s, d, v).addr
             c == Pte(s, d, v).perm \ {"P"}
  <2>5. [page |-> a, perm |-> c] \in [page : Page, perm : SUBSET {"W", "U"}]
    BY <2>3, <2>4
  <2>6. Spaces(s)[<<d, v>>] = [page |-> a, perm |-> c]
    BY <1>1, SpacesAt
  <2>7. Spaces(s)[<<d, v>>].page = a
    BY <2>6
  <2>8. Spaces(s)[<<d, v>>] # NULL
    BY <2>5, <2>6, TranslationAssumption
  <2> QED
    BY <1>1, <2>3, <2>7, <2>8
<1>2. CASE ~IsMapped(s, d, v)
  BY <1>2, SpacesAt
<1> QED
  BY <1>1, <1>2

(* The pages VirtMem calls mapped are those some entry maps.               *)
LEMMA MappedIsData ==
  ASSUME NEW s \in MMType, Clean(s)
  PROVE  VM!Mapped(Spaces(s)) = {p \in Page : IsData(s, p)}
<1> DEFINE f == Spaces(s)
<1>1. ASSUME NEW d \in Pgdirs, NEW v \in VA, f[<<d, v>>] # NULL
      PROVE  f[<<d, v>>].page \in Page /\ IsData(s, f[<<d, v>>].page)
  <2>1. /\ IsMapped(s, d, v) /\ Pte(s, d, v).addr \in Page
        /\ f[<<d, v>>].page = Pte(s, d, v).addr
    BY <1>1, SpacesMapped
  <2> QED
    BY <2>1 DEF IsData
<1>2. ASSUME NEW p \in Page, IsData(s, p)
      PROVE  \E d \in Pgdirs, v \in VA : f[<<d, v>>] # NULL /\ f[<<d, v>>].page = p
  <2>1. PICK d \in Pgdirs, v \in VA : IsMapped(s, d, v) /\ Pte(s, d, v).addr = p
    BY <1>2 DEF IsData
  <2> QED
    BY <2>1, SpacesMapped
<1>3. VM!Mapped(f) = {f[m].page : m \in {n \in Pgdirs \X VA : f[n] # NULL}}
  BY DEF VM!Mapped, VM!Slot, VM!VA, VA
<1> HIDE DEF f
<1>4. ASSUME NEW p \in VM!Mapped(f) PROVE p \in Page /\ IsData(s, p)
  <2>1. PICK m \in Pgdirs \X VA : f[m] # NULL /\ p = f[m].page
    BY <1>3
  <2>2. PICK d \in Pgdirs, v \in VA : m = <<d, v>>
    OBVIOUS
  <2> QED
    BY <1>1, <2>1, <2>2
<1>5. ASSUME NEW p \in Page, IsData(s, p) PROVE p \in VM!Mapped(f)
  <2>1. PICK d \in Pgdirs, v \in VA : f[<<d, v>>] # NULL /\ f[<<d, v>>].page = p
    BY <1>2, <1>5
  <2>2. <<d, v>> \in {n \in Pgdirs \X VA : f[n] # NULL}
    BY <2>1
  <2> QED
    BY <1>3, <2>1, <2>2
<1>6. VM!Mapped(f) = {p \in Page : IsData(s, p)}
  BY <1>4, <1>5
<1> QED
  BY <1>6 DEF f

(* Equal maps are equal address spaces.                                    *)
LEMMA SameSpaces ==
  ASSUME NEW s, NEW t, SameMap(s, t)
  PROVE  Spaces(t) = Spaces(s)
BY DEF SameMap, Spaces

(* An edit of one entry is an update of one translation.                   *)
LEMMA EditedSpaces ==
  ASSUME NEW s, NEW r, NEW d \in Pgdirs, NEW v \in VA, Edited(s, r, d, v)
  PROVE  Spaces(r) = [Spaces(s) EXCEPT ![<<d, v>>] = Spaces(r)[<<d, v>>]]
<1>1. ASSUME NEW f \in Pgdirs, NEW w \in VA, f # d \/ w # v
      PROVE  Spaces(r)[<<f, w>>] = Spaces(s)[<<f, w>>]
  <2>1. /\ IsMapped(r, f, w) <=> IsMapped(s, f, w)
        /\ IsMapped(s, f, w) => Pte(r, f, w) = Pte(s, f, w)
    BY <1>1 DEF Edited
  <2>2. CASE IsMapped(s, f, w)
    <3>1. Spaces(r)[<<f, w>>] =
            [page |-> Pte(r, f, w).addr, perm |-> Pte(r, f, w).perm \ {"P"}]
      BY <2>1, <2>2, SpacesAt
    <3>2. Spaces(s)[<<f, w>>] =
            [page |-> Pte(s, f, w).addr, perm |-> Pte(s, f, w).perm \ {"P"}]
      BY <2>2, SpacesAt
    <3> QED
      BY <2>1, <2>2, <3>1, <3>2
  <2>3. CASE ~IsMapped(s, f, w)
    BY <2>1, <2>3, SpacesAt
  <2> QED
    BY <2>2, <2>3
<1>2. /\ Spaces(s) = [m \in Pgdirs \X VA |-> Spaces(s)[m]]
      /\ Spaces(r) = [m \in Pgdirs \X VA |-> Spaces(r)[m]]
  BY DEF Spaces
<1>3. ASSUME NEW m \in Pgdirs \X VA, m # <<d, v>>
      PROVE  Spaces(r)[m] = Spaces(s)[m]
  <2>1. PICK f \in Pgdirs, w \in VA : m = <<f, w>>
    OBVIOUS
  <2> QED
    BY <1>1, <1>3, <2>1
<1> QED
  BY <1>2, <1>3

LEMMA SamePool ==
  ASSUME NEW s, NEW t, \A p \in Page : IsFree(t, p) <=> IsFree(s, p)
  PROVE  Pool(t) = Pool(s)
BY DEF Pool

(* A slot gains a page as its table.                                       *)
LEMMA TablesGained ==
  ASSUME NEW s \in MMType, NEW t, NEW d \in Pgdirs, NEW x \in PDX, NEW b,
         t.pgdir = [s.pgdir EXCEPT ![d][x] = b]
  PROVE  Tables(t) = [Tables(s) EXCEPT ![<<d, x>>] = b]
<1>1. ASSUME NEW f \in Pgdirs, NEW y \in PDX
      PROVE  t.pgdir[f][y] = IF f = d /\ y = x THEN b ELSE s.pgdir[f][y]
  BY DEF MMType
<1>2. ASSUME NEW m \in Pgdirs \X PDX
      PROVE  Tables(t)[m] = IF m = <<d, x>> THEN b ELSE Tables(s)[m]
  BY <1>1 DEF Tables
<1>3. /\ Tables(s) = [m \in Pgdirs \X PDX |-> Tables(s)[m]]
      /\ Tables(t) = [m \in Pgdirs \X PDX |-> Tables(t)[m]]
  BY DEF Tables
<1> QED
  BY <1>2, <1>3

-----------------------------------------------------------------------------
(* Each call is one step of VirtMem, or none.                              *)

LEMMA UnseenStep ==
  ASSUME SameMap(mm, mm'), mm'.pgdir = mm.pgdir, held' = held,
         \A p \in Page : IsFree(mm', p) <=> IsFree(mm, p)
  PROVE  UNCHANGED VM!vars
<1>1. Spaces(mm') = Spaces(mm)
  BY SameSpaces
<1>2. Pool(mm') = Pool(mm)
  BY SamePool
<1>3. Tables(mm') = Tables(mm)
  BY DEF Tables
<1> QED
  BY <1>1, <1>2, <1>3 DEF VM!vars

LEMMA InitStep == Init => VM!Init
<1> SUFFICES ASSUME mm = Boot, held = {} PROVE VM!Init
  BY DEF Init
<1>1. \A d \in Pgdirs, x \in PDX : Boot.pgdir[d][x] = NULL
  BY DEF Boot
<1>2. Spaces(Boot) = [m \in Pgdirs \X VA |-> NULL]
  BY <1>1 DEF Spaces, IsMapped, HasTable, VA
<1>3. Tables(Boot) = [t \in Pgdirs \X PDX |-> NULL]
  BY <1>1 DEF Tables
<1>4. Pool(Boot) = Page \ Reserved
  <2>1. ASSUME NEW p \in Page PROVE IsFree(Boot, p) <=> p \notin Reserved
    BY FreeOrderAssumption DEF IsFree, Boot
  <2> QED
    BY <2>1 DEF Pool
<1> QED
  BY <1>2, <1>3, <1>4 DEF VM!Init, VM!Slot, VM!VA, VA

LEMMA AllocStep ==
  ASSUME IInv, NEW f \in {0, 1}, Alloc(f)
  PROVE  VM!Alloc \/ UNCHANGED VM!vars
<1>1. mm \in MMType /\ held \in SUBSET Page /\ {} \in SUBSET Page /\ Inv(mm, held, {})
  BY DEF IInv, TypeOK
<1> DEFINE a == page_alloc(mm, f).pp
<1>2. CASE a = NULL
  <2>1. mm' = mm /\ held' = held
    BY <1>2 DEF Alloc, page_alloc
  <2> QED
    BY <2>1, UnseenStep DEF SameMap
<1>3. CASE a # NULL
  <2>1. mm' = page_alloc(mm, f).st /\ held' = held \cup {a}
    BY <1>3 DEF Alloc
  <2>2. /\ a \in Page /\ IsFree(mm, a) /\ SameTables(mm, mm')
        /\ \A p \in Page : IsFree(mm', p) <=> IsFree(mm, p) /\ p # a
    BY <1>1, <1>3, <2>1, AllocInv
  <2>3. Spaces(mm') = Spaces(mm)
    BY <2>2, SameView, SameSpaces
  <2>4. Tables(mm') = Tables(mm)
    BY <2>2 DEF SameTables, Tables
  <2>5. a \in Pool(mm) /\ Pool(mm') = Pool(mm) \ {a}
    BY <2>2 DEF Pool
  <2> QED
    BY <2>1, <2>3, <2>4, <2>5 DEF VM!Alloc
<1> QED
  BY <1>2, <1>3

LEMMA FreeStep ==
  ASSUME IInv, NEW p \in Page, Free(p)
  PROVE  VM!Free
<1>1. mm \in MMType /\ held \in SUBSET Page /\ {} \in SUBSET Page /\ Inv(mm, held, {})
  BY DEF IInv, TypeOK
<1>2. p \in held \ {} /\ mm' = page_free(mm, p) /\ held' = held \ {p}
  BY DEF Free
<1>3. /\ SameTables(mm, mm')
      /\ \A q \in Page : IsFree(mm', q) <=> IsFree(mm, q) \/ q = p
  BY <1>1, <1>2, FreeInv
<1>4. Spaces(mm') = Spaces(mm)
  BY <1>3, SameView, SameSpaces
<1>5. Tables(mm') = Tables(mm)
  BY <1>3 DEF SameTables, Tables
<1>6. Pool(mm') = Pool(mm) \cup {p}
  BY <1>3 DEF Pool
<1> QED
  BY <1>2, <1>4, <1>5, <1>6 DEF VM!Free

(* What RemoveInv says when no page is counted in advance.                 *)
LEMMA RemoveEffect ==
  ASSUME NEW s \in MMType, NEW H \in SUBSET Page, Inv(s, H, {}),
         NEW d \in Pgdirs, NEW v \in VA, IsMapped(s, d, v), NEW r,
         r = page_remove(s, d, v)
  PROVE  /\ ~IsMapped(r, d, v) /\ r.pgdir = s.pgdir /\ Edited(s, r, d, v)
         /\ \A p \in Page :
              IsFree(r, p) <=> IsFree(s, p) \/ (IsData(s, p) /\ ~IsData(r, p))
<1>1. PICK X \in SUBSET Page : X = {}
  OBVIOUS
<1>2. Inv(s, H, X)
  BY <1>1
<1>3. /\ ~IsMapped(r, d, v) /\ r.pgdir = s.pgdir /\ Edited(s, r, d, v)
      /\ \A p \in Page :
           IsFree(r, p) <=> IsFree(s, p) \/ (IsData(s, p) /\ ~IsData(r, p) /\ p \notin X)
  BY <1>2, RemoveInv
<1> QED
  BY <1>1, <1>3

LEMMA RemoveStep ==
  ASSUME IInv, IInv', NEW d \in Pgdirs, NEW v \in VA, Remove(d, v)
  PROVE  VM!Unmap
<1>1. mm \in MMType /\ held \in SUBSET Page /\ {} \in SUBSET Page /\ Inv(mm, held, {})
  BY DEF IInv, TypeOK
<1>2. mm' \in MMType /\ Clean(mm) /\ Clean(mm')
  BY DEF IInv, TypeOK, Inv
<1>3. IsMapped(mm, d, v) /\ mm' = page_remove(mm, d, v) /\ held' = held
  BY DEF Remove
<1>4. /\ ~IsMapped(mm', d, v) /\ mm'.pgdir = mm.pgdir /\ Edited(mm, mm', d, v)
      /\ \A p \in Page : IsFree(mm', p) <=>
                           IsFree(mm, p) \/ (IsData(mm, p) /\ ~IsData(mm', p))
  BY <1>1, <1>3, RemoveEffect
<1>5. Spaces(mm)[<<d, v>>] # NULL
  BY <1>1, <1>2, <1>3, SpacesMapped
<1>6. Spaces(mm')[<<d, v>>] = NULL
  BY <1>4, SpacesAt
<1>7. Spaces(mm') = [Spaces(mm) EXCEPT ![<<d, v>>] = NULL]
  BY <1>4, <1>6, EditedSpaces
<1>8. Tables(mm') = Tables(mm)
  BY <1>4 DEF Tables
<1>9. /\ VM!Mapped(Spaces(mm)) = {p \in Page : IsData(mm, p)}
      /\ VM!Mapped(Spaces(mm')) = {p \in Page : IsData(mm', p)}
  BY <1>1, <1>2, MappedIsData
<1>10. Pool(mm') = Pool(mm) \cup (VM!Mapped(Spaces(mm)) \ VM!Mapped(Spaces(mm')))
  BY <1>4, <1>9 DEF Pool
<1> QED
  BY <1>3, <1>5, <1>7, <1>8, <1>10 DEF VM!Unmap, VM!VA, VA

LEMMA WalkStep ==
  ASSUME IInv, NEW d \in Pgdirs, NEW v \in VA, Walk(d, v)
  PROVE  VM!Table \/ UNCHANGED VM!vars
<1>1. mm \in MMType /\ held \in SUBSET Page /\ {} \in SUBSET Page /\ Inv(mm, held, {})
  BY DEF IInv, TypeOK
<1>2. mm' = pgdir_walk(mm, d, v, TRUE).st /\ held' = held /\ v[1] \in PDX
  BY DEF Walk, VA
<1>3. SameMap(mm, mm') /\ GainsTable(mm, mm', d, v[1])
  BY <1>1, <1>2, WalkInv
<1>4. CASE mm'.pgdir = mm.pgdir /\ \A p \in Page : IsFree(mm', p) <=> IsFree(mm, p)
  BY <1>2, <1>3, <1>4, UnseenStep
<1>5. CASE \E b \in Page :
             /\ mm.pgdir[d][v[1]] = NULL /\ IsFree(mm, b)
             /\ mm'.pgdir = [mm.pgdir EXCEPT ![d][v[1]] = b]
             /\ \A p \in Page : IsFree(mm', p) <=> IsFree(mm, p) /\ p # b
  <2>1. PICK b \in Page :
             /\ mm.pgdir[d][v[1]] = NULL /\ IsFree(mm, b)
             /\ mm'.pgdir = [mm.pgdir EXCEPT ![d][v[1]] = b]
             /\ \A p \in Page : IsFree(mm', p) <=> IsFree(mm, p) /\ p # b
    BY <1>5
  <2>2. Tables(mm') = [Tables(mm) EXCEPT ![<<d, v[1]>>] = b]
    <3>1. PICK x \in PDX : x = v[1]
      BY <1>2
    <3>2. mm'.pgdir = [mm.pgdir EXCEPT ![d][x] = b]
      BY <2>1, <3>1
    <3>3. Tables(mm') = [Tables(mm) EXCEPT ![<<d, x>>] = b]
      BY <1>1, <3>2, TablesGained
    <3> QED
      BY <3>1, <3>3
  <2>3. Tables(mm)[<<d, v[1]>>] = NULL
    BY <1>2, <2>1 DEF Tables
  <2>4. b \in Pool(mm) /\ Pool(mm') = Pool(mm) \ {b}
    BY <2>1 DEF Pool
  <2>5. Spaces(mm') = Spaces(mm)
    BY <1>3, SameSpaces
  <2>6. VM!NewTable(d, v[1], {b})
    BY <2>2, <2>3, <2>4 DEF VM!NewTable
  <2> QED
    BY <1>2, <2>4, <2>5, <2>6 DEF VM!Table
<1> QED
  BY <1>3, <1>4, <1>5 DEF GainsTable

(* A page_insert that succeeds.                                            *)
LEMMA InsertStep ==
  ASSUME IInv, IInv', NEW d \in Pgdirs, NEW p \in Page, NEW v \in VA,
         NEW perm \in Perms, RefFits(mm, p), Insert(d, p, v, perm)
  PROVE  VM!Map \/ UNCHANGED VM!vars
<1>1. mm \in MMType /\ held \in SUBSET Page /\ {} \in SUBSET Page /\ Inv(mm, held, {})
  BY DEF IInv, TypeOK
<1>2. mm' \in MMType /\ Clean(mm) /\ Clean(mm')
  BY DEF IInv, TypeOK, Inv
<1>3. PICK i : i = page_insert(mm, d, p, v, perm)
  OBVIOUS
<1>4. PICK m : m = pgdir_walk(mm, d, v, TRUE).st
  OBVIOUS
<1>5. /\ p \in held \/ IsData(mm, p)
      /\ mm' = i.st /\ held' = IF i.ret = "OK" THEN held \ {p} ELSE held
  BY <1>3 DEF Insert
<1>6. perm \in SUBSET {"W", "U"} /\ p \notin {}
  BY ClientAssumption
<1>7. InsertEffect(mm, d, p, v, perm, {})
  BY <1>1, <1>5, <1>6, InsertInv
<1>8. CASE i.ret # "OK"
  <2>1. mm' = mm /\ held' = held
    BY <1>3, <1>5, <1>7, <1>8 DEF InsertEffect
  <2> QED
    BY <2>1, UnseenStep DEF SameMap
<1>9. CASE i.ret = "OK"
  <2>1. /\ GainsTable(mm, m, d, v[1]) /\ mm'.pgdir = m.pgdir
        /\ Edited(mm, mm', d, v) /\ IsMapped(mm', d, v)
        /\ Pte(mm', d, v) = [addr |-> p, perm |-> perm \cup {"P"}]
        /\ \A q \in Page :
             IsFree(mm', q) <=> IsFree(m, q) \/ (IsData(mm, q) /\ ~IsData(mm', q) /\ q \notin {})
    BY <1>3, <1>4, <1>5, <1>7, <1>9 DEF InsertEffect
  <2>2. held' = held \ {p}
    BY <1>5, <1>9
  <2>3. Spaces(mm')[<<d, v>>] = [page |-> p, perm |-> perm]
    <3>1. (perm \cup {"P"}) \ {"P"} = perm
      BY <1>6
    <3> QED
      BY <2>1, <3>1, SpacesAt
  <2>4. Spaces(mm') = [Spaces(mm) EXCEPT ![<<d, v>>] = [page |-> p, perm |-> perm]]
    BY <2>1, <2>3, EditedSpaces
  <2>5. /\ VM!Mapped(Spaces(mm)) = {q \in Page : IsData(mm, q)}
        /\ VM!Mapped(Spaces(mm')) = {q \in Page : IsData(mm', q)}
    BY <1>1, <1>2, MappedIsData
  <2>6. p \in held \cup VM!Mapped(Spaces(mm))
    BY <1>5, <2>5
  <2>7. Pool(mm') = Pool(m) \cup (VM!Mapped(Spaces(mm)) \ VM!Mapped(Spaces(mm')))
    BY <2>1, <2>5 DEF Pool
  <2>8. PICK x \in PDX : x = v[1]
    BY DEF VA
  <2>9. \E T \in {{}} \cup {{q} : q \in Pool(mm)} :
          VM!NewTable(d, x, T) /\ Pool(m) = Pool(mm) \ T
    <3>1. CASE m.pgdir = mm.pgdir /\ \A q \in Page : IsFree(m, q) <=> IsFree(mm, q)
      <4>1. mm'.pgdir = mm.pgdir /\ mm.pgdir[d][x] # NULL
        BY <2>1, <2>8, <3>1 DEF IsMapped, HasTable
      <4>2. Tables(mm') = Tables(mm) /\ Tables(mm)[<<d, x>>] # NULL
        BY <4>1 DEF Tables
      <4>3. Pool(m) = Pool(mm)
        BY <3>1, SamePool
      <4> QED
        BY <4>2, <4>3 DEF VM!NewTable
    <3>2. CASE \E b \in Page :
                 /\ mm.pgdir[d][x] = NULL /\ IsFree(mm, b)
                 /\ m.pgdir = [mm.pgdir EXCEPT ![d][x] = b]
                 /\ \A q \in Page : IsFree(m, q) <=> IsFree(mm, q) /\ q # b
      <4>1. PICK b \in Page :
                 /\ mm.pgdir[d][x] = NULL /\ IsFree(mm, b)
                 /\ m.pgdir = [mm.pgdir EXCEPT ![d][x] = b]
                 /\ \A q \in Page : IsFree(m, q) <=> IsFree(mm, q) /\ q # b
        BY <3>2
      <4>2. mm'.pgdir = [mm.pgdir EXCEPT ![d][x] = b]
        BY <2>1, <4>1
      <4>3. Tables(mm') = [Tables(mm) EXCEPT ![<<d, x>>] = b]
        BY SMTT(30), <1>1, <4>2, TablesGained
      <4>4. Tables(mm)[<<d, x>>] = NULL
        BY <4>1 DEF Tables
      <4>5. b \in Pool(mm) /\ Pool(m) = Pool(mm) \ {b}
        BY <4>1 DEF Pool
      <4>6. VM!NewTable(d, x, {b})
        BY <4>3, <4>4, <4>5 DEF VM!NewTable
      <4> QED
        BY <4>5, <4>6
    <3> QED
      BY <2>1, <2>8, <3>1, <3>2 DEF GainsTable
  <2>10. PICK T \in {{}} \cup {{q} : q \in Pool(mm)} :
           VM!NewTable(d, x, T) /\ Pool(m) = Pool(mm) \ T
    BY <2>9
  <2>11. VM!NewTable(d, v[1], T)
    BY <2>8, <2>10
  <2>12. Pool(mm') = (Pool(mm) \ T) \cup (VM!Mapped(Spaces(mm)) \ VM!Mapped(Spaces(mm')))
    BY <2>7, <2>10
  <2> QED
    BY <2>2, <2>4, <2>6, <2>10, <2>11, <2>12 DEF VM!Map, VM!VA, VA
<1> QED
  BY <1>8, <1>9

LEMMA NextStep == IInv /\ IInv' /\ Next => VM!Next \/ UNCHANGED VM!vars
<1> SUFFICES ASSUME IInv, IInv', Next PROVE VM!Next \/ UNCHANGED VM!vars
  OBVIOUS
<1>1. mm \in MMType /\ held \in SUBSET Page /\ {} \in SUBSET Page /\ Inv(mm, held, {})
  BY DEF IInv, TypeOK
<1>2. ASSUME NEW f \in {0, 1}, Alloc(f) PROVE VM!Alloc \/ UNCHANGED VM!vars
  BY <1>2, AllocStep
<1>3. ASSUME NEW p \in Page, Free(p) PROVE VM!Free
  BY <1>3, FreeStep
<1>4. ASSUME NEW d \in Pgdirs, NEW v \in VA, Remove(d, v) PROVE VM!Unmap
  BY <1>4, RemoveStep
<1>5. ASSUME NEW d \in Pgdirs, NEW v \in VA, Walk(d, v)
      PROVE  VM!Table \/ UNCHANGED VM!vars
  BY <1>5, WalkStep
<1>6. ASSUME NEW d \in Pgdirs, NEW p \in Page, NEW v \in VA, NEW perm \in Perms,
             RefFits(mm, p), Insert(d, p, v, perm)
      PROVE  VM!Map \/ UNCHANGED VM!vars
  BY <1>6, InsertStep
<1>7. ASSUME NEW p \in Page, ~IsTable(mm, p), mm' = [mm EXCEPT !.mem[p] = Scribbled],
             held' = held
      PROVE  UNCHANGED VM!vars
  <2>1. /\ SameTables(mm, mm')
        /\ \A q \in Page : IsFree(mm', q) <=> IsFree(mm, q)
    BY <1>1, <1>7, ScribbleInv
  <2>2. SameMap(mm, mm') /\ mm'.pgdir = mm.pgdir
    BY <2>1, SameView DEF SameTables
  <2> QED
    BY <1>7, <2>1, <2>2, UnseenStep
<1>8. ASSUME NEW p \in Page, WriteHeld(p) PROVE UNCHANGED VM!vars
  <2>1. ~IsTable(mm, p)
    BY <1>1, <1>8 DEF WriteHeld, Inv, Disjoint
  <2> QED
    BY <1>7, <1>8, <2>1 DEF WriteHeld
<1>9. ASSUME NEW v \in VA, Store(v) PROVE UNCHANGED VM!vars
  <2>1. mm.tlb[v].addr \in Page /\ ~IsTable(mm, mm.tlb[v].addr)
    BY <1>9, CachedPage
  <2> QED
    BY <1>7, <1>9, <2>1 DEF Store
<1>10. ASSUME mm'.pgdir = mm.pgdir, mm'.mem = mm.mem, mm'.free = mm.free, held' = held
       PROVE  UNCHANGED VM!vars
  <2>1. SameMap(mm, mm')
    BY <1>10 DEF SameMap, IsMapped, HasTable, Pte
  <2>2. \A p \in Page : IsFree(mm', p) <=> IsFree(mm, p)
    BY <1>10 DEF IsFree
  <2> QED
    BY <1>10, <2>1, <2>2, UnseenStep
<1>11. ASSUME NEW v \in VA, TlbFill(v) PROVE UNCHANGED VM!vars
  BY <1>10, <1>11, <1>1, TranslateInv DEF TlbFill
<1>12. ASSUME NEW d \in Pgdirs, Lcr3(d) PROVE UNCHANGED VM!vars
  BY <1>10, <1>12, <1>1, Lcr3Inv DEF Lcr3
<1> QED
  BY <1>2, <1>3, <1>4, <1>5, <1>6, <1>8, <1>9, <1>11, <1>12
     DEF Next, OtherCall, VM!Next

(* pmap.c keeps the promise of VirtMem: in every sequence of calls, each   *)
(* call changes at most one translation, and a page is back in the pool    *)
(* exactly when its last mapping went.                                     *)
THEOREM VirtMemImplemented == Spec => ImplementsVirtMem
<1>1. IInv /\ IInv' /\ [Next]_vars => [VM!Next]_(VM!vars)
  <2>1. UNCHANGED vars => UNCHANGED VM!vars
    BY DEF vars, VM!vars
  <2> QED
    BY <2>1, NextStep
<1> QED
  BY <1>1, InitStep, Invariance, PTL DEF Spec, ImplementsVirtMem, VM!Spec

=============================================================================
