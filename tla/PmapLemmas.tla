----------------------------- MODULE PmapLemmas ------------------------------
(***************************************************************************)
(* What every function of kern/pmap.c keeps true, for every number of      *)
(* pages, every shape of the address spaces and every width of pp_ref.     *)
(* The callers of these functions, Pmap and Env, are proved from here.     *)
(*                                                                         *)
(* Inv is the condition every call keeps, stated for a state s inside a    *)
(* call.  H is what the kernel keeps for itself, X the pages counted once  *)
(* more than they are mapped.                                              *)
(***************************************************************************)
EXTENDS PmapState, FiniteSetTheorems, TLAPS

-----------------------------------------------------------------------------
(* Every function of pmap.c returns a well formed state.                   *)

LEMMA RefRange ==
  ASSUME NEW n \in Int
  PROVE  n % RefMod \in 0 .. RefMod - 1
BY RefModAssumption

LEMMA RefSmall ==
  ASSUME NEW n \in 0 .. RefMod - 1
  PROVE  n % RefMod = n
BY RefModAssumption

LEMMA ZeroPteType == ZeroPte \in Entry
BY PagesAssumption DEF ZeroPte, Entry

LEMMA JunkType == Junk \in Entry
BY PagesAssumption DEF Junk, Entry

LEMMA AllocType ==
  ASSUME NEW s \in MMType, NEW f
  PROVE  /\ page_alloc(s, f).st \in MMType
         /\ page_alloc(s, f).pp \in Page \cup {NULL}
<1> DEFINE pp == s.page_free_list
<1>1. CASE pp = NULL
  BY <1>1 DEF page_alloc
<1>2. CASE pp # NULL
  <2>1. pp \in Page
    BY <1>2 DEF MMType
  <2>2. SubSeq(s.free, 1, Len(s.free) - 1) \in Seq(Page)
    BY DEF MMType
  <2>3. [y \in PTX |-> ZeroPte] \in [PTX -> Entry]
    BY ZeroPteType
  <2> QED
    BY <1>2, <2>1, <2>2, <2>3 DEF page_alloc, MMType
<1> QED
  BY <1>1, <1>2

LEMMA FreeType ==
  ASSUME NEW s \in MMType, NEW p \in Page
  PROVE  page_free(s, p) \in MMType
<1>1. Append(s.free, p) \in Seq(Page)
  BY DEF MMType
<1> QED
  BY <1>1 DEF page_free, MMType

LEMMA DecrefType ==
  ASSUME NEW s \in MMType, NEW p \in Page
  PROVE  page_decref(s, p) \in MMType
<1> DEFINE t == [s EXCEPT !.pp_ref[p] = (@ - 1) % RefMod]
<1>1. (s.pp_ref[p] - 1) % RefMod \in 0 .. RefMod - 1
  <2>1. s.pp_ref[p] \in 0 .. RefMod - 1
    BY DEF MMType
  <2>2. s.pp_ref[p] - 1 \in Int
    BY <2>1, RefModAssumption
  <2> QED
    BY <2>2, RefRange
<1>2. t \in MMType
  BY <1>1 DEF MMType
<1> QED
  BY <1>2, FreeType DEF page_decref

LEMMA IncrefType ==
  ASSUME NEW s \in MMType, NEW p \in Page
  PROVE  page_incref(s, p) \in MMType
<1>1. (s.pp_ref[p] + 1) % RefMod \in 0 .. RefMod - 1
  <2>1. s.pp_ref[p] \in 0 .. RefMod - 1
    BY DEF MMType
  <2>2. s.pp_ref[p] + 1 \in Int
    BY <2>1, RefModAssumption
  <2> QED
    BY <2>2, RefRange
<1> QED
  BY <1>1 DEF page_incref, MMType

LEMMA WalkType ==
  ASSUME NEW s \in MMType, NEW d \in Pgdirs, NEW v \in VA, NEW c \in BOOLEAN
  PROVE  /\ pgdir_walk(s, d, v, c).st \in MMType
         /\ pgdir_walk(s, d, v, c).pte # NULL =>
              pgdir_walk(s, d, v, c).pte \in Page \X PTX
<1> DEFINE pde == s.pgdir[d][v[1]]
           a   == page_alloc(s, 1)
           t   == page_incref(a.st, a.pp)
<1>1. v[1] \in PDX /\ v[2] \in PTX
  BY DEF VA
<1>2. CASE pde # NULL
  BY <1>1, <1>2 DEF pgdir_walk, MMType
<1>3. CASE pde = NULL /\ (~c \/ a.pp = NULL)
  BY <1>3 DEF pgdir_walk
<1>4. CASE pde = NULL /\ c /\ a.pp # NULL
  <2>1. a.st \in MMType /\ a.pp \in Page
    BY <1>4, AllocType
  <2>2. t \in MMType
    BY <2>1, IncrefType
  <2>3. [t EXCEPT !.pgdir[d][v[1]] = a.pp] \in MMType
    BY <2>1, <2>2, <1>1 DEF MMType
  <2> QED
    BY <1>1, <1>4, <2>1, <2>3 DEF pgdir_walk
<1> QED
  BY <1>2, <1>3, <1>4

LEMMA StoreType ==
  ASSUME NEW s \in MMType, NEW w \in Page \X PTX, NEW e \in Entry
  PROVE  store(s, w, e) \in MMType
BY DEF store, MMType

LEMMA LookupType ==
  ASSUME NEW s \in MMType, NEW d \in Pgdirs, NEW v \in VA
  PROVE  LET l == page_lookup(s, d, v)
         IN  /\ l.st \in MMType
             /\ l.pp \in Page \cup {NULL}
             /\ l.pp # NULL => l.pte \in Page \X PTX
<1> DEFINE w == pgdir_walk(s, d, v, FALSE)
<1>1. CASE w.pte = NULL
  BY <1>1 DEF page_lookup
<1>2. CASE w.pte # NULL
  <2>1. w.pte \in Page \X PTX
    BY <1>2, WalkType
  <2>2. [s EXCEPT !.status = "panic"] \in MMType
    BY DEF MMType
  <2> QED
    BY <1>2, <2>1, <2>2 DEF page_lookup
<1> QED
  BY <1>1, <1>2

LEMMA RemoveType ==
  ASSUME NEW s \in MMType, NEW d \in Pgdirs, NEW v \in VA
  PROVE  page_remove(s, d, v) \in MMType
<1> DEFINE l == page_lookup(s, d, v)
           t == store(page_decref(s, l.pp), l.pte, ZeroPte)
<1>1. CASE l.pp = NULL
  BY <1>1, LookupType DEF page_remove
<1>2. CASE l.pp # NULL
  <2>1. l.pp \in Page /\ l.pte \in Page \X PTX
    BY <1>2, LookupType
  <2>2. t \in MMType
    BY <2>1, DecrefType, StoreType, ZeroPteType
  <2>3. tlb_invalidate(t, v) \in MMType
    BY <2>2 DEF tlb_invalidate, MMType
  <2> QED
    BY <1>2, <2>3 DEF page_remove
<1> QED
  BY <1>1, <1>2

LEMMA InsertType ==
  ASSUME NEW s \in MMType, NEW d \in Pgdirs, NEW p \in Page, NEW v \in VA,
         NEW perm \in SUBSET {"W", "U"}
  PROVE  page_insert(s, d, p, v, perm).st \in MMType
<1> DEFINE w == pgdir_walk(s, d, v, TRUE)
           t == page_incref(w.st, p)
           u == IF Present(load(t, w.pte)) THEN page_remove(t, d, v) ELSE t
           e == [addr |-> p, perm |-> perm \cup {"P"}]
<1>1. w.st \in MMType
  BY WalkType
<1>2. CASE w.pte = NULL
  BY <1>1, <1>2 DEF page_insert
<1>3. CASE w.pte # NULL
  <2>1. w.pte \in Page \X PTX
    BY <1>3, WalkType
  <2>2. u \in MMType
    BY <1>1, IncrefType, RemoveType
  <2>3. e \in Entry
    BY PagesAssumption DEF Entry, Page
  <2>4. store(u, w.pte, e) \in MMType
    BY <2>1, <2>2, <2>3, StoreType
  <2> QED
    BY <1>3, <2>4 DEF page_insert
<1> QED
  BY <1>2, <1>3

LEMMA PteType ==
  ASSUME NEW s \in MMType, NEW d \in Pgdirs, NEW v \in VA, HasTable(s, d, v)
  PROVE  /\ s.pgdir[d][v[1]] \in Page
         /\ Pte(s, d, v) \in Entry
         /\ Pte(s, d, v).addr \in 0 .. npages
<1>1. v[1] \in PDX /\ v[2] \in PTX
  BY DEF VA
<1>2. s.pgdir[d][v[1]] \in Page
  BY <1>1 DEF HasTable, MMType
<1>3. Pte(s, d, v) \in Entry
  BY <1>1, <1>2 DEF Pte, MMType
<1> QED
  BY <1>2, <1>3 DEF Entry

-----------------------------------------------------------------------------
Limbo(s, X) == \A p \in X : p \in Page \ Reserved /\ ~IsFree(s, p) /\ ~IsTable(s, p)

Inv(s, H, X) ==
  /\ ChainOK(s)
  /\ RefsOK(s, X)
  /\ Disjoint(s, H)
  /\ Covered(s, H \cup X)
  /\ Private(s)
  /\ Clean(s)
  /\ Coherent(s)
  /\ Limbo(s, X)
  /\ s.status = "run"

-----------------------------------------------------------------------------
(* What follows from the tables alone.                                     *)

SameTables(s, t) ==
  /\ t.pgdir = s.pgdir
  /\ \A d \in Pgdirs, v \in VA : HasTable(s, d, v) => Pte(t, d, v) = Pte(s, d, v)

(* The same entries at the same addresses, wherever the tables are.        *)
SameMap(s, t) ==
  \A d \in Pgdirs, v \in VA :
    /\ IsMapped(t, d, v) <=> IsMapped(s, d, v)
    /\ IsMapped(s, d, v) => Pte(t, d, v) = Pte(s, d, v)

LEMMA SameMapData ==
  ASSUME NEW s, NEW t, SameMap(s, t)
  PROVE  \A p \in Page : /\ Mappings(t, p) = Mappings(s, p)
                         /\ IsData(t, p) <=> IsData(s, p)
<1>1. \A p \in Page : Mappings(t, p) = Mappings(s, p)
  BY DEF SameMap, Mappings
<1>2. \A p \in Page : IsData(t, p) <=> IsData(s, p)
  BY DEF SameMap, IsData
<1> QED
  BY <1>1, <1>2

LEMMA SameView ==
  ASSUME NEW s, NEW t, SameTables(s, t)
  PROVE  /\ SameMap(s, t)
         /\ \A d \in Pgdirs, v \in VA : IsMapped(t, d, v) <=> IsMapped(s, d, v)
         /\ \A p \in Page : Mappings(t, p) = Mappings(s, p)
         /\ \A p \in Page : IsTable(t, p) <=> IsTable(s, p)
         /\ \A p \in Page : IsData(t, p) <=> IsData(s, p)
         /\ Private(s) => Private(t)
         /\ Clean(s) => Clean(t)
         /\ t.tlb = s.tlb /\ t.cr3 = s.cr3 /\ s.cr3 \in Pgdirs /\ Coherent(s)
              => Coherent(t)
<1>1. \A d \in Pgdirs, v \in VA : HasTable(t, d, v) <=> HasTable(s, d, v)
  BY DEF SameTables, HasTable
<1>2. \A d \in Pgdirs, v \in VA : IsMapped(t, d, v) <=> IsMapped(s, d, v)
  BY <1>1 DEF SameTables, IsMapped
<1>9. SameMap(s, t)
  BY <1>2 DEF SameMap, SameTables, IsMapped
<1>3. \A p \in Page : Mappings(t, p) = Mappings(s, p)
  BY <1>2 DEF SameTables, Mappings, IsMapped
<1>4. \A p \in Page : IsTable(t, p) <=> IsTable(s, p)
  BY DEF SameTables, IsTable
<1>5. \A p \in Page : IsData(t, p) <=> IsData(s, p)
  BY <1>2 DEF SameTables, IsData, IsMapped
<1>6. Private(s) => Private(t)
  BY DEF SameTables, Private
<1>7. Clean(s) => Clean(t)
  BY <1>1 DEF SameTables, Clean
<1>8. t.tlb = s.tlb /\ t.cr3 = s.cr3 /\ s.cr3 \in Pgdirs /\ Coherent(s)
        => Coherent(t)
  BY <1>2 DEF SameTables, Coherent, IsMapped
<1> QED
  BY <1>2, <1>3, <1>4, <1>5, <1>6, <1>7, <1>8, <1>9

LEMMA MappingsFinite ==
  ASSUME NEW s, NEW p
  PROVE  /\ IsFiniteSet(Mappings(s, p))
         /\ Cardinality(Mappings(s, p)) \in Nat
         /\ IsData(s, p) <=> Mappings(s, p) # {}
         /\ Cardinality(Mappings(s, p)) = 0 <=> ~IsData(s, p)
<1>1. IsFiniteSet(PDX \X PTX)
  BY TablesAssumption, FS_Product
<1>2. IsFiniteSet(Pgdirs \X VA)
  BY <1>1, TablesAssumption, FS_Product DEF VA
<1>3. Mappings(s, p) \subseteq Pgdirs \X VA
  BY DEF Mappings
<1>4. IsFiniteSet(Mappings(s, p))
  BY <1>2, <1>3, FS_Subset
<1>5. IsData(s, p) <=> Mappings(s, p) # {}
  BY DEF IsData, Mappings
<1> QED
  BY <1>4, <1>5, FS_CardinalityType, FS_EmptySet

(* The entry of another address is another entry.                          *)
LEMMA OtherEntry ==
  ASSUME NEW s \in MMType, Private(s), NEW d \in Pgdirs, NEW v \in VA,
         NEW e \in Pgdirs, NEW w \in VA, HasTable(s, d, v), HasTable(s, e, w),
         <<s.pgdir[e][w[1]], w[2]>> = <<s.pgdir[d][v[1]], v[2]>>
  PROVE  e = d /\ w = v
BY DEF Private, HasTable, VA

-----------------------------------------------------------------------------
(* The page allocator keeps Inv.                                           *)

LEMMA FreeCount ==
  ASSUME NEW s \in MMType, NEW H, NEW X, Inv(s, H, X), NEW p \in Page, IsFree(s, p)
  PROVE  /\ p \notin Reserved /\ p \notin H /\ p \notin X
         /\ ~IsTable(s, p) /\ ~IsData(s, p)
         /\ s.pp_ref[p] = 0
<1>1. p \notin Reserved /\ p \notin H /\ p \notin X /\ ~IsTable(s, p) /\ ~IsData(s, p)
  BY DEF Inv, Disjoint, Limbo
<1>2. Cardinality(Mappings(s, p)) = 0
  BY <1>1, MappingsFinite
<1> QED
  BY <1>1, <1>2 DEF Inv, RefsOK
(* What page_alloc does to each field when it succeeds.                    *)
LEMMA AllocFields ==
  ASSUME NEW s \in MMType, NEW f, page_alloc(s, f).pp # NULL
  PROVE  LET a == page_alloc(s, f).pp
             t == page_alloc(s, f).st
         IN  /\ a = s.page_free_list /\ a \in Page
             /\ t.page_free_list = s.pp_link[a]
             /\ t.pp_link = [s.pp_link EXCEPT ![a] = NULL]
             /\ t.free = SubSeq(s.free, 1, Len(s.free) - 1)
             /\ t.mem = [s.mem EXCEPT ![a] = IF f # 0 THEN [y \in PTX |-> ZeroPte] ELSE @]
             /\ t.pp_ref = s.pp_ref /\ t.pgdir = s.pgdir /\ t.tlb = s.tlb
             /\ t.cr3 = s.cr3 /\ t.status = s.status
<1>1. s.page_free_list # NULL /\ page_alloc(s, f).pp = s.page_free_list
  BY DEF page_alloc
<1> QED
  BY <1>1 DEF page_alloc, MMType

LEMMA AllocChain ==
  ASSUME NEW s \in MMType, NEW f, ChainOK(s), page_alloc(s, f).pp # NULL
  PROVE  LET a == page_alloc(s, f).pp
             t == page_alloc(s, f).st
         IN  /\ ChainOK(t)
             /\ IsFree(s, a)
             /\ \A p \in Page : IsFree(t, p) <=> IsFree(s, p) /\ p # a
<1> DEFINE a == page_alloc(s, f).pp
           t == page_alloc(s, f).st
           n == Len(s.free)
<1>1. /\ a = s.page_free_list /\ a \in Page
      /\ t.page_free_list = s.pp_link[a]
      /\ t.pp_link = [s.pp_link EXCEPT ![a] = NULL]
      /\ t.free = SubSeq(s.free, 1, n - 1)
  BY AllocFields
<1>2. s.free \in Seq(Page) /\ n \in Nat /\ s.pp_link \in [Page -> Page \cup {NULL}]
  BY DEF MMType
<1>3. n > 0 /\ a = s.free[n]
  BY <1>1, <1>2, PagesAssumption DEF ChainOK
<1>4. Len(t.free) = n - 1 /\ \A i \in 1 .. n - 1 : t.free[i] = s.free[i]
  BY <1>1, <1>2, <1>3
<1> HIDE DEF a, t, n
<1>5. IsFree(s, a)
  BY <1>2, <1>3 DEF IsFree, n
<1>6. \A i \in 1 .. n - 1 : s.free[i] # a /\ s.free[i] \in Page
  BY <1>2, <1>3 DEF ChainOK, n
<1>7. \A p \in Page : IsFree(t, p) <=> IsFree(s, p) /\ p # a
  <2>1. ASSUME NEW p \in Page, IsFree(t, p) PROVE IsFree(s, p) /\ p # a
    BY <2>1, <1>2, <1>4, <1>6 DEF IsFree, n
  <2>2. ASSUME NEW p \in Page, IsFree(s, p), p # a PROVE IsFree(t, p)
    <3>1. PICK i \in 1 .. n : s.free[i] = p
      BY <2>2 DEF IsFree, n
    <3>2. i \in 1 .. n - 1
      BY <3>1, <2>2, <1>2, <1>3
    <3> QED
      BY <3>1, <3>2, <1>4 DEF IsFree
  <2> QED
    BY <2>1, <2>2
<1>8. t.page_free_list = IF n - 1 = 0 THEN NULL ELSE t.free[n - 1]
  <2>1. n \in 1 .. n
    BY <1>2, <1>3
  <2>2. s.pp_link[s.free[n]] = IF n = 1 THEN NULL ELSE s.free[n - 1]
    BY <2>1 DEF ChainOK, n
  <2>3. t.page_free_list = IF n = 1 THEN NULL ELSE s.free[n - 1]
    BY <2>2, <1>1, <1>3
  <2>4. CASE n = 1
    BY <2>3, <2>4
  <2>5. CASE n # 1
    <3>1. n - 1 \in 1 .. n - 1 /\ n - 1 # 0
      BY <2>5, <1>2, <1>3
    <3> QED
      BY <2>3, <2>5, <3>1, <1>4
  <2> QED
    BY <2>4, <2>5
<1>9. \A i \in 1 .. n - 1 : t.pp_link[t.free[i]] = IF i = 1 THEN NULL ELSE t.free[i - 1]
  <2> SUFFICES ASSUME NEW i \in 1 .. n - 1
               PROVE  t.pp_link[t.free[i]] = IF i = 1 THEN NULL ELSE t.free[i - 1]
    OBVIOUS
  <2>1. t.free[i] = s.free[i] /\ t.pp_link[t.free[i]] = s.pp_link[s.free[i]]
    BY <1>1, <1>2, <1>4, <1>6
  <2>2. s.pp_link[s.free[i]] = IF i = 1 THEN NULL ELSE s.free[i - 1]
    BY <1>2 DEF ChainOK, n
  <2> QED
    BY <2>1, <2>2, <1>2, <1>4
<1>10. \A i, j \in 1 .. n - 1 : t.free[i] = t.free[j] => i = j
  BY SMTT(30), <1>2, <1>4 DEF ChainOK, n
<1>11. \A p \in Page : ~IsFree(t, p) => t.pp_link[p] = NULL
  BY <1>1, <1>2, <1>7 DEF ChainOK
<1>12. ChainOK(t)
  BY <1>4, <1>8, <1>9, <1>10, <1>11 DEF ChainOK
<1> QED
  BY <1>5, <1>7, <1>12 DEF a, t

LEMMA FreeChain ==
  ASSUME NEW s \in MMType, ChainOK(s), NEW p \in Page, ~IsFree(s, p), s.pp_ref[p] = 0
  PROVE  LET t == page_free(s, p)
         IN  /\ ChainOK(t)
             /\ \A q \in Page : IsFree(t, q) <=> IsFree(s, q) \/ q = p
             /\ t.pp_ref = s.pp_ref /\ t.pgdir = s.pgdir /\ t.mem = s.mem
             /\ t.tlb = s.tlb /\ t.cr3 = s.cr3 /\ t.status = s.status
<1> DEFINE t == page_free(s, p)
           n == Len(s.free)
<1>1. s.free \in Seq(Page) /\ n \in Nat /\ s.pp_link \in [Page -> Page \cup {NULL}]
  BY DEF MMType
<1>2. s.pp_link[p] = NULL
  BY DEF ChainOK
<1>3. t = [s EXCEPT !.pp_link[p] = s.page_free_list, !.page_free_list = p,
                    !.free = Append(@, p)]
  BY <1>2 DEF page_free
<1>4. /\ t.pp_link = [s.pp_link EXCEPT ![p] = s.page_free_list]
      /\ t.page_free_list = p
      /\ t.free = Append(s.free, p)
      /\ t.pp_ref = s.pp_ref /\ t.pgdir = s.pgdir /\ t.mem = s.mem
      /\ t.tlb = s.tlb /\ t.cr3 = s.cr3 /\ t.status = s.status
  BY <1>3 DEF MMType
<1>5. /\ Len(t.free) = n + 1 /\ t.free[n + 1] = p
      /\ \A i \in 1 .. n : t.free[i] = s.free[i]
  BY <1>1, <1>4
<1> HIDE DEF t, n
<1>6. \A i \in 1 .. n : s.free[i] # p /\ s.free[i] \in Page
  BY <1>1 DEF IsFree, n
<1>7. \A q \in Page : IsFree(t, q) <=> IsFree(s, q) \/ q = p
  <2>1. ASSUME NEW q \in Page, IsFree(t, q) PROVE IsFree(s, q) \/ q = p
    <3>1. PICK i \in 1 .. n + 1 : t.free[i] = q
      BY <2>1, <1>5 DEF IsFree
    <3>2. CASE i = n + 1
      BY <3>1, <3>2, <1>5
    <3>3. CASE i \in 1 .. n
      BY <3>1, <3>3, <1>5 DEF IsFree, n
    <3> QED
      BY <3>2, <3>3, <1>1
  <2>2. ASSUME NEW q \in Page, IsFree(s, q) PROVE IsFree(t, q)
    <3>1. PICK i \in 1 .. n : s.free[i] = q
      BY <2>2 DEF IsFree, n
    <3> QED
      BY <3>1, <1>1, <1>5 DEF IsFree
  <2>3. IsFree(t, p)
    BY <1>1, <1>5 DEF IsFree
  <2> QED
    BY <2>1, <2>2, <2>3
<1>8. \A i \in 1 .. n + 1 : t.pp_link[t.free[i]] = IF i = 1 THEN NULL ELSE t.free[i - 1]
  <2> SUFFICES ASSUME NEW i \in 1 .. n + 1
               PROVE  t.pp_link[t.free[i]] = IF i = 1 THEN NULL ELSE t.free[i - 1]
    OBVIOUS
  <2>1. CASE i = n + 1
    <3>1. t.pp_link[t.free[i]] = s.page_free_list
      BY <2>1, <1>1, <1>4, <1>5
    <3>2. s.page_free_list = IF n = 0 THEN NULL ELSE s.free[n]
      BY DEF ChainOK, n
    <3> QED
      BY <2>1, <3>1, <3>2, <1>1, <1>5
  <2>2. CASE i \in 1 .. n
    <3>1. t.free[i] = s.free[i] /\ t.pp_link[t.free[i]] = s.pp_link[s.free[i]]
      BY <2>2, <1>1, <1>4, <1>5, <1>6
    <3>2. s.pp_link[s.free[i]] = IF i = 1 THEN NULL ELSE s.free[i - 1]
      BY <2>2, <1>1 DEF ChainOK, n
    <3> QED
      BY <2>2, <3>1, <3>2, <1>1, <1>5
  <2> QED
    BY <2>1, <2>2, <1>1
<1>9. \A i, j \in 1 .. n + 1 : t.free[i] = t.free[j] => i = j
  <2>1. \A i, j \in 1 .. n : s.free[i] = s.free[j] => i = j
    BY <1>1 DEF ChainOK, n
  <2> QED
    BY <2>1, <1>1, <1>5, <1>6
<1>10. \A q \in Page : ~IsFree(t, q) => t.pp_link[q] = NULL
  BY <1>1, <1>4, <1>7 DEF ChainOK
<1>11. t.page_free_list = IF n + 1 = 0 THEN NULL ELSE t.free[n + 1]
  BY <1>1, <1>4, <1>5
<1>12. ChainOK(t)
  BY <1>5, <1>8, <1>9, <1>10, <1>11 DEF ChainOK
<1> QED
  BY <1>4, <1>7, <1>12 DEF t
LEMMA AllocInv ==
  ASSUME NEW s \in MMType, NEW f, NEW H \in SUBSET Page, NEW X \in SUBSET Page,
         Inv(s, H, X), page_alloc(s, f).pp # NULL
  PROVE  LET a == page_alloc(s, f).pp
             t == page_alloc(s, f).st
         IN  /\ a \in Page \ Reserved /\ a \notin H /\ a \notin X
             /\ ~IsTable(s, a) /\ ~IsData(s, a)
             /\ s.pp_ref[a] = 0
             /\ IsFree(s, a) /\ \A p \in Page : IsFree(t, p) <=> IsFree(s, p) /\ p # a
             /\ SameTables(s, t) /\ t.cr3 = s.cr3
             /\ Inv(t, H \cup {a}, X)
<1> DEFINE a == page_alloc(s, f).pp
           t == page_alloc(s, f).st
<1>1. /\ a \in Page
      /\ t.mem = [s.mem EXCEPT ![a] = IF f # 0 THEN [y \in PTX |-> ZeroPte] ELSE @]
      /\ t.pp_ref = s.pp_ref /\ t.pgdir = s.pgdir /\ t.tlb = s.tlb
      /\ t.cr3 = s.cr3 /\ t.status = s.status
  BY ZenonT(30), AllocFields
<1>2. /\ ChainOK(t)
      /\ IsFree(s, a)
      /\ \A p \in Page : IsFree(t, p) <=> IsFree(s, p) /\ p # a
  BY AllocChain DEF Inv
<1> HIDE DEF a, t
<1>3. /\ a \notin Reserved /\ a \notin H /\ a \notin X /\ ~IsTable(s, a) /\ ~IsData(s, a)
      /\ s.pp_ref[a] = 0
  BY <1>1, <1>2, FreeCount
<1>4. SameTables(s, t)
  <2>1. \A d \in Pgdirs, x \in PDX : s.pgdir[d][x] # a
    BY <1>3 DEF IsTable
  <2>2. ASSUME NEW d \in Pgdirs, NEW v \in VA, HasTable(s, d, v)
        PROVE  Pte(t, d, v) = Pte(s, d, v)
    <3>1. s.pgdir[d][v[1]] # a /\ s.pgdir[d][v[1]] \in Page
      BY <2>1, <2>2, PteType DEF VA
    <3> QED
      BY <3>1, <1>1 DEF Pte, MMType
  <2> QED
    BY <2>2, <1>1 DEF SameTables
<1>5. Disjoint(t, H \cup {a}) /\ Covered(t, H \cup {a} \cup X)
  BY <1>2, <1>3, <1>4, SameView DEF Inv, Disjoint, Covered
<1>6. RefsOK(t, X)
  BY <1>1, <1>4, SameView DEF Inv, RefsOK
<1>7. Private(t) /\ Clean(t) /\ Coherent(t)
  BY <1>1, <1>4, SameView DEF Inv, MMType
<1>8. Limbo(t, X)
  BY <1>2, <1>4, SameView DEF Inv, Limbo
<1>9. Inv(t, H \cup {a}, X)
  BY <1>1, <1>2, <1>5, <1>6, <1>7, <1>8 DEF Inv
<1> QED
  BY <1>1, <1>2, <1>3, <1>4, <1>9 DEF a, t

LEMMA FreeInv ==
  ASSUME NEW s \in MMType, NEW H \in SUBSET Page, NEW X \in SUBSET Page,
         Inv(s, H, X), NEW p \in H \ X
  PROVE  LET t == page_free(s, p)
         IN  /\ Inv(t, H \ {p}, X)
             /\ SameTables(s, t)
             /\ \A q \in Page : IsFree(t, q) <=> IsFree(s, q) \/ q = p
<1> DEFINE t == page_free(s, p)
<1>1. p \in Page \ Reserved /\ ~IsFree(s, p) /\ ~IsTable(s, p) /\ ~IsData(s, p)
  BY DEF Inv, Disjoint
<1>2. s.pp_ref[p] = 0
  BY <1>1, MappingsFinite DEF Inv, RefsOK
<1>3. /\ ChainOK(t)
      /\ \A q \in Page : IsFree(t, q) <=> IsFree(s, q) \/ q = p
      /\ t.pp_ref = s.pp_ref /\ t.pgdir = s.pgdir /\ t.mem = s.mem
      /\ t.tlb = s.tlb /\ t.cr3 = s.cr3 /\ t.status = s.status
  BY <1>1, <1>2, FreeChain DEF Inv
<1> HIDE DEF t
<1>4. SameTables(s, t)
  BY <1>3 DEF SameTables, Pte
<1>5. Disjoint(t, H \ {p}) /\ Covered(t, (H \ {p}) \cup X)
  BY <1>1, <1>3, <1>4, SameView DEF Inv, Disjoint, Covered
<1>6. RefsOK(t, X)
  BY <1>3, <1>4, SameView DEF Inv, RefsOK
<1>7. Private(t) /\ Clean(t) /\ Coherent(t)
  BY <1>3, <1>4, SameView DEF Inv, MMType
<1>8. Limbo(t, X)
  BY <1>3, <1>4, SameView DEF Inv, Limbo
<1>9. Inv(t, H \ {p}, X)
  BY <1>3, <1>5, <1>6, <1>7, <1>8 DEF Inv
<1> QED
  BY <1>3, <1>4, <1>9 DEF t

-----------------------------------------------------------------------------
(* pgdir_walk keeps Inv, and maps and unmaps nothing.                      *)

(* The cleared page b becomes the table of the slot x of the directory d.  *)
BecomesTable(m, t, d, x, b) ==
  /\ ~IsTable(m, b) /\ ~IsData(m, b)
  /\ m.mem[b] = [y \in PTX |-> ZeroPte] /\ m.pgdir[d][x] = NULL
  /\ t.pp_ref = [m.pp_ref EXCEPT ![b] = 1]
  /\ t.pgdir = [m.pgdir EXCEPT ![d][x] = b]
  /\ t.pp_link = m.pp_link /\ t.page_free_list = m.page_free_list
  /\ t.free = m.free /\ t.mem = m.mem /\ t.tlb = m.tlb
  /\ t.cr3 = m.cr3 /\ t.status = m.status

LEMMA NewTableInv ==
  ASSUME NEW m \in MMType, NEW t, NEW H \in SUBSET Page, NEW X \in SUBSET Page,
         NEW d \in Pgdirs, NEW x \in PDX, NEW b \in Page, b \notin H, b \notin X,
         Inv(m, H \cup {b}, X), BecomesTable(m, t, d, x, b)
  PROVE  /\ Inv(t, H, X)
         /\ SameMap(m, t)
         /\ t.pgdir[d][x] = b
<1> USE DEF BecomesTable
<1>1. /\ t.pgdir[d][x] = b
      /\ \A e \in Pgdirs, y \in PDX :
           e # d \/ y # x => t.pgdir[e][y] = m.pgdir[e][y]
  BY DEF MMType
<1>2. \A e \in Pgdirs, w \in VA :
        HasTable(t, e, w) <=> HasTable(m, e, w) \/ (e = d /\ w[1] = x)
  BY <1>1, PagesAssumption DEF HasTable, VA
<1>3. \A e \in Pgdirs, w \in VA : HasTable(m, e, w) => Pte(t, e, w) = Pte(m, e, w)
  BY <1>1 DEF HasTable, Pte, VA
<1>4. \A w \in VA : w[1] = x => Pte(t, d, w) = ZeroPte /\ ~HasTable(m, d, w)
  BY <1>1 DEF HasTable, Pte, VA
<1>5. ~Present(ZeroPte)
  BY DEF Present, ZeroPte
<1>6. \A e \in Pgdirs, w \in VA : IsMapped(t, e, w) <=> IsMapped(m, e, w)
  BY <1>2, <1>3, <1>4, <1>5 DEF IsMapped
<1>7. \A p \in Page : Mappings(t, p) = Mappings(m, p)
  BY <1>3, <1>6 DEF Mappings, IsMapped
<1>8. \A p \in Page : IsData(t, p) <=> IsData(m, p)
  BY <1>3, <1>6 DEF IsData, IsMapped
<1>9. \A p \in Page : IsTable(t, p) <=> IsTable(m, p) \/ p = b
  BY <1>1, PagesAssumption DEF IsTable
<1>10. Private(t)
  <2>1. \A e \in Pgdirs, y \in PDX : m.pgdir[e][y] # b
    BY DEF IsTable
  <2> QED
    BY <1>1, <2>1 DEF Inv, Private
<1>11. Clean(t)
  BY <1>2, <1>3, <1>4 DEF Inv, Clean
<1>12. Coherent(t)
  BY <1>3, <1>6 DEF Inv, Coherent, IsMapped, MMType
<1>13. \A p \in Page : IsFree(t, p) <=> IsFree(m, p)
  BY DEF IsFree
<1>14. ChainOK(t)
  BY <1>13 DEF Inv, ChainOK
<1>15. b \notin Reserved /\ ~IsFree(m, b)
  BY DEF Inv, Disjoint
<1>16. Disjoint(t, H) /\ Covered(t, H \cup X)
  BY <1>8, <1>9, <1>13, <1>15 DEF Inv, Disjoint, Covered
<1>17. RefsOK(t, X)
  BY <1>7, <1>9 DEF Inv, RefsOK, MMType
<1>18. Limbo(t, X)
  BY <1>9, <1>13 DEF Inv, Limbo
<1>19. Inv(t, H, X)
  BY <1>10, <1>11, <1>12, <1>14, <1>16, <1>17, <1>18 DEF Inv
<1>20. SameMap(m, t)
  BY <1>3, <1>6 DEF SameMap, IsMapped
<1> QED
  BY <1>1, <1>19, <1>20

(* The slot x of the directory d keeps its table, or gets one that was     *)
(* free.                                                                   *)
GainsTable(s, t, d, x) ==
  \/ t.pgdir = s.pgdir /\ \A p \in Page : IsFree(t, p) <=> IsFree(s, p)
  \/ \E b \in Page :
       /\ s.pgdir[d][x] = NULL /\ IsFree(s, b)
       /\ t.pgdir = [s.pgdir EXCEPT ![d][x] = b]
       /\ \A p \in Page : IsFree(t, p) <=> IsFree(s, p) /\ p # b

LEMMA WalkInv ==
  ASSUME NEW s \in MMType, NEW H \in SUBSET Page, NEW X \in SUBSET Page,
         Inv(s, H, X), NEW d \in Pgdirs, NEW v \in VA
  PROVE  LET w == pgdir_walk(s, d, v, TRUE)
         IN  /\ Inv(w.st, H, X)
             /\ SameMap(s, w.st) /\ w.st.cr3 = s.cr3
             /\ GainsTable(s, w.st, d, v[1])
             /\ w.pte = NULL => w.st = s
             /\ w.pte # NULL => /\ HasTable(w.st, d, v)
                                /\ w.pte = <<w.st.pgdir[d][v[1]], v[2]>>
<1> DEFINE w == pgdir_walk(s, d, v, TRUE)
           a == page_alloc(s, 1)
           m == a.st
           t == [page_incref(m, a.pp) EXCEPT !.pgdir[d][v[1]] = a.pp]
           x == v[1]
<1>1. CASE s.pgdir[d][x] # NULL
  <2>1. w.st = s /\ w.pte = <<s.pgdir[d][x], v[2]>>
    BY <1>1 DEF pgdir_walk
  <2> QED
    BY <1>1, <2>1 DEF GainsTable, SameMap, HasTable
<1>2. CASE s.pgdir[d][x] = NULL /\ a.pp = NULL
  <2>1. w.st = s /\ w.pte = NULL
    BY <1>2 DEF pgdir_walk
  <2> QED
    BY <2>1 DEF GainsTable, SameMap
<1>3. CASE s.pgdir[d][x] = NULL /\ a.pp # NULL
  <2>1. w.st = t /\ w.pte = <<a.pp, v[2]>>
    BY <1>3 DEF pgdir_walk
  <2>2. /\ a.pp \in Page \ Reserved /\ a.pp \notin H /\ a.pp \notin X
        /\ ~IsTable(s, a.pp) /\ ~IsData(s, a.pp)
        /\ s.pp_ref[a.pp] = 0
        /\ IsFree(s, a.pp) /\ \A p \in Page : IsFree(m, p) <=> IsFree(s, p) /\ p # a.pp
        /\ SameTables(s, m) /\ m.cr3 = s.cr3
        /\ Inv(m, H \cup {a.pp}, X)
    BY <1>3, AllocInv
  <2>3. m.mem[a.pp] = [y \in PTX |-> ZeroPte] /\ m.pp_ref = s.pp_ref
    <3>1. /\ m.mem = [s.mem EXCEPT ![a.pp] = IF 1 # 0 THEN [y \in PTX |-> ZeroPte] ELSE @]
          /\ m.pp_ref = s.pp_ref
      BY <1>3, AllocFields
    <3>2. DOMAIN s.mem = Page
      BY DEF MMType
    <3> QED
      BY <3>1, <3>2, <2>2
  <2>4. m \in MMType /\ x \in PDX /\ v[2] \in PTX
    BY AllocType DEF VA
  <2> DEFINE b == a.pp
  <2> HIDE DEF a, x
  <2>5. /\ t.pp_ref = [m.pp_ref EXCEPT ![b] = 1]
        /\ t.pgdir = [m.pgdir EXCEPT ![d][x] = b]
        /\ t.pp_link = m.pp_link /\ t.page_free_list = m.page_free_list
        /\ t.free = m.free /\ t.mem = m.mem /\ t.tlb = m.tlb
        /\ t.cr3 = m.cr3 /\ t.status = m.status
    <3>1. (m.pp_ref[b] + 1) % RefMod = 1
      BY <2>2, <2>3, RefModAssumption, RefSmall
    <3> QED
      BY <3>1, <2>4, <2>2 DEF page_incref, MMType, x
  <2>6. /\ b \in Page /\ b \notin H /\ b \notin X
        /\ ~IsTable(m, b) /\ ~IsData(m, b) /\ Inv(m, H \cup {b}, X)
    BY <2>2, SameView
  <2>7. m.mem[b] = [y \in PTX |-> ZeroPte] /\ m.pgdir[d][x] = NULL
    BY <1>3, <2>2, <2>3 DEF SameTables
  <2>8. SameMap(s, m)
    BY <2>2, SameView
  <2> HIDE DEF m, t, b, w
  <2>9. /\ Inv(t, H, X)
        /\ SameMap(m, t)
        /\ t.pgdir[d][x] = b
    <3>1. BecomesTable(m, t, d, x, b)
      BY <2>5, <2>6, <2>7 DEF BecomesTable
    <3> QED
      BY <2>4, <2>6, <3>1, NewTableInv
  <2>10. HasTable(t, d, v)
    BY <2>6, <2>9, PagesAssumption DEF HasTable, x
  <2>11. w.pte = <<t.pgdir[d][v[1]], v[2]>>
    BY <2>1, <2>9 DEF b, x
  <2>12. SameMap(s, t)
    BY <2>8, <2>9 DEF SameMap
  <2>13. GainsTable(s, t, d, x)
    <3>1. t.pgdir = [s.pgdir EXCEPT ![d][x] = b]
      BY <2>2, <2>5 DEF SameTables
    <3>2. \A p \in Page : IsFree(t, p) <=> IsFree(m, p)
      BY <2>5 DEF IsFree
    <3>3. b \in Page /\ IsFree(s, b) /\ \A p \in Page : IsFree(m, p) <=> IsFree(s, p) /\ p # b
      BY <2>2 DEF b
    <3> QED
      BY <1>3, <3>1, <3>2, <3>3 DEF GainsTable
  <2>14. t.cr3 = s.cr3
    BY <2>2, <2>5
  <2>15. w.pte # NULL
    BY <2>1, <2>6, PagesAssumption, <2>4 DEF b
  <2> QED
    BY <2>1, <2>9, <2>10, <2>11, <2>12, <2>13, <2>14, <2>15 DEF w, x
<1> QED
  BY <1>1, <1>2, <1>3
-----------------------------------------------------------------------------
(* Writing one entry of a table changes one entry of one address space.    *)

Writes(s, r, d, v, e) ==
  /\ r.pgdir = s.pgdir
  /\ r.mem = [s.mem EXCEPT ![s.pgdir[d][v[1]]][v[2]] = e]

(* No other address space or address is touched.                           *)
Edited(s, r, d, v) ==
  \A f \in Pgdirs, w \in VA :
    f # d \/ w # v => /\ IsMapped(r, f, w) <=> IsMapped(s, f, w)
                      /\ IsMapped(s, f, w) => Pte(r, f, w) = Pte(s, f, w)

LEMMA EntryWritten ==
  ASSUME NEW s \in MMType, Private(s), NEW d \in Pgdirs, NEW v \in VA,
         HasTable(s, d, v), NEW e, NEW r, Writes(s, r, d, v, e)
  PROVE  /\ \A f \in Pgdirs, w \in VA : HasTable(r, f, w) <=> HasTable(s, f, w)
         /\ Pte(r, d, v) = e
         /\ \A f \in Pgdirs, w \in VA :
              HasTable(s, f, w) /\ (f # d \/ w # v) => Pte(r, f, w) = Pte(s, f, w)
         /\ \A p \in Page : IsTable(r, p) <=> IsTable(s, p)
         /\ Private(r)
<1> USE DEF Writes
<1> DEFINE T == s.pgdir[d][v[1]]
<1>1. T \in Page /\ v[1] \in PDX /\ v[2] \in PTX
  BY PteType DEF VA
<1>2. \A q \in Page, y \in PTX :
        r.mem[q][y] = IF q = T /\ y = v[2] THEN e ELSE s.mem[q][y]
  BY <1>1 DEF MMType
<1>3. \A f \in Pgdirs, w \in VA : HasTable(r, f, w) <=> HasTable(s, f, w)
  BY DEF HasTable
<1>4. Pte(r, d, v) = e
  BY <1>1, <1>2 DEF Pte
<1>5. ASSUME NEW f \in Pgdirs, NEW w \in VA, HasTable(s, f, w), f # d \/ w # v
      PROVE  Pte(r, f, w) = Pte(s, f, w)
  <2>1. s.pgdir[f][w[1]] \in Page /\ w[2] \in PTX
    BY <1>5, PteType DEF VA
  <2>2. ~(s.pgdir[f][w[1]] = T /\ w[2] = v[2])
    BY <1>5, OtherEntry
  <2>3. PICK q \in Page, y \in PTX : q = s.pgdir[f][w[1]] /\ y = w[2]
    BY <2>1
  <2>4. r.mem[q][y] = s.mem[q][y]
    BY <1>2, <2>2, <2>3
  <2> QED
    BY <2>3, <2>4 DEF Pte
<1>6. \A p \in Page : IsTable(r, p) <=> IsTable(s, p)
  BY DEF IsTable
<1>7. Private(r)
  BY DEF Private
<1> QED
  BY <1>3, <1>4, <1>5, <1>6, <1>7

(* Taking the mapping at v away takes it from the page it mapped and from  *)
(* no other.                                                               *)
LEMMA EntryCleared ==
  ASSUME NEW s \in MMType, Private(s), Clean(s), NEW d \in Pgdirs, NEW v \in VA,
         IsMapped(s, d, v), NEW r, Writes(s, r, d, v, ZeroPte)
  PROVE  LET a == Pte(s, d, v).addr
         IN  /\ a \in Page
             /\ ~IsMapped(r, d, v) /\ HasTable(r, d, v)
             /\ \A f \in Pgdirs, w \in VA :
                  f # d \/ w # v => /\ IsMapped(r, f, w) <=> IsMapped(s, f, w)
                                    /\ IsMapped(s, f, w) => Pte(r, f, w) = Pte(s, f, w)
             /\ \A p \in Page : p # a => Mappings(r, p) = Mappings(s, p)
             /\ Cardinality(Mappings(r, a)) = Cardinality(Mappings(s, a)) - 1
             /\ Cardinality(Mappings(s, a)) > 0
             /\ Clean(r)
<1> DEFINE a == Pte(s, d, v).addr
<1>1. ~Present(ZeroPte)
  BY DEF Present, ZeroPte
<1>2. /\ \A f \in Pgdirs, w \in VA : HasTable(r, f, w) <=> HasTable(s, f, w)
      /\ Pte(r, d, v) = ZeroPte
      /\ \A f \in Pgdirs, w \in VA :
           HasTable(s, f, w) /\ (f # d \/ w # v) => Pte(r, f, w) = Pte(s, f, w)
  <2>1. HasTable(s, d, v)
    BY DEF IsMapped
  <2> HIDE DEF a
  <2> QED
    BY <2>1, EntryWritten
<1>3. HasTable(s, d, v) /\ Present(Pte(s, d, v))
  BY DEF IsMapped
<1>4. a \in Page
  BY <1>1, <1>3 DEF Clean
<1>5. ~IsMapped(r, d, v) /\ HasTable(r, d, v)
  BY <1>1, <1>2, <1>3 DEF IsMapped
<1>6. \A f \in Pgdirs, w \in VA :
        f # d \/ w # v => /\ IsMapped(r, f, w) <=> IsMapped(s, f, w)
                          /\ IsMapped(s, f, w) => Pte(r, f, w) = Pte(s, f, w)
  BY <1>2 DEF IsMapped
<1> DEFINE m == <<d, v>>
<1>7. \A p \in Page : Mappings(r, p) = Mappings(s, p) \ {m}
  <2>1. ASSUME NEW p \in Page, NEW f \in Pgdirs, NEW w \in VA
        PROVE  <<f, w>> \in Mappings(r, p) <=> <<f, w>> \in Mappings(s, p) \ {m}
    BY <1>5, <1>6 DEF Mappings
  <2>2. \A p \in Page : Mappings(r, p) \subseteq Pgdirs \X VA
                     /\ Mappings(s, p) \subseteq Pgdirs \X VA
    BY DEF Mappings
  <2> QED
    BY <2>1, <2>2
<1>8. m \in Mappings(s, a) /\ \A p \in Page : p # a => m \notin Mappings(s, p)
  BY DEF Mappings
<1>9. \A p \in Page : p # a => Mappings(r, p) = Mappings(s, p)
  BY <1>7, <1>8
<1>10. /\ Cardinality(Mappings(r, a)) = Cardinality(Mappings(s, a)) - 1
       /\ Cardinality(Mappings(s, a)) > 0
  <2>1. Cardinality(Mappings(s, a) \ {m}) = Cardinality(Mappings(s, a)) - 1
    BY <1>8, MappingsFinite, FS_RemoveElement
  <2>2. Cardinality(Mappings(s, a)) \in Nat /\ Cardinality(Mappings(s, a)) # 0
    BY <1>8, MappingsFinite
  <2>3. Mappings(r, a) = Mappings(s, a) \ {m}
    BY <1>4, <1>7
  <2> HIDE DEF a, m
  <2>4. Cardinality(Mappings(r, a)) = Cardinality(Mappings(s, a)) - 1
    BY <2>1, <2>3
  <2> QED
    BY <2>2, <2>4
<1>11. Clean(r)
  BY <1>2, <1>3 DEF Clean
<1> HIDE DEF a
<1> QED
  BY <1>4, <1>5, <1>6, <1>9, <1>10, <1>11 DEF a

-----------------------------------------------------------------------------
(* page_remove of a mapped page.                                           *)

(* The count of a mapped page that is not a table is at least one, and     *)
(* page_decref frees the page exactly when its count was one.              *)
LEMMA DecrefInv ==
  ASSUME NEW s \in MMType, NEW H \in SUBSET Page, NEW X, Inv(s, H, X),
         NEW a \in Page, IsData(s, a) \/ a \in X
  PROVE  LET q == page_decref(s, a)
             k == s.pp_ref[a] - 1
         IN  /\ s.pp_ref[a] = Cardinality(Mappings(s, a)) + (IF a \in X THEN 1 ELSE 0)
             /\ k \in 0 .. RefMod - 1
             /\ ChainOK(q)
             /\ \A p \in Page : IsFree(q, p) <=> IsFree(s, p) \/ (p = a /\ k = 0)
             /\ q.pp_ref = [s.pp_ref EXCEPT ![a] = k]
             /\ q.pgdir = s.pgdir /\ q.mem = s.mem /\ q.tlb = s.tlb
             /\ q.cr3 = s.cr3 /\ q.status = s.status
<1> DEFINE q == page_decref(s, a)
           k == s.pp_ref[a] - 1
           t == [s EXCEPT !.pp_ref[a] = k]
           c == Cardinality(Mappings(s, a))
<1>1. a \notin Reserved /\ ~IsTable(s, a) /\ ~IsFree(s, a)
  BY DEF Inv, Disjoint, Limbo
<1>2. c \in Nat /\ (c = 0 => a \in X)
  BY MappingsFinite
<1>3. s.pp_ref[a] = c + (IF a \in X THEN 1 ELSE 0)
  BY <1>1 DEF Inv, RefsOK
<1>4. s.pp_ref[a] \in 0 .. RefMod - 1
  BY DEF MMType
<1> HIDE DEF c
<1>5. k \in 0 .. RefMod - 1
  BY <1>2, <1>3, <1>4, RefModAssumption
<1>6. k % RefMod = k
  BY <1>5, RefSmall
<1>7. t \in MMType /\ t.pp_ref[a] = k /\ t.pp_ref = [s.pp_ref EXCEPT ![a] = k]
      /\ t.pgdir = s.pgdir /\ t.mem = s.mem /\ t.tlb = s.tlb
      /\ t.cr3 = s.cr3 /\ t.status = s.status
      /\ t.free = s.free /\ t.pp_link = s.pp_link /\ t.page_free_list = s.page_free_list
  BY <1>5 DEF MMType
<1>8. q = IF k = 0 THEN page_free(t, a) ELSE t
  BY <1>6, <1>7 DEF page_decref
<1> HIDE DEF q, k, t
<1>9. \A p \in Page : IsFree(t, p) <=> IsFree(s, p)
  BY <1>7 DEF IsFree
<1>10. ChainOK(t)
  BY <1>7, <1>9 DEF Inv, ChainOK
<1>11. CASE k = 0
  BY <1>1, <1>3, <1>5, <1>7, <1>8, <1>9, <1>10, <1>11, FreeChain DEF q, k, c
<1>12. CASE k # 0
  BY <1>3, <1>5, <1>7, <1>8, <1>9, <1>10, <1>12 DEF q, k, c
<1> QED
  BY <1>11, <1>12

(* page_remove reaches the entry and the page it names.                    *)
(* The function of functions f with the value e at x, y.                   *)
Written(f, x, y, e) == [f EXCEPT ![x][y] = e]

LEMMA RemoveReaches ==
  ASSUME NEW s \in MMType, NEW d \in Pgdirs, NEW v \in VA, HasTable(s, d, v),
         Pte(s, d, v).addr \in Page
  PROVE  LET q == page_decref(s, Pte(s, d, v).addr)
             r == page_remove(s, d, v)
         IN  /\ r.mem = Written(q.mem, s.pgdir[d][v[1]], v[2], ZeroPte)
             /\ r.tlb = [q.tlb EXCEPT ![v] = NULL]
             /\ r.pp_ref = q.pp_ref /\ r.pp_link = q.pp_link /\ r.pgdir = q.pgdir
             /\ r.page_free_list = q.page_free_list /\ r.free = q.free
             /\ r.cr3 = q.cr3 /\ r.status = q.status
<1> DEFINE a == Pte(s, d, v).addr
           q == page_decref(s, a)
           w == <<s.pgdir[d][v[1]], v[2]>>
           l == page_lookup(s, d, v)
<1>1. pgdir_walk(s, d, v, FALSE).pte = w
  BY DEF pgdir_walk, HasTable
<1>2. w # NULL
  BY PteType, PagesAssumption DEF VA
<1>3. l.pp = a /\ l.pte = w
  <2>1. load(s, w) = Pte(s, d, v)
    BY DEF load, Pte
  <2> HIDE DEF w
  <2>2. load(s, w).addr = a
    BY <2>1
  <2>3. l = [st |-> s, pp |-> a, pte |-> w]
    BY <1>1, <1>2, <2>2 DEF page_lookup
  <2> QED
    BY <2>3
<1>4. a # NULL
  BY PagesAssumption
<1>5. page_remove(s, d, v) = tlb_invalidate(store(q, w, ZeroPte), v)
  BY <1>3, <1>4 DEF page_remove
<1>6. q \in MMType
  BY DecrefType
<1> HIDE DEF q
<1>7. store(q, w, ZeroPte).mem = Written(q.mem, s.pgdir[d][v[1]], v[2], ZeroPte)
  BY <1>6 DEF store, MMType, Written
<1> QED
  BY <1>5, <1>6, <1>7 DEF store, tlb_invalidate, MMType, q

LEMMA RemoveFields ==
  ASSUME NEW s \in MMType, Clean(s), NEW d \in Pgdirs, NEW v \in VA, IsMapped(s, d, v)
  PROVE  LET a == Pte(s, d, v).addr
             q == page_decref(s, a)
             r == page_remove(s, d, v)
         IN  /\ r.mem = [q.mem EXCEPT ![s.pgdir[d][v[1]]][v[2]] = ZeroPte]
             /\ r.tlb = [q.tlb EXCEPT ![v] = NULL]
             /\ r.pp_ref = q.pp_ref /\ r.pp_link = q.pp_link /\ r.pgdir = q.pgdir
             /\ r.page_free_list = q.page_free_list /\ r.free = q.free
             /\ r.cr3 = q.cr3 /\ r.status = q.status
<1>1. ~Present(ZeroPte)
  BY DEF Present, ZeroPte
<1>2. Pte(s, d, v).addr \in Page /\ HasTable(s, d, v)
  BY <1>1 DEF Clean, IsMapped
<1> QED
  BY <1>2, RemoveReaches DEF Written

LEMMA RemoveInv ==
  ASSUME NEW s \in MMType, NEW H \in SUBSET Page, NEW X \in SUBSET Page, Inv(s, H, X),
         NEW d \in Pgdirs, NEW v \in VA, IsMapped(s, d, v)
  PROVE  LET r == page_remove(s, d, v)
         IN  /\ Inv(r, H, X)
             /\ HasTable(r, d, v) /\ ~IsMapped(r, d, v)
             /\ r.pgdir = s.pgdir
             /\ Edited(s, r, d, v) /\ r.cr3 = s.cr3
             /\ \A p \in Page :
                  /\ IsData(r, p) => IsData(s, p)
                  /\ IsFree(r, p) <=>
                       IsFree(s, p) \/ (IsData(s, p) /\ ~IsData(r, p) /\ p \notin X)
<1> DEFINE r == page_remove(s, d, v)
           a == Pte(s, d, v).addr
           q == page_decref(s, a)
           k == s.pp_ref[a] - 1
           C(t, p) == Cardinality(Mappings(t, p))
<1>1. Private(s) /\ Clean(s) /\ Coherent(s) /\ Disjoint(s, H) /\ RefsOK(s, X)
      /\ Covered(s, H \cup X) /\ Limbo(s, X) /\ s.status = "run"
  BY DEF Inv
<1>2. a \in Page /\ IsData(s, a)
  <2>1. ~Present(ZeroPte)
    BY DEF Present, ZeroPte
  <2>2. a \in Page
    BY <1>1, <2>1 DEF Clean, IsMapped
  <2>3. <<d, v>> \in Mappings(s, a)
    BY DEF Mappings
  <2> QED
    BY <2>2, <2>3, MappingsFinite
<1> HIDE DEF a
<1>3. /\ s.pp_ref[a] = C(s, a) + (IF a \in X THEN 1 ELSE 0)
      /\ k \in 0 .. RefMod - 1
      /\ ChainOK(q)
      /\ \A p \in Page : IsFree(q, p) <=> IsFree(s, p) \/ (p = a /\ k = 0)
      /\ q.pp_ref = [s.pp_ref EXCEPT ![a] = k]
      /\ q.pgdir = s.pgdir /\ q.mem = s.mem /\ q.tlb = s.tlb
      /\ q.cr3 = s.cr3 /\ q.status = s.status
  BY <1>2, DecrefInv
<1>4. /\ r.mem = [q.mem EXCEPT ![s.pgdir[d][v[1]]][v[2]] = ZeroPte]
      /\ r.tlb = [q.tlb EXCEPT ![v] = NULL]
      /\ r.pp_ref = q.pp_ref /\ r.pp_link = q.pp_link /\ r.pgdir = q.pgdir
      /\ r.page_free_list = q.page_free_list /\ r.free = q.free
      /\ r.cr3 = q.cr3 /\ r.status = q.status
  BY <1>1, RemoveFields DEF a
<1> HIDE DEF r, q
<1>5. Writes(s, r, d, v, ZeroPte) /\ HasTable(s, d, v)
  BY <1>3, <1>4 DEF Writes, IsMapped
<1>6. /\ \A p \in Page : IsTable(r, p) <=> IsTable(s, p)
      /\ Private(r)
  BY <1>1, <1>5, EntryWritten
<1>7. /\ ~IsMapped(r, d, v) /\ HasTable(r, d, v)
      /\ \A f \in Pgdirs, w \in VA :
           f # d \/ w # v => /\ IsMapped(r, f, w) <=> IsMapped(s, f, w)
                             /\ IsMapped(s, f, w) => Pte(r, f, w) = Pte(s, f, w)
      /\ \A p \in Page : p # a => Mappings(r, p) = Mappings(s, p)
      /\ C(r, a) = C(s, a) - 1
      /\ C(s, a) > 0
      /\ Clean(r)
  BY <1>1, <1>5, EntryCleared DEF a
<1>8. \A p \in Page : /\ p # a => (IsData(r, p) <=> IsData(s, p))
                      /\ C(r, p) \in Nat /\ C(s, p) \in Nat
                      /\ C(r, p) = 0 <=> ~IsData(r, p)
  BY <1>7, MappingsFinite
<1> HIDE DEF C, k
<1>9. \A p \in Page : IsFree(r, p) <=> IsFree(s, p) \/ (p = a /\ k = 0)
  BY SMTT(30), <1>3, <1>4 DEF IsFree
<1>10. ChainOK(r)
  <2>1. \A p \in Page : IsFree(r, p) <=> IsFree(q, p)
    BY <1>4 DEF IsFree
  <2> QED
    BY SMTT(30), <1>3, <1>4, <2>1 DEF ChainOK
<1>11. k = 0 <=> ~IsData(r, a) /\ a \notin X
  BY <1>2, <1>3, <1>7, <1>8 DEF k
<1>12. a \notin Reserved /\ a \notin H /\ ~IsTable(s, a) /\ ~IsFree(s, a)
  BY <1>1, <1>2 DEF Disjoint
<1>13. Disjoint(r, H)
  BY <1>1, <1>6, <1>8, <1>9, <1>11, <1>12 DEF Disjoint
<1>14. Covered(r, H \cup X)
  BY <1>1, <1>6, <1>8, <1>9, <1>11 DEF Covered
<1>15. RefsOK(r, X)
  <2> SUFFICES ASSUME NEW p \in Page \ Reserved
               PROVE  r.pp_ref[p] = IF IsTable(r, p) THEN 1
                                    ELSE C(r, p) + (IF p \in X THEN 1 ELSE 0)
    BY DEF RefsOK, C
  <2>1. CASE p = a
    <3>1. r.pp_ref[a] = k
      BY <1>2, <1>3, <1>4 DEF MMType
    <3> QED
      BY <2>1, <3>1, <1>2, <1>3, <1>6, <1>7, <1>8, <1>12 DEF k
  <2>2. CASE p # a
    <3>1. r.pp_ref[p] = s.pp_ref[p]
      BY <2>2, <1>3, <1>4 DEF MMType
    <3>2. C(r, p) = C(s, p)
      BY <2>2, <1>7 DEF C
    <3> QED
      BY <3>1, <3>2, <1>1, <1>6 DEF RefsOK, C
  <2> QED
    BY <2>1, <2>2
<1>16. Limbo(r, X)
  BY <1>1, <1>6, <1>9, <1>11 DEF Limbo
<1>17. Coherent(r)
  <2> SUFFICES ASSUME NEW w \in VA, r.tlb[w] # NULL
               PROVE  IsMapped(r, r.cr3, w) /\ r.tlb[w] = Pte(r, r.cr3, w)
    BY DEF Coherent
  <2>1. w # v /\ r.tlb[w] = s.tlb[w] /\ r.cr3 = s.cr3 /\ s.cr3 \in Pgdirs
    BY <1>3, <1>4 DEF MMType
  <2>2. IsMapped(s, s.cr3, w) /\ s.tlb[w] = Pte(s, s.cr3, w)
    BY <1>1, <2>1 DEF Coherent
  <2> QED
    BY <1>7, <2>1, <2>2
<1>18. \A p \in Page :
         /\ IsData(r, p) => IsData(s, p)
         /\ IsFree(r, p) <=>
              IsFree(s, p) \/ (IsData(s, p) /\ ~IsData(r, p) /\ p \notin X)
  BY <1>2, <1>8, <1>9, <1>11
<1>19. Inv(r, H, X)
  BY <1>1, <1>3, <1>4, <1>6, <1>7, <1>10, <1>13, <1>14, <1>15, <1>16, <1>17 DEF Inv
<1>20. Edited(s, r, d, v) /\ r.cr3 = s.cr3
  BY <1>3, <1>4, <1>7 DEF Edited
<1> QED
  BY <1>3, <1>4, <1>7, <1>18, <1>19, <1>20 DEF r

-----------------------------------------------------------------------------
(* page_insert: the reference, the page mapped before, the new entry.      *)

LEMMA IncrefInv ==
  ASSUME NEW s \in MMType, NEW H \in SUBSET Page, NEW X \in SUBSET Page,
         Inv(s, H, X), NEW p \in Page, p \notin X,
         p \in H \/ IsData(s, p), RefFits(s, p)
  PROVE  LET t == page_incref(s, p)
         IN  /\ Inv(t, H, X \cup {p})
             /\ t.pgdir = s.pgdir /\ t.mem = s.mem
             /\ SameTables(s, t) /\ t.cr3 = s.cr3
             /\ \A q \in Page : IsFree(t, q) <=> IsFree(s, q)
<1> DEFINE t == page_incref(s, p)
           c == Cardinality(Mappings(s, p))
<1>1. p \notin Reserved /\ ~IsFree(s, p) /\ ~IsTable(s, p)
  BY DEF Inv, Disjoint
<1>2. c \in Nat /\ c + 1 < RefMod
  BY MappingsFinite DEF RefFits
<1>3. s.pp_ref[p] = c
  BY <1>1, <1>2 DEF Inv, RefsOK
<1> HIDE DEF c
<1>4. (s.pp_ref[p] + 1) % RefMod = c + 1
  <2>1. c + 1 \in 0 .. RefMod - 1
    BY <1>2, RefModAssumption
  <2> QED
    BY <2>1, <1>3, RefSmall
<1>5. /\ t.pp_ref = [s.pp_ref EXCEPT ![p] = c + 1]
      /\ t.pp_link = s.pp_link /\ t.page_free_list = s.page_free_list
      /\ t.free = s.free /\ t.pgdir = s.pgdir /\ t.mem = s.mem /\ t.tlb = s.tlb
      /\ t.cr3 = s.cr3 /\ t.status = s.status
  BY <1>4 DEF page_incref, MMType
<1> HIDE DEF t
<1>6. SameTables(s, t)
  BY <1>5 DEF SameTables, Pte
<1>7. \A q \in Page : IsFree(t, q) <=> IsFree(s, q)
  BY <1>5 DEF IsFree
<1>8. ChainOK(t)
  BY <1>5, <1>7 DEF Inv, ChainOK
<1>9. Disjoint(t, H) /\ Covered(t, H \cup (X \cup {p}))
  BY <1>6, <1>7, SameView DEF Inv, Disjoint, Covered
<1>10. RefsOK(t, X \cup {p})
  <2> SUFFICES ASSUME NEW q \in Page \ Reserved
               PROVE  t.pp_ref[q] = IF IsTable(t, q) THEN 1
                                    ELSE Cardinality(Mappings(t, q))
                                           + (IF q \in X \cup {p} THEN 1 ELSE 0)
    BY DEF RefsOK
  <2>1. Mappings(t, q) = Mappings(s, q) /\ (IsTable(t, q) <=> IsTable(s, q))
    BY <1>6, SameView
  <2>2. CASE q = p
    BY <2>1, <2>2, <1>1, <1>2, <1>5 DEF MMType, c
  <2>3. CASE q # p
    BY <2>1, <2>3, <1>5 DEF Inv, RefsOK, MMType
  <2> QED
    BY <2>2, <2>3
<1>11. Private(t) /\ Clean(t) /\ Coherent(t)
  BY <1>5, <1>6, SameView DEF Inv, MMType
<1>12. Limbo(t, X \cup {p})
  BY <1>1, <1>6, <1>7, SameView DEF Inv, Limbo
<1>13. Inv(t, H, X \cup {p})
  BY <1>5, <1>8, <1>9, <1>10, <1>11, <1>12 DEF Inv
<1> QED
  BY <1>5, <1>6, <1>7, <1>13 DEF t

LEMMA MapInv ==
  ASSUME NEW s \in MMType, NEW H \in SUBSET Page, NEW X \in SUBSET Page,
         NEW p \in Page, p \notin X, Inv(s, H, X \cup {p}),
         NEW d \in Pgdirs, NEW v \in VA, HasTable(s, d, v), ~IsMapped(s, d, v),
         NEW perm
  PROVE  LET e == [addr |-> p, perm |-> perm \cup {"P"}]
             r == store(s, <<s.pgdir[d][v[1]], v[2]>>, e)
         IN  /\ Inv(r, H \ {p}, X)
             /\ r.pgdir = s.pgdir /\ r.cr3 = s.cr3
             /\ Edited(s, r, d, v) /\ IsMapped(r, d, v) /\ Pte(r, d, v) = e
             /\ \A q \in Page : /\ IsFree(r, q) <=> IsFree(s, q)
                                /\ IsData(r, q) <=> IsData(s, q) \/ q = p
<1> DEFINE e == [addr |-> p, perm |-> perm \cup {"P"}]
           r == store(s, <<s.pgdir[d][v[1]], v[2]>>, e)
           m == <<d, v>>
<1>1. Private(s) /\ Clean(s) /\ Coherent(s) /\ Disjoint(s, H) /\ RefsOK(s, X \cup {p})
      /\ Covered(s, H \cup (X \cup {p})) /\ Limbo(s, X \cup {p}) /\ s.status = "run" /\ ChainOK(s)
  BY DEF Inv
<1>2. /\ r.mem = [s.mem EXCEPT ![s.pgdir[d][v[1]]][v[2]] = e]
      /\ r.tlb = s.tlb /\ r.pp_ref = s.pp_ref /\ r.pp_link = s.pp_link
      /\ r.pgdir = s.pgdir /\ r.page_free_list = s.page_free_list
      /\ r.free = s.free /\ r.cr3 = s.cr3 /\ r.status = s.status
  BY DEF store, MMType
<1>3. Present(e) /\ e.addr = p
  BY DEF Present
<1> HIDE DEF e, r
<1>4. Writes(s, r, d, v, e)
  BY <1>2 DEF Writes
<1>5. /\ \A f \in Pgdirs, w \in VA : HasTable(r, f, w) <=> HasTable(s, f, w)
      /\ Pte(r, d, v) = e
      /\ \A f \in Pgdirs, w \in VA :
           HasTable(s, f, w) /\ (f # d \/ w # v) => Pte(r, f, w) = Pte(s, f, w)
      /\ \A q \in Page : IsTable(r, q) <=> IsTable(s, q)
      /\ Private(r)
  BY <1>1, <1>4, EntryWritten
<1>6. IsMapped(r, d, v)
  BY <1>3, <1>5 DEF IsMapped
<1>7. \A f \in Pgdirs, w \in VA :
        f # d \/ w # v => /\ IsMapped(r, f, w) <=> IsMapped(s, f, w)
                          /\ IsMapped(s, f, w) => Pte(r, f, w) = Pte(s, f, w)
  BY <1>5 DEF IsMapped
<1>8. \A q \in Page : Mappings(r, q) = IF q = p THEN Mappings(s, q) \cup {m}
                                       ELSE Mappings(s, q)
  <2> SUFFICES ASSUME NEW q \in Page
               PROVE  Mappings(r, q) = Mappings(s, q) \cup (IF q = p THEN {m} ELSE {})
    OBVIOUS
  <2>1. ASSUME NEW f \in Pgdirs, NEW w \in VA
        PROVE  <<f, w>> \in Mappings(r, q) <=>
                 <<f, w>> \in Mappings(s, q) \/ (q = p /\ f = d /\ w = v)
    BY <1>3, <1>5, <1>6, <1>7 DEF Mappings
  <2>2. /\ Mappings(r, q) \subseteq Pgdirs \X VA
        /\ Mappings(s, q) \subseteq Pgdirs \X VA
        /\ m \in Pgdirs \X VA
    BY DEF Mappings
  <2>3. CASE q = p
    BY <2>1, <2>2, <2>3
  <2>4. CASE q # p
    BY <2>1, <2>2, <2>4
  <2> QED
    BY <2>3, <2>4
<1>9. \A q \in Page : m \notin Mappings(s, q)
  BY DEF Mappings
<1>10. Cardinality(Mappings(r, p)) = Cardinality(Mappings(s, p)) + 1
  <2>1. Cardinality(Mappings(s, p) \cup {m}) = Cardinality(Mappings(s, p)) + 1
    BY <1>9, MappingsFinite, FS_AddElement
  <2> QED
    BY <2>1, <1>8
<1> HIDE DEF m
<1>11. /\ IsData(r, p)
       /\ \A q \in Page : q # p => (IsData(r, q) <=> IsData(s, q))
  <2>1. m \in Mappings(r, p)
    BY <1>8
  <2>2. IsData(r, p)
    BY <2>1, MappingsFinite
  <2> QED
    BY <2>2, <1>8, MappingsFinite
<1>12. \A q \in Page : IsFree(r, q) <=> IsFree(s, q)
  BY <1>2 DEF IsFree
<1>13. p \notin Reserved /\ ~IsFree(s, p) /\ ~IsTable(s, p)
  BY <1>1 DEF Limbo
<1>14. ChainOK(r)
  BY <1>1, <1>2, <1>12 DEF ChainOK
<1>15. Disjoint(r, H \ {p})
  BY <1>1, <1>5, <1>11, <1>12, <1>13 DEF Disjoint
<1>16. Covered(r, (H \ {p}) \cup X)
  BY <1>1, <1>5, <1>11, <1>12 DEF Covered
<1>17. RefsOK(r, X)
  <2> SUFFICES ASSUME NEW q \in Page \ Reserved
               PROVE  r.pp_ref[q] = IF IsTable(r, q) THEN 1
                                    ELSE Cardinality(Mappings(r, q))
                                           + (IF q \in X THEN 1 ELSE 0)
    BY DEF RefsOK
  <2>1. s.pp_ref[q] = IF IsTable(s, q) THEN 1
                      ELSE Cardinality(Mappings(s, q))
                             + (IF q \in X \cup {p} THEN 1 ELSE 0)
    BY <1>1 DEF RefsOK
  <2>2. Cardinality(Mappings(s, q)) \in Nat
    BY MappingsFinite
  <2>3. CASE q = p
    <3>1. s.pp_ref[p] = Cardinality(Mappings(s, p)) + 1 /\ ~IsTable(r, p)
      BY <2>1, <2>3, <1>5, <1>13
    <3>2. r.pp_ref[p] = Cardinality(Mappings(r, p))
      BY <3>1, <1>2, <1>10
    <3>3. Cardinality(Mappings(r, p)) \in Nat /\ p \notin X
      BY MappingsFinite
    <3> QED
      BY <2>3, <3>1, <3>2, <3>3
  <2>4. CASE q # p
    <3>1. r.pp_ref[q] = s.pp_ref[q] /\ (IsTable(r, q) <=> IsTable(s, q))
          /\ Mappings(r, q) = Mappings(s, q)
      BY <2>4, <1>2, <1>5, <1>8
    <3>2. q \in X \cup {p} <=> q \in X
      BY <2>4
    <3> QED
      BY <2>1, <3>1, <3>2
  <2> QED
    BY <2>3, <2>4
<1>18. Clean(r)
  BY <1>1, <1>3, <1>5 DEF Clean
<1>19. Coherent(r)
  <2> SUFFICES ASSUME NEW w \in VA, r.tlb[w] # NULL
               PROVE  IsMapped(r, r.cr3, w) /\ r.tlb[w] = Pte(r, r.cr3, w)
    BY DEF Coherent
  <2>1. r.tlb[w] = s.tlb[w] /\ r.cr3 = s.cr3 /\ s.cr3 \in Pgdirs
    BY <1>2 DEF MMType
  <2>2. IsMapped(s, s.cr3, w) /\ s.tlb[w] = Pte(s, s.cr3, w)
    BY <1>1, <2>1 DEF Coherent
  <2> QED
    BY <1>7, <2>1, <2>2
<1>20. Limbo(r, X)
  BY <1>1, <1>5, <1>12 DEF Limbo
<1>21. Inv(r, H \ {p}, X)
  BY <1>1, <1>2, <1>5, <1>14, <1>15, <1>16, <1>17, <1>18, <1>19, <1>20 DEF Inv
<1>22. Edited(s, r, d, v)
  BY <1>7 DEF Edited
<1> QED
  BY <1>2, <1>5, <1>6, <1>11, <1>12, <1>21, <1>22 DEF r, e

(* What page_insert does to the address spaces and the free pages.  The    *)
(* page mapped before is free again when it has no other use.              *)
InsertEffect(s, d, p, v, perm, X) ==
  LET i == page_insert(s, d, p, v, perm)
      m == pgdir_walk(s, d, v, TRUE).st
  IN  /\ i.st.cr3 = s.cr3
      /\ i.ret # "OK" => i.st = s
      /\ i.ret = "OK" =>
           /\ GainsTable(s, m, d, v[1]) /\ i.st.pgdir = m.pgdir
           /\ Edited(s, i.st, d, v) /\ IsMapped(i.st, d, v)
           /\ Pte(i.st, d, v) = [addr |-> p, perm |-> perm \cup {"P"}]
           /\ \A q \in Page :
                IsFree(i.st, q) <=>
                  IsFree(m, q) \/ (IsData(s, q) /\ ~IsData(i.st, q) /\ q \notin X)

LEMMA InsertInv ==
  ASSUME NEW s \in MMType, NEW H \in SUBSET Page, NEW X \in SUBSET Page,
         Inv(s, H, X), NEW p \in Page, p \notin X, p \in H \/ IsData(s, p),
         RefFits(s, p), NEW d \in Pgdirs, NEW v \in VA,
         NEW perm \in SUBSET {"W", "U"}
  PROVE  LET i == page_insert(s, d, p, v, perm)
         IN  /\ Inv(i.st, IF i.ret = "OK" THEN H \ {p} ELSE H, X)
             /\ InsertEffect(s, d, p, v, perm, X)
<1> DEFINE i == page_insert(s, d, p, v, perm)
           w == pgdir_walk(s, d, v, TRUE)
           t == page_incref(w.st, p)
           u == IF Present(load(t, w.pte)) THEN page_remove(t, d, v) ELSE t
           e == [addr |-> p, perm |-> perm \cup {"P"}]
           r == store(u, w.pte, e)
<1>1. /\ Inv(w.st, H, X)
      /\ SameMap(s, w.st) /\ w.st.cr3 = s.cr3
      /\ GainsTable(s, w.st, d, v[1])
      /\ w.pte = NULL => w.st = s
      /\ w.pte # NULL => /\ HasTable(w.st, d, v)
                         /\ w.pte = <<w.st.pgdir[d][v[1]], v[2]>>
  BY ZenonT(30), WalkInv
<1>2. w.st \in MMType
  BY WalkType
<1>3. CASE w.pte = NULL
  <2>1. i.st = w.st /\ i.ret = "E_NO_MEM"
    BY <1>3 DEF page_insert
  <2> QED
    BY <2>1, <1>1, <1>3 DEF InsertEffect
<1>4. CASE w.pte # NULL
  <2>1. i.st = r /\ i.ret = "OK"
    BY <1>4 DEF page_insert
  <2> HIDE DEF i, w
  <2>2. \A q \in Page : /\ Mappings(w.st, q) = Mappings(s, q)
                        /\ IsData(w.st, q) <=> IsData(s, q)
    BY <1>1, SameMapData
  <2>3. RefFits(w.st, p)
    BY <2>2 DEF RefFits
  <2>4. /\ Inv(t, H, X \cup {p}) /\ t.pgdir = w.st.pgdir /\ t.mem = w.st.mem
        /\ t \in MMType /\ SameTables(w.st, t) /\ t.cr3 = w.st.cr3
        /\ \A q \in Page : IsFree(t, q) <=> IsFree(w.st, q)
    <3>1. t \in MMType
      BY <1>2, IncrefType
    <3>2. p \in H \/ IsData(w.st, p)
      BY <2>2
    <3>3. /\ Inv(t, H, X \cup {p})
          /\ t.pgdir = w.st.pgdir /\ t.mem = w.st.mem
          /\ SameTables(w.st, t) /\ t.cr3 = w.st.cr3
          /\ \A q \in Page : IsFree(t, q) <=> IsFree(w.st, q)
      BY <1>1, <1>2, <2>3, <3>2, IncrefInv
    <3> QED
      BY <3>1, <3>3
  <2>5. HasTable(t, d, v) /\ w.pte = <<t.pgdir[d][v[1]], v[2]>>
    BY <1>1, <1>4, <2>4 DEF HasTable
  <2>6. SameMap(s, t)
    BY <1>1, <2>4, SameView DEF SameMap
  <2> HIDE DEF t
  <2>7. load(t, w.pte) = Pte(t, d, v)
    BY <2>5 DEF load, Pte
  <2>8. /\ Inv(u, H, X \cup {p}) /\ HasTable(u, d, v) /\ ~IsMapped(u, d, v)
        /\ u.pgdir = t.pgdir /\ u \in MMType /\ u.cr3 = t.cr3
        /\ Edited(t, u, d, v)
        /\ \A q \in Page :
             /\ IsData(u, q) => IsData(t, q)
             /\ IsFree(u, q) <=>
                  IsFree(t, q) \/ (IsData(t, q) /\ ~IsData(u, q) /\ q \notin X \cup {p})
    <3>1. CASE Present(load(t, w.pte))
      <4>1. IsMapped(t, d, v)
        BY <2>5, <2>7, <3>1 DEF IsMapped
      <4>2. u = page_remove(t, d, v)
        BY <3>1
      <4> HIDE DEF u
      <4>3. X \cup {p} \in SUBSET Page
        OBVIOUS
      <4> DEFINE Y == X \cup {p}
                 z == page_remove(t, d, v)
      <4>4. Inv(t, H, Y)
        BY <2>4
      <4> HIDE DEF Y
      <4>5. /\ Inv(z, H, Y)
            /\ HasTable(z, d, v) /\ ~IsMapped(z, d, v)
            /\ z.pgdir = t.pgdir
            /\ Edited(t, z, d, v) /\ z.cr3 = t.cr3
            /\ \A q \in Page :
                 /\ IsData(z, q) => IsData(t, q)
                 /\ IsFree(z, q) <=>
                      IsFree(t, q) \/ (IsData(t, q) /\ ~IsData(z, q) /\ q \notin Y)
        BY <4>1, <4>3, <4>4, <2>4, RemoveInv DEF Y
      <4>6. z \in MMType
        BY <2>4, RemoveType
      <4> QED
        BY <4>2, <4>5, <4>6 DEF Y
    <3>2. CASE ~Present(load(t, w.pte))
      <4>1. u = t
        BY <3>2
      <4>2. ~IsMapped(t, d, v)
        BY <2>7, <3>2 DEF IsMapped
      <4> HIDE DEF u
      <4> QED
        BY <4>1, <4>2, <2>4, <2>5 DEF Edited
    <3> QED
      BY <3>1, <3>2
  <2> HIDE DEF u
  <2>9. w.pte = <<u.pgdir[d][v[1]], v[2]>>
    BY <2>5, <2>8
  <2>10. /\ Inv(r, H \ {p}, X)
         /\ r.pgdir = u.pgdir /\ r.cr3 = u.cr3
         /\ Edited(u, r, d, v) /\ IsMapped(r, d, v) /\ Pte(r, d, v) = e
         /\ \A q \in Page : /\ IsFree(r, q) <=> IsFree(u, q)
                            /\ IsData(r, q) <=> IsData(u, q) \/ q = p
    <3> DEFINE z == store(u, <<u.pgdir[d][v[1]], v[2]>>, e)
    <3>1. /\ Inv(z, H \ {p}, X)
          /\ z.pgdir = u.pgdir /\ z.cr3 = u.cr3
          /\ Edited(u, z, d, v) /\ IsMapped(z, d, v) /\ Pte(z, d, v) = e
          /\ \A q \in Page : /\ IsFree(z, q) <=> IsFree(u, q)
                             /\ IsData(z, q) <=> IsData(u, q) \/ q = p
      BY ZenonT(30), <2>8, MapInv
    <3>2. r = z
      BY <2>9
    <3> QED
      BY <3>1, <3>2
  <2> HIDE DEF r
  <2>11. Edited(s, r, d, v)
    BY <2>6, <2>8, <2>10 DEF SameMap, Edited
  <2>12. \A q \in Page : IsData(t, q) <=> IsData(s, q)
    BY <2>6, SameMapData
  <2>13. ~IsFree(t, p)
    BY <2>4 DEF Inv, Limbo
  <2>14. \A q \in Page :
           IsFree(r, q) <=>
             IsFree(w.st, q) \/ (IsData(s, q) /\ ~IsData(r, q) /\ q \notin X)
    BY <2>4, <2>8, <2>10, <2>12
  <2> HIDE DEF e
  <2>15. /\ r.cr3 = s.cr3 /\ r.pgdir = w.st.pgdir
         /\ IsMapped(r, d, v) /\ Pte(r, d, v) = e /\ Inv(r, H \ {p}, X)
    BY <1>1, <2>4, <2>8, <2>10
  <2> QED
    BY <1>1, <2>1, <2>11, <2>14, <2>15 DEF InsertEffect, i, w, e
<1> QED
  BY <1>3, <1>4

LEMMA ScribbleInv ==
  ASSUME NEW s \in MMType, NEW H \in SUBSET Page, NEW X \in SUBSET Page, Inv(s, H, X),
         NEW p \in Page, ~IsTable(s, p), NEW c
  PROVE  LET t == [s EXCEPT !.mem[p] = c]
         IN  /\ Inv(t, H, X)
             /\ SameTables(s, t)
             /\ \A q \in Page : IsFree(t, q) <=> IsFree(s, q)
<1> DEFINE t == [s EXCEPT !.mem[p] = c]
<1>1. /\ t.mem = [s.mem EXCEPT ![p] = c]
      /\ t.pp_ref = s.pp_ref /\ t.pp_link = s.pp_link /\ t.pgdir = s.pgdir
      /\ t.page_free_list = s.page_free_list /\ t.free = s.free
      /\ t.tlb = s.tlb /\ t.cr3 = s.cr3 /\ t.status = s.status
  BY DEF MMType
<1> HIDE DEF t
<1>2. SameTables(s, t)
  <2>1. ASSUME NEW d \in Pgdirs, NEW v \in VA, HasTable(s, d, v)
        PROVE  Pte(t, d, v) = Pte(s, d, v)
    <3>1. s.pgdir[d][v[1]] \in Page /\ v[1] \in PDX
      BY <2>1, PteType DEF VA
    <3>2. s.pgdir[d][v[1]] # p
      BY <3>1 DEF IsTable
    <3> QED
      BY <3>1, <3>2, <1>1 DEF Pte, MMType
  <2> QED
    BY <2>1, <1>1 DEF SameTables
<1>3. \A q \in Page : IsFree(t, q) <=> IsFree(s, q)
  BY <1>1 DEF IsFree
<1>4. ChainOK(t)
  BY <1>1, <1>3 DEF Inv, ChainOK
<1>5. Disjoint(t, H) /\ Covered(t, H \cup X)
  BY <1>2, <1>3, SameView DEF Inv, Disjoint, Covered
<1>6. RefsOK(t, X)
  BY <1>1, <1>2, SameView DEF Inv, RefsOK
<1>7. Private(t) /\ Clean(t) /\ Coherent(t)
  BY <1>1, <1>2, SameView DEF Inv, MMType
<1>8. Limbo(t, X)
  BY <1>2, <1>3, SameView DEF Inv, Limbo
<1>9. Inv(t, H, X)
  BY <1>1, <1>4, <1>5, <1>6, <1>7, <1>8 DEF Inv
<1> QED
  BY <1>2, <1>3, <1>9 DEF t

(* Changing the translations the processor has cached.                     *)
LEMMA TlbInv ==
  ASSUME NEW s \in MMType, NEW H \in SUBSET Page, NEW X \in SUBSET Page, Inv(s, H, X), NEW t,
         t.pp_ref = s.pp_ref, t.pp_link = s.pp_link, t.pgdir = s.pgdir,
         t.page_free_list = s.page_free_list, t.free = s.free, t.mem = s.mem,
         t.status = s.status, Coherent(t)
  PROVE  Inv(t, H, X)
<1>1. SameTables(s, t)
  BY DEF SameTables, Pte
<1>2. \A q \in Page : IsFree(t, q) <=> IsFree(s, q)
  BY DEF IsFree
<1>3. ChainOK(t)
  BY <1>2 DEF Inv, ChainOK
<1>4. Disjoint(t, H) /\ Covered(t, H \cup X)
  BY <1>1, <1>2, SameView DEF Inv, Disjoint, Covered
<1>5. RefsOK(t, X)
  BY <1>1, SameView DEF Inv, RefsOK
<1>6. Private(t) /\ Clean(t)
  BY <1>1, SameView DEF Inv
<1>7. Limbo(t, X)
  BY <1>1, <1>2, SameView DEF Inv, Limbo
<1> QED
  BY <1>3, <1>4, <1>5, <1>6, <1>7 DEF Inv

-----------------------------------------------------------------------------
(* Taking an address space apart.                                          *)

(* Clearing the directory slot of a table that maps nothing: the page of   *)
(* the table is still counted.                                             *)
LEMMA UnlinkInv ==
  ASSUME NEW s \in MMType, NEW H \in SUBSET Page, NEW X \in SUBSET Page, Inv(s, H, X),
         NEW d \in Pgdirs, NEW x \in PDX, s.pgdir[d][x] # NULL,
         \A y \in PTX : ~IsMapped(s, d, <<x, y>>)
  PROVE  LET b == s.pgdir[d][x]
             t == [s EXCEPT !.pgdir[d][x] = NULL]
         IN  /\ Inv(t, H \cup {b}, X \cup {b})
             /\ b \in Page /\ b \notin H /\ b \notin X /\ ~IsData(t, b)
             /\ SameMap(s, t) /\ t.cr3 = s.cr3
             /\ t.pgdir = [s.pgdir EXCEPT ![d][x] = NULL]
             /\ \A p \in Page : IsFree(t, p) <=> IsFree(s, p)
<1> DEFINE b == s.pgdir[d][x]
           t == [s EXCEPT !.pgdir[d][x] = NULL]
<1>1. /\ t.pgdir = [s.pgdir EXCEPT ![d][x] = NULL]
      /\ t.pp_ref = s.pp_ref /\ t.pp_link = s.pp_link /\ t.free = s.free
      /\ t.page_free_list = s.page_free_list /\ t.mem = s.mem
      /\ t.tlb = s.tlb /\ t.cr3 = s.cr3 /\ t.status = s.status
  BY DEF MMType
<1>2. b \in Page /\ IsTable(s, b)
  BY DEF MMType, IsTable
<1>3. b \notin Reserved /\ b \notin H /\ b \notin X /\ ~IsFree(s, b) /\ ~IsData(s, b)
  BY <1>2 DEF Inv, Disjoint, Limbo
<1> HIDE DEF t
<1>4. \A e \in Pgdirs, y \in PDX :
        t.pgdir[e][y] = IF e = d /\ y = x THEN NULL ELSE s.pgdir[e][y]
  BY <1>1 DEF MMType
<1>5. \A e \in Pgdirs, w \in VA :
        HasTable(t, e, w) <=> HasTable(s, e, w) /\ (e # d \/ w[1] # x)
  BY <1>4 DEF HasTable, VA
<1>6. \A e \in Pgdirs, w \in VA : HasTable(t, e, w) => Pte(t, e, w) = Pte(s, e, w)
  BY <1>1, <1>4, <1>5 DEF Pte, VA
<1>7. SameMap(s, t)
  <2>1. \A w \in VA : w[1] = x => ~IsMapped(s, d, w)
    BY DEF VA
  <2> QED
    BY <2>1, <1>5, <1>6 DEF SameMap, IsMapped
<1>8. \A p \in Page : /\ Mappings(t, p) = Mappings(s, p)
                      /\ IsData(t, p) <=> IsData(s, p)
  BY <1>7, SameMapData
<1>9. \A p \in Page : IsTable(t, p) <=> IsTable(s, p) /\ p # b
  <2>1. \A e \in Pgdirs, y \in PDX : s.pgdir[e][y] = b => e = d /\ y = x
    BY DEF Inv, Private
  <2>2. b # NULL
    OBVIOUS
  <2> HIDE DEF b
  <2> QED
    BY <2>1, <2>2, <1>4, PagesAssumption DEF IsTable, b
<1>10. \A p \in Page : IsFree(t, p) <=> IsFree(s, p)
  BY <1>1 DEF IsFree
<1> HIDE DEF b
<1>11. ChainOK(t)
  BY <1>1, <1>10 DEF Inv, ChainOK
<1>12. Disjoint(t, H \cup {b}) /\ Covered(t, (H \cup {b}) \cup (X \cup {b}))
  BY <1>3, <1>8, <1>9, <1>10 DEF Inv, Disjoint, Covered
<1>13. RefsOK(t, X \cup {b})
  <2>1. Cardinality(Mappings(s, b)) = 0
    BY <1>3, MappingsFinite
  <2> QED
    BY <2>1, <1>1, <1>2, <1>8, <1>9 DEF Inv, RefsOK
<1>14. Private(t) /\ Clean(t)
  BY <1>4, <1>5, <1>6 DEF Inv, Private, Clean
<1>15. Coherent(t)
  BY <1>1, <1>7 DEF Inv, Coherent, SameMap, MMType
<1>16. Limbo(t, X \cup {b})
  BY <1>2, <1>3, <1>9, <1>10 DEF Inv, Limbo
<1>17. Inv(t, H \cup {b}, X \cup {b})
  BY <1>1, <1>11, <1>12, <1>13, <1>14, <1>15, <1>16 DEF Inv
<1> QED
  BY <1>1, <1>2, <1>3, <1>7, <1>8, <1>10, <1>17 DEF t, b

(* Giving back a page that is counted and maps nowhere frees it.           *)
LEMMA DropInv ==
  ASSUME NEW s \in MMType, NEW H \in SUBSET Page, NEW X \in SUBSET Page, Inv(s, H, X),
         NEW a \in X, ~IsData(s, a)
  PROVE  LET q == page_decref(s, a)
         IN  /\ Inv(q, H \ {a}, X \ {a})
             /\ SameTables(s, q) /\ q.cr3 = s.cr3
             /\ \A p \in Page : IsFree(q, p) <=> IsFree(s, p) \/ p = a
<1> DEFINE q == page_decref(s, a)
           k == s.pp_ref[a] - 1
<1>1. a \in Page \ Reserved /\ ~IsFree(s, a) /\ ~IsTable(s, a)
  BY DEF Inv, Limbo
<1>2. /\ s.pp_ref[a] = Cardinality(Mappings(s, a)) + (IF a \in X THEN 1 ELSE 0)
      /\ ChainOK(q)
      /\ \A p \in Page : IsFree(q, p) <=> IsFree(s, p) \/ (p = a /\ k = 0)
      /\ q.pp_ref = [s.pp_ref EXCEPT ![a] = k]
      /\ q.pgdir = s.pgdir /\ q.mem = s.mem /\ q.tlb = s.tlb
      /\ q.cr3 = s.cr3 /\ q.status = s.status
  BY <1>1, DecrefInv
<1>3. Cardinality(Mappings(s, a)) = 0 /\ k = 0
  BY <1>2, MappingsFinite
<1> HIDE DEF q, k
<1>4. SameTables(s, q)
  BY <1>2 DEF SameTables, Pte
<1>5. \A p \in Page : IsFree(q, p) <=> IsFree(s, p) \/ p = a
  BY <1>2, <1>3
<1>6. Disjoint(q, H \ {a}) /\ Covered(q, (H \ {a}) \cup (X \ {a}))
  BY <1>1, <1>4, <1>5, SameView DEF Inv, Disjoint, Covered
<1>7. RefsOK(q, X \ {a})
  <2> SUFFICES ASSUME NEW p \in Page \ Reserved
               PROVE  q.pp_ref[p] = IF IsTable(q, p) THEN 1
                                    ELSE Cardinality(Mappings(q, p))
                                           + (IF p \in X \ {a} THEN 1 ELSE 0)
    BY DEF RefsOK
  <2>1. Mappings(q, p) = Mappings(s, p) /\ (IsTable(q, p) <=> IsTable(s, p))
    BY <1>4, SameView
  <2>2. CASE p = a
    <3>1. q.pp_ref[a] = 0
      BY <1>1, <1>2, <1>3 DEF MMType
    <3> QED
      BY <2>1, <2>2, <3>1, <1>1, <1>3
  <2>3. CASE p # a
    <3>1. q.pp_ref[p] = s.pp_ref[p] /\ (p \in X \ {a} <=> p \in X)
      BY <2>3, <1>2 DEF MMType
    <3> QED
      BY <2>1, <3>1 DEF Inv, RefsOK
  <2> QED
    BY <2>2, <2>3
<1>8. Private(q) /\ Clean(q) /\ Coherent(q)
  BY <1>2, <1>4, SameView DEF Inv, MMType
<1>9. Limbo(q, X \ {a})
  BY <1>4, <1>5, SameView DEF Inv, Limbo
<1>10. Inv(q, H \ {a}, X \ {a})
  BY <1>2, <1>6, <1>7, <1>8, <1>9 DEF Inv
<1> QED
  BY <1>2, <1>4, <1>5, <1>10 DEF q

-----------------------------------------------------------------------------
(* The processor: the translations it caches are those of the tables.      *)

LEMMA TranslateInv ==
  ASSUME NEW s \in MMType, NEW H \in SUBSET Page, NEW X \in SUBSET Page, Inv(s, H, X),
         NEW v \in VA, IsMapped(s, s.cr3, v)
  PROVE  LET t == Translate(s, v)
         IN  /\ t \in MMType /\ Inv(t, H, X)
             /\ t.pgdir = s.pgdir /\ t.mem = s.mem /\ t.free = s.free
             /\ t.cr3 = s.cr3
<1> DEFINE t == Translate(s, v)
<1>1. s.cr3 \in Pgdirs
  BY DEF MMType
<1>2. Pte(s, s.cr3, v) \in Entry
  BY <1>1, PteType DEF IsMapped
<1>3. t \in MMType
  BY <1>2 DEF Translate, MMType
<1>4. /\ t.tlb = [s.tlb EXCEPT ![v] = Pte(s, s.cr3, v)]
      /\ t.pp_ref = s.pp_ref /\ t.pp_link = s.pp_link /\ t.pgdir = s.pgdir
      /\ t.page_free_list = s.page_free_list /\ t.free = s.free
      /\ t.mem = s.mem /\ t.cr3 = s.cr3 /\ t.status = s.status
  BY DEF Translate, MMType
<1> HIDE DEF t
<1>5. ASSUME NEW w \in VA, t.tlb[w] # NULL
      PROVE  IsMapped(s, s.cr3, w) /\ t.tlb[w] = Pte(s, s.cr3, w)
  BY <1>4, <1>5 DEF Inv, Coherent, MMType
<1>6. Coherent(t)
  BY <1>4, <1>5 DEF Coherent, IsMapped, HasTable, Pte
<1> QED
  BY <1>3, <1>4, <1>6, TlbInv DEF t

LEMMA Lcr3Inv ==
  ASSUME NEW s \in MMType, NEW H \in SUBSET Page, NEW X \in SUBSET Page, Inv(s, H, X),
         NEW d \in Pgdirs
  PROVE  LET t == lcr3(s, d)
         IN  /\ t \in MMType /\ Inv(t, H, X)
             /\ t.pgdir = s.pgdir /\ t.mem = s.mem /\ t.free = s.free
             /\ t.cr3 = d
<1> DEFINE t == lcr3(s, d)
<1>1. t \in MMType
  BY DEF lcr3, MMType
<1>2. /\ t.tlb = [v \in VA |-> NULL] /\ t.cr3 = d
      /\ t.pp_ref = s.pp_ref /\ t.pp_link = s.pp_link /\ t.pgdir = s.pgdir
      /\ t.page_free_list = s.page_free_list /\ t.free = s.free
      /\ t.mem = s.mem /\ t.status = s.status
  BY DEF lcr3, MMType
<1> HIDE DEF t
<1>3. Coherent(t)
  BY <1>2 DEF Coherent
<1> QED
  BY <1>1, <1>2, <1>3, TlbInv DEF t

-----------------------------------------------------------------------------
(* page_init establishes the condition.                                    *)

LEMMA BootType == Boot \in MMType
<1>1. FreeOrder \in Seq(Page) /\ Len(FreeOrder) \in Nat
  BY FreeOrderAssumption
<1>2. ASSUME NEW i \in 1 .. Len(FreeOrder) PROVE FreeOrder[i] \in Page
  BY <1>1
<1>3. Boot.pp_ref \in [Page -> 0 .. RefMod - 1]
  BY RefModAssumption DEF Boot
<1>4. Boot.pp_link \in [Page -> Page \cup {NULL}]
  <2>1. ASSUME NEW p \in Page, \E i \in 2 .. Len(FreeOrder) : FreeOrder[i] = p
        PROVE  FreeOrder[(CHOOSE i \in 2 .. Len(FreeOrder) : FreeOrder[i] = p) - 1]
                 \in Page
    <3> DEFINE k == CHOOSE i \in 2 .. Len(FreeOrder) : FreeOrder[i] = p
    <3>1. k \in 2 .. Len(FreeOrder)
      BY <2>1
    <3> HIDE DEF k
    <3>2. k - 1 \in 1 .. Len(FreeOrder)
      BY <1>1, <3>1
    <3> QED
      BY <3>2, <1>2 DEF k
  <2> QED
    BY <2>1 DEF Boot
<1>5. Boot.page_free_list \in Page \cup {NULL}
  <2>1. CASE FreeOrder = <<>>
    BY <2>1 DEF Boot
  <2>2. CASE FreeOrder # <<>>
    <3>1. Len(FreeOrder) \in 1 .. Len(FreeOrder)
      BY <1>1, <2>2
    <3> QED
      BY <2>2, <3>1, <1>2 DEF Boot
  <2> QED
    BY <2>1, <2>2
<1>6. Boot.mem \in [Page -> [PTX -> Entry]]
  BY JunkType DEF Boot, Scribbled
<1> QED
  BY <1>1, <1>3, <1>4, <1>5, <1>6, ClientAssumption DEF Boot, MMType

LEMMA BootInv == Inv(Boot, {}, {})
<1> DEFINE n == Len(FreeOrder)
           Prev(p) == CHOOSE i \in 2 .. n : FreeOrder[i] = p
<1>1. FreeOrder \in Seq(Page) /\ n \in Nat
      /\ \A i \in 1 .. n : FreeOrder[i] \in Page \ Reserved
  BY FreeOrderAssumption
<1>2. \A i, j \in 1 .. n : FreeOrder[i] = FreeOrder[j] => i = j
  BY FreeOrderAssumption
<1>3. /\ Boot.free = FreeOrder
      /\ Boot.page_free_list = IF FreeOrder = <<>> THEN NULL ELSE FreeOrder[n]
      /\ Boot.pp_link = [p \in Page |-> IF \E i \in 2 .. n : FreeOrder[i] = p
                                      THEN FreeOrder[Prev(p) - 1] ELSE NULL]
      /\ Boot.pp_ref = [p \in Page |-> IF p \in Reserved THEN 1 ELSE 0]
      /\ Boot.pgdir = [d \in Pgdirs |-> [x \in PDX |-> NULL]]
      /\ Boot.tlb = [v \in VA |-> NULL]
      /\ Boot.status = "run"
  BY DEF Boot
<1>4. \A p \in Page : IsFree(Boot, p) <=> p \notin Reserved
  BY <1>1, <1>3, FreeOrderAssumption DEF IsFree
<1>5. \A d \in Pgdirs, v \in VA : ~HasTable(Boot, d, v)
  BY <1>3 DEF HasTable, VA
<1>6. \A p \in Page : ~IsTable(Boot, p)
  BY <1>3, PagesAssumption DEF IsTable
<1>7. \A p \in Page : ~IsData(Boot, p)
  BY <1>5 DEF IsData, IsMapped
<1>8. ASSUME NEW i \in 1 .. n
      PROVE  Boot.pp_link[FreeOrder[i]] = IF i = 1 THEN NULL ELSE FreeOrder[i - 1]
  <2>1. FreeOrder[i] \in Page
    BY <1>1
  <2>2. CASE i = 1
    <3>1. ~\E j \in 2 .. n : FreeOrder[j] = FreeOrder[i]
      BY <2>2, <1>1, <1>2
    <3> QED
      BY <2>1, <2>2, <3>1, <1>3
  <2>3. CASE i # 1
    <3>1. i \in 2 .. n
      BY <2>3, <1>1
    <3>2. Prev(FreeOrder[i]) \in 2 .. n /\ FreeOrder[Prev(FreeOrder[i])] = FreeOrder[i]
      BY <3>1
    <3>3. Boot.pp_link[FreeOrder[i]] = FreeOrder[Prev(FreeOrder[i]) - 1]
      BY <2>1, <3>1, <1>3
    <3> HIDE DEF Prev
    <3>4. Prev(FreeOrder[i]) = i
      BY <3>2, <1>1, <1>2
    <3> QED
      BY <2>3, <3>3, <3>4
  <2> QED
    BY <2>2, <2>3
<1>9. \A p \in Page : ~IsFree(Boot, p) => Boot.pp_link[p] = NULL
  BY <1>1, <1>3, <1>4
<1>10. Boot.page_free_list = IF n = 0 THEN NULL ELSE FreeOrder[n]
  BY <1>1, <1>3
<1>11. ChainOK(Boot)
  BY <1>2, <1>3, <1>8, <1>9, <1>10 DEF ChainOK
<1>12. RefsOK(Boot, {})
  BY <1>3, <1>6, <1>7, MappingsFinite DEF RefsOK
<1>13. Disjoint(Boot, {}) /\ Covered(Boot, {} \cup {})
  BY <1>3, <1>4, <1>6, <1>7 DEF Disjoint, Covered
<1>14. Private(Boot)
  BY <1>3 DEF Private
<1>15. Clean(Boot)
  BY <1>5 DEF Clean
<1>16. Coherent(Boot)
  BY <1>3 DEF Coherent
<1> QED
  BY <1>3, <1>11, <1>12, <1>13, <1>14, <1>15, <1>16 DEF Inv, Limbo

-----------------------------------------------------------------------------
(* A call of the interface, field by field.                                *)

LEMMA ChainLinks ==
  ASSUME NEW s \in MMType, ChainOK(s), NEW k \in 1 .. Len(s.free)
  PROVE  /\ s.free[k] \in Page /\ s.free[k] # NULL
         /\ s.pp_link[s.free[k]] = IF k = 1 THEN NULL ELSE s.free[k - 1]
<1>1. s.free \in Seq(Page)
  BY DEF MMType
<1> QED
  BY <1>1, PagesAssumption DEF ChainOK

(* page_free on the records of a page.                                     *)
LEMMA FreeFields ==
  ASSUME NEW s \in MMType, NEW p \in Page, s.pp_ref[p] = 0, s.pp_link[p] = NULL
  PROVE  LET t == page_free(s, p)
         IN  /\ t \in MMType
             /\ t.free = Append(s.free, p) /\ t.page_free_list = p
             /\ t.pp_link = [s.pp_link EXCEPT ![p] = s.page_free_list]
             /\ t.pp_ref = s.pp_ref /\ t.pgdir = s.pgdir /\ t.mem = s.mem /\ t.tlb = s.tlb
             /\ t.cr3 = s.cr3 /\ t.status = s.status
<1>1. page_free(s, p) \in MMType
  BY FreeType
<1> QED
  BY <1>1 DEF page_free, MMType

LEMMA AllocHead ==
  ASSUME NEW s \in MMType, NEW f
  PROVE  page_alloc(s, f).pp = s.page_free_list
<1>1. ASSUME s.page_free_list # NULL PROVE page_alloc(s, f).pp # NULL
  BY <1>1 DEF page_alloc
<1>2. ASSUME s.page_free_list = NULL PROVE page_alloc(s, f).pp = NULL
  BY <1>2 DEF page_alloc
<1>3. page_alloc(s, f).pp # NULL => page_alloc(s, f).pp = s.page_free_list
  BY AllocFields
<1> QED
  BY <1>1, <1>2, <1>3

LEMMA AllocTop ==
  ASSUME NEW s \in MMType, ChainOK(s), NEW n \in Nat, n = Len(s.free), n > 0
  PROVE  LET a == page_alloc(s, 0).pp
             t == page_alloc(s, 0).st
         IN  /\ a = s.free[n] /\ a \in Page /\ IsFree(s, a) /\ a # NULL
             /\ t \in MMType /\ ChainOK(t)
             /\ Len(t.free) = n - 1 /\ \A i \in 1 .. n - 1 : t.free[i] = s.free[i]
             /\ \A p \in Page : IsFree(t, p) <=> IsFree(s, p) /\ p # a
             /\ t.pp_ref = s.pp_ref /\ t.pgdir = s.pgdir /\ t.mem = s.mem /\ t.status = s.status
<1> DEFINE a == page_alloc(s, 0).pp
           t == page_alloc(s, 0).st
<1>1. n \in 1 .. n /\ s.free[n] \in Page /\ s.free[n] # NULL
  BY ChainLinks
<1>2. s.page_free_list = s.free[n]
  BY DEF ChainOK
<1>3. a = s.free[n] /\ a # NULL
  BY <1>1, <1>2, AllocHead
<1>4. t \in MMType
  BY AllocType
<1>5. ChainOK(t) /\ IsFree(s, a) /\ \A p \in Page : IsFree(t, p) <=> IsFree(s, p) /\ p # a
  BY <1>3, AllocChain
<1>6. /\ t.free = SubSeq(s.free, 1, n - 1)
      /\ t.mem = [s.mem EXCEPT ![a] = s.mem[a]]
      /\ t.pp_ref = s.pp_ref /\ t.pgdir = s.pgdir /\ t.status = s.status
  BY <1>3, AllocFields
<1>7. t.mem = s.mem
  BY <1>6 DEF MMType
<1>8. Len(t.free) = n - 1 /\ \A i \in 1 .. n - 1 : t.free[i] = s.free[i]
  BY <1>6 DEF MMType
<1> QED
  BY <1>1, <1>3, <1>4, <1>5, <1>6, <1>7, <1>8

LEMMA FreeTop ==
  ASSUME NEW s \in MMType, ChainOK(s), NEW p \in Page, ~IsFree(s, p), s.pp_ref[p] = 0,
         NEW n \in Nat, n = Len(s.free)
  PROVE  LET t == page_free(s, p)
         IN  /\ t \in MMType /\ ChainOK(t)
             /\ Len(t.free) = n + 1 /\ t.free[n + 1] = p /\ \A i \in 1 .. n : t.free[i] = s.free[i]
             /\ \A q \in Page : IsFree(t, q) <=> IsFree(s, q) \/ q = p
             /\ t.pp_ref = s.pp_ref /\ t.pgdir = s.pgdir /\ t.mem = s.mem /\ t.status = s.status
<1> DEFINE t == page_free(s, p)
<1>1. s.pp_link[p] = NULL
  BY DEF ChainOK
<1>2. t \in MMType /\ t.free = Append(s.free, p)
  BY <1>1, FreeFields
<1>3. /\ ChainOK(t) /\ \A q \in Page : IsFree(t, q) <=> IsFree(s, q) \/ q = p
      /\ t.pp_ref = s.pp_ref /\ t.pgdir = s.pgdir /\ t.mem = s.mem /\ t.status = s.status
  BY FreeChain
<1>4. s.free \in Seq(Page)
  BY DEF MMType
<1> HIDE DEF t
<1>5. Len(t.free) = n + 1 /\ t.free[n + 1] = p /\ \A i \in 1 .. n : t.free[i] = s.free[i]
  BY <1>2, <1>4
<1> QED
  BY <1>2, <1>3, <1>5 DEF t

Zeros == [y \in PTX |-> ZeroPte]


(* The head of the list is taken, whatever is behind it.                   *)
LEMMA TakeHead ==
  ASSUME NEW s \in MMType, NEW f \in {0, 1}, NEW a \in Page, s.page_free_list = a
  PROVE  LET t == page_alloc(s, f).st
         IN  /\ page_alloc(s, f).pp = a /\ t \in MMType
             /\ t.page_free_list = s.pp_link[a] /\ t.pp_link = [s.pp_link EXCEPT ![a] = NULL]
             /\ t.mem = IF f = 0 THEN s.mem ELSE [s.mem EXCEPT ![a] = Zeros]
             /\ t.pp_ref = s.pp_ref /\ t.pgdir = s.pgdir /\ t.status = s.status
             /\ \A p \in Page : IsFree(t, p) => IsFree(s, p)
<1> DEFINE t == page_alloc(s, f).st
<1>1. page_alloc(s, f).pp = a /\ a # NULL
  BY AllocHead, PagesAssumption
<1>2. t \in MMType
  BY AllocType
<1>3. /\ t.page_free_list = s.pp_link[a] /\ t.pp_link = [s.pp_link EXCEPT ![a] = NULL]
      /\ t.free = SubSeq(s.free, 1, Len(s.free) - 1)
      /\ t.mem = [s.mem EXCEPT ![a] = IF f # 0 THEN [y \in PTX |-> ZeroPte] ELSE @]
      /\ t.pp_ref = s.pp_ref /\ t.pgdir = s.pgdir /\ t.status = s.status
  <2> DEFINE b == page_alloc(s, f).pp
  <2>1. b = a /\ b # NULL
    BY <1>1
  <2>2. /\ t.page_free_list = s.pp_link[b] /\ t.pp_link = [s.pp_link EXCEPT ![b] = NULL]
        /\ t.free = SubSeq(s.free, 1, Len(s.free) - 1)
        /\ t.mem = [s.mem EXCEPT ![b] = IF f # 0 THEN [y \in PTX |-> ZeroPte] ELSE @]
        /\ t.pp_ref = s.pp_ref /\ t.pgdir = s.pgdir /\ t.status = s.status
    BY ZenonT(30), <2>1, AllocFields
  <2> HIDE DEF b
  <2> QED
    BY <2>1, <2>2
<1> HIDE DEF t
<1>4. t.mem = IF f = 0 THEN s.mem ELSE [s.mem EXCEPT ![a] = Zeros]
  <2>1. CASE f = 0
    BY <1>3, <2>1 DEF MMType
  <2>2. CASE f = 1
    BY <1>3, <2>2 DEF Zeros
  <2> QED
    BY <2>1, <2>2
<1>5. \A p \in Page : IsFree(t, p) => IsFree(s, p)
  <2>1. s.free \in Seq(Page)
    BY DEF MMType
  <2>2. CASE Len(s.free) = 0
    <3>1. Len(t.free) = 0
      BY <1>3, <2>1, <2>2
    <3> QED
      BY <3>1 DEF IsFree
  <2>3. CASE Len(s.free) # 0
    <3>1. Len(t.free) = Len(s.free) - 1 /\ \A i \in 1 .. Len(s.free) - 1 : t.free[i] = s.free[i]
      BY <1>3, <2>1, <2>3
    <3>2. 1 .. Len(t.free) \subseteq 1 .. Len(s.free) /\ \A i \in 1 .. Len(t.free) : t.free[i] = s.free[i]
      BY <2>1, <3>1
    <3> QED
      BY <3>2 DEF IsFree
  <2> QED
    BY <2>2, <2>3
<1> QED
  BY <1>1, <1>2, <1>3, <1>4, <1>5 DEF t

(* A page is put on the list, whatever is on it.                           *)
LEMMA PutHead ==
  ASSUME NEW s \in MMType, NEW a \in Page, s.pp_ref[a] = 0, s.pp_link[a] = NULL
  PROVE  LET t == page_free(s, a)
         IN  /\ t \in MMType /\ t.page_free_list = a
             /\ t.pp_link = [s.pp_link EXCEPT ![a] = s.page_free_list]
             /\ t.mem = s.mem /\ t.pp_ref = s.pp_ref /\ t.pgdir = s.pgdir /\ t.status = s.status
             /\ \A p \in Page : IsFree(t, p) => IsFree(s, p) \/ p = a
<1> DEFINE t == page_free(s, a)
<1>1. /\ t \in MMType /\ t.page_free_list = a /\ t.free = Append(s.free, a)
      /\ t.pp_link = [s.pp_link EXCEPT ![a] = s.page_free_list]
      /\ t.mem = s.mem /\ t.pp_ref = s.pp_ref /\ t.pgdir = s.pgdir /\ t.status = s.status
  BY FreeFields
<1> HIDE DEF t
<1>2. \A p \in Page : IsFree(t, p) => IsFree(s, p) \/ p = a
  <2>1. s.free \in Seq(Page)
    BY DEF MMType
  <2>2. Len(t.free) = Len(s.free) + 1 /\ t.free[Len(s.free) + 1] = a
        /\ \A i \in 1 .. Len(s.free) : t.free[i] = s.free[i]
    BY <1>1, <2>1
  <2>3. \A i \in 1 .. Len(s.free) + 1 : i = Len(s.free) + 1 \/ i \in 1 .. Len(s.free)
    BY <2>1
  <2> QED
    BY <2>2, <2>3 DEF IsFree
<1> QED
  BY <1>1, <1>2 DEF t

(* pgdir_walk finds a table, finds none, or makes one.                     *)
LEMMA WalkThere ==
  ASSUME NEW s \in MMType, NEW d \in Pgdirs, NEW v \in VA, NEW c \in BOOLEAN, HasTable(s, d, v)
  PROVE  pgdir_walk(s, d, v, c) = [st |-> s, pte |-> <<s.pgdir[d][v[1]], v[2]>>]
BY DEF HasTable, pgdir_walk

LEMMA WalkNowhere ==
  ASSUME NEW s \in MMType, NEW d \in Pgdirs, NEW v \in VA, NEW c \in BOOLEAN,
         ~HasTable(s, d, v), c = FALSE \/ s.page_free_list = NULL
  PROVE  pgdir_walk(s, d, v, c) = [st |-> s, pte |-> NULL]
<1>1. ~c \/ page_alloc(s, 1).pp = NULL
  BY AllocHead
<1> QED
  BY <1>1 DEF HasTable, pgdir_walk

pgdir_make(s, d, v) == pgdir_walk(s, d, v, TRUE)

LEMMA WalkNew ==
  ASSUME NEW s \in MMType, NEW d \in Pgdirs, NEW v \in VA, ~HasTable(s, d, v),
         NEW a \in Page, s.page_free_list = a, s.pp_ref[a] = 0
  PROVE  LET w == pgdir_make(s, d, v)
         IN  /\ w.pte = <<a, v[2]>> /\ w.st \in MMType
             /\ w.st.page_free_list = s.pp_link[a]
             /\ w.st.pp_link = [s.pp_link EXCEPT ![a] = NULL]
             /\ w.st.mem = [s.mem EXCEPT ![a] = Zeros]
             /\ w.st.pp_ref = [s.pp_ref EXCEPT ![a] = 1]
             /\ w.st.pgdir = Written(s.pgdir, d, v[1], a)
             /\ w.st.status = s.status
             /\ \A p \in Page : IsFree(w.st, p) => IsFree(s, p)
<1>1. PICK t : t = page_alloc(s, 1).st
  OBVIOUS
<1>2. /\ page_alloc(s, 1).pp = a /\ t \in MMType
      /\ t.page_free_list = s.pp_link[a] /\ t.pp_link = [s.pp_link EXCEPT ![a] = NULL]
      /\ t.mem = [s.mem EXCEPT ![a] = Zeros]
      /\ t.pp_ref = s.pp_ref /\ t.pgdir = s.pgdir /\ t.status = s.status
      /\ \A p \in Page : IsFree(t, p) => IsFree(s, p)
  BY <1>1, TakeHead
<1>3. a # NULL
  BY PagesAssumption
<1>4. PICK u : u = [page_incref(t, a) EXCEPT !.pgdir[d][v[1]] = a]
  OBVIOUS
<1> DEFINE w == pgdir_make(s, d, v)
<1>5. w = [st |-> u, pte |-> <<a, v[2]>>]
  BY <1>1, <1>2, <1>3, <1>4 DEF HasTable, pgdir_walk, pgdir_make
<1> HIDE DEF w
<1>6. v[1] \in PDX
  BY DEF VA
<1>7. (t.pp_ref[a] + 1) % RefMod = 1
  BY <1>2, RefModAssumption, RefSmall
<1>8. /\ u \in MMType /\ u.page_free_list = t.page_free_list /\ u.pp_link = t.pp_link
      /\ u.mem = t.mem /\ u.pp_ref = [t.pp_ref EXCEPT ![a] = 1]
      /\ u.pgdir = Written(t.pgdir, d, v[1], a) /\ u.status = t.status /\ u.free = t.free
  <2>1. PICK x : x = page_incref(t, a)
    OBVIOUS
  <2>2. x \in MMType
    BY <1>2, <2>1, IncrefType
  <2>3. /\ x.page_free_list = t.page_free_list /\ x.pp_link = t.pp_link
        /\ x.mem = t.mem /\ x.pp_ref = [t.pp_ref EXCEPT ![a] = 1]
        /\ x.pgdir = t.pgdir /\ x.status = t.status /\ x.free = t.free
    BY <1>2, <1>7, <2>1 DEF page_incref, MMType
  <2>4. u = [x EXCEPT !.pgdir[d][v[1]] = a]
    BY <1>4, <2>1
  <2>5. /\ u.page_free_list = x.page_free_list /\ u.pp_link = x.pp_link
        /\ u.mem = x.mem /\ u.pp_ref = x.pp_ref
        /\ u.pgdir = Written(x.pgdir, d, v[1], a) /\ u.status = x.status /\ u.free = x.free
    BY <2>2, <2>4 DEF MMType, Written
  <2>6. u \in MMType
    BY <1>6, <2>2, <2>4 DEF MMType
  <2> QED
    BY <2>3, <2>5, <2>6
<1>9. \A p \in Page : IsFree(u, p) <=> IsFree(t, p)
  BY <1>8 DEF IsFree
<1>10. /\ u.pp_ref = [s.pp_ref EXCEPT ![a] = 1] /\ u.pgdir = Written(s.pgdir, d, v[1], a)
       /\ u.page_free_list = s.pp_link[a] /\ u.pp_link = [s.pp_link EXCEPT ![a] = NULL]
       /\ u.mem = [s.mem EXCEPT ![a] = Zeros] /\ u.status = s.status
  BY <1>2, <1>8
<1>11. w.st = u /\ w.pte = <<a, v[2]>>
  BY <1>5
<1> QED
  BY <1>2, <1>8, <1>9, <1>10, <1>11 DEF w

(* The list and the directories are the same in s and t.                   *)
SameList(s, t) ==
  /\ t \in MMType /\ t.page_free_list = s.page_free_list /\ t.pp_link = s.pp_link
  /\ t.free = s.free /\ t.pgdir = s.pgdir /\ t.status = s.status

LEMMA IncrefFields ==
  ASSUME NEW s \in MMType, NEW p \in Page, s.pp_ref[p] + 1 < RefMod
  PROVE  LET t == page_incref(s, p)
         IN  SameList(s, t) /\ t.pp_ref = [s.pp_ref EXCEPT ![p] = @ + 1] /\ t.mem = s.mem
<1>1. (s.pp_ref[p] + 1) % RefMod = s.pp_ref[p] + 1
  <2>1. s.pp_ref[p] + 1 \in 0 .. RefMod - 1
    BY RefModAssumption DEF MMType
  <2> QED
    BY <2>1, RefSmall
<1>2. page_incref(s, p) \in MMType
  BY IncrefType
<1> QED
  BY <1>1, <1>2 DEF page_incref, SameList, MMType

(* page_remove gives the page back and clears the entry.                   *)
LEMMA RemoveChange ==
  ASSUME NEW s \in MMType, NEW d \in Pgdirs, NEW v \in VA, HasTable(s, d, v),
         NEW a \in Page, Pte(s, d, v).addr = a,
         NEW q, q = page_decref(s, a), NEW r, r = page_remove(s, d, v)
  PROVE  /\ r.mem = Written(q.mem, s.pgdir[d][v[1]], v[2], ZeroPte)
         /\ r.pp_ref = q.pp_ref /\ r.pp_link = q.pp_link /\ r.pgdir = q.pgdir
         /\ r.page_free_list = q.page_free_list /\ r.free = q.free /\ r.status = q.status
<1>1. Pte(s, d, v).addr \in Page
  OBVIOUS
<1> DEFINE x == page_decref(s, Pte(s, d, v).addr)
           y == page_remove(s, d, v)
<1>2. /\ y.mem = Written(x.mem, s.pgdir[d][v[1]], v[2], ZeroPte)
      /\ y.pp_ref = x.pp_ref /\ y.pp_link = x.pp_link /\ y.pgdir = x.pgdir
      /\ y.page_free_list = x.page_free_list /\ y.free = x.free /\ y.status = x.status
  BY ZenonT(30), <1>1, RemoveReaches
<1>3. x = q /\ y = r
  OBVIOUS
<1> HIDE DEF x, y
<1> QED
  BY <1>2, <1>3

(* page_remove takes one mapping of several, or the last one.              *)
OneLess(s, r, d, v, a) ==
  /\ SameList(s, r) /\ r.pp_ref = [s.pp_ref EXCEPT ![a] = @ - 1]
  /\ r.mem = Written(s.mem, s.pgdir[d][v[1]], v[2], ZeroPte)

LEMMA RemoveOne ==
  ASSUME NEW s \in MMType, NEW d \in Pgdirs, NEW v \in VA, HasTable(s, d, v),
         NEW a \in Page, Pte(s, d, v).addr = a, s.pp_ref[a] > 1
  PROVE  OneLess(s, page_remove(s, d, v), d, v, a)
<1>1. PICK q, r : q = page_decref(s, a) /\ r = page_remove(s, d, v)
  OBVIOUS
<1>2. (s.pp_ref[a] - 1) % RefMod = s.pp_ref[a] - 1 /\ s.pp_ref[a] - 1 # 0
  <2>1. s.pp_ref[a] - 1 \in 0 .. RefMod - 1
    BY RefModAssumption DEF MMType
  <2> QED
    BY <2>1, RefSmall
<1>3. SameList(s, q) /\ q.pp_ref = [s.pp_ref EXCEPT ![a] = @ - 1] /\ q.mem = s.mem
  <2>1. PICK t : t = [s EXCEPT !.pp_ref[a] = (@ - 1) % RefMod]
    OBVIOUS
  <2>2. t.pp_ref = [s.pp_ref EXCEPT ![a] = @ - 1] /\ t.pp_ref[a] # 0
    BY <1>2, <2>1 DEF MMType
  <2>3. q = t
    BY <1>1, <2>1, <2>2 DEF page_decref
  <2>4. q \in MMType
    BY <1>1, DecrefType
  <2>5. /\ t.page_free_list = s.page_free_list /\ t.pp_link = s.pp_link /\ t.mem = s.mem
        /\ t.free = s.free /\ t.pgdir = s.pgdir /\ t.status = s.status
    BY <2>1 DEF MMType
  <2> QED
    BY <2>2, <2>3, <2>4, <2>5 DEF SameList
<1>4. r \in MMType
  BY <1>1, RemoveType
<1>5. /\ r.mem = Written(q.mem, s.pgdir[d][v[1]], v[2], ZeroPte)
      /\ r.pp_ref = q.pp_ref /\ r.pp_link = q.pp_link /\ r.pgdir = q.pgdir
      /\ r.page_free_list = q.page_free_list /\ r.free = q.free /\ r.status = q.status
  <2> DEFINE x == page_decref(s, Pte(s, d, v).addr)
             y == page_remove(s, d, v)
  <2>1. /\ y.mem = Written(x.mem, s.pgdir[d][v[1]], v[2], ZeroPte)
        /\ y.pp_ref = x.pp_ref /\ y.pp_link = x.pp_link /\ y.pgdir = x.pgdir
        /\ y.page_free_list = x.page_free_list /\ y.free = x.free /\ y.status = x.status
    BY ZenonT(30), RemoveReaches
  <2>2. x = q /\ y = r
    BY <1>1
  <2> HIDE DEF x, y
  <2> QED
    BY <2>1, <2>2
<1> QED
  BY <1>1, <1>3, <1>4, <1>5 DEF SameList, OneLess

LastGone(s, r, d, v, a) ==
  /\ r \in MMType /\ r.page_free_list = a
  /\ r.pp_link = [s.pp_link EXCEPT ![a] = s.page_free_list]
  /\ r.pp_ref = [s.pp_ref EXCEPT ![a] = 0]
  /\ r.mem = Written(s.mem, s.pgdir[d][v[1]], v[2], ZeroPte)
  /\ r.pgdir = s.pgdir /\ r.status = s.status
  /\ \A p \in Page : IsFree(r, p) => IsFree(s, p) \/ p = a

LEMMA RemoveLast ==
  ASSUME NEW s \in MMType, NEW d \in Pgdirs, NEW v \in VA, HasTable(s, d, v),
         NEW a \in Page, Pte(s, d, v).addr = a, s.pp_ref[a] = 1, s.pp_link[a] = NULL
  PROVE  LastGone(s, page_remove(s, d, v), d, v, a)
<1>1. PICK q, r : q = page_decref(s, a) /\ r = page_remove(s, d, v)
  OBVIOUS
<1>2. (s.pp_ref[a] - 1) % RefMod = 0
  BY RefModAssumption, RefSmall
<1>3. /\ q.page_free_list = a /\ q.pp_link = [s.pp_link EXCEPT ![a] = s.page_free_list]
      /\ q.pp_ref = [s.pp_ref EXCEPT ![a] = 0] /\ q.mem = s.mem
      /\ q.pgdir = s.pgdir /\ q.status = s.status
      /\ \A p \in Page : IsFree(q, p) => IsFree(s, p) \/ p = a
  <2>1. PICK t : t = [s EXCEPT !.pp_ref[a] = (@ - 1) % RefMod]
    OBVIOUS
  <2>2. t.pp_ref = [s.pp_ref EXCEPT ![a] = 0] /\ t.pp_ref[a] = 0
    BY <1>2, <2>1 DEF MMType
  <2>3. q = page_free(t, a)
    BY <1>1, <2>1, <2>2 DEF page_decref
  <2>4. /\ t.page_free_list = s.page_free_list /\ t.pp_link = s.pp_link /\ t.mem = s.mem
        /\ t.free = s.free /\ t.pgdir = s.pgdir /\ t.status = s.status
    BY <2>1 DEF MMType
  <2>5. t \in MMType
    <3>1. 0 \in 0 .. RefMod - 1
      BY RefModAssumption
    <3> QED
      BY ZenonT(30), <1>2, <2>1, <3>1 DEF MMType
  <2>6. /\ q.page_free_list = a /\ q.pp_link = [t.pp_link EXCEPT ![a] = t.page_free_list]
        /\ q.mem = t.mem /\ q.pp_ref = t.pp_ref /\ q.pgdir = t.pgdir /\ q.status = t.status
        /\ \A p \in Page : IsFree(q, p) => IsFree(t, p) \/ p = a
    <3>1. t.pp_link[a] = NULL
      BY <2>4
    <3> QED
      BY <2>2, <2>3, <2>5, <3>1, PutHead
  <2>7. \A p \in Page : IsFree(t, p) <=> IsFree(s, p)
    BY <2>4 DEF IsFree
  <2> QED
    BY <2>2, <2>4, <2>6, <2>7
<1>4. r \in MMType
  BY <1>1, RemoveType
<1>5. /\ r.mem = Written(q.mem, s.pgdir[d][v[1]], v[2], ZeroPte)
      /\ r.pp_ref = q.pp_ref /\ r.pp_link = q.pp_link /\ r.pgdir = q.pgdir
      /\ r.page_free_list = q.page_free_list /\ r.free = q.free /\ r.status = q.status
  BY <1>1, RemoveChange
<1>6. \A p \in Page : IsFree(r, p) <=> IsFree(q, p)
  BY <1>5 DEF IsFree
<1> QED
  BY <1>1, <1>3, <1>4, <1>5, <1>6 DEF LastGone

(* page_insert where there is a table.                                     *)
EntryOf(p, perm) == [addr |-> p, perm |-> perm \cup {"P"}]
FirstEntry(y, e) == [Zeros EXCEPT ![y] = e]

LEMMA InsertThere ==
  ASSUME NEW s \in MMType, NEW d \in Pgdirs, NEW v \in VA, HasTable(s, d, v),
         NEW p \in Page, NEW perm \in SUBSET {"W", "U"}
  PROVE  LET t == page_incref(s, p)
             u == IF Present(Pte(s, d, v)) THEN page_remove(t, d, v) ELSE t
             i == page_insert(s, d, p, v, perm)
         IN  /\ i.ret = "OK" /\ i.st \in MMType
             /\ i.st = store(u, <<s.pgdir[d][v[1]], v[2]>>, EntryOf(p, perm))
<1>1. PICK w : w = <<s.pgdir[d][v[1]], v[2]>>
  OBVIOUS
<1> DEFINE k == pgdir_walk(s, d, v, TRUE)
<1>2. k = [st |-> s, pte |-> w]
  BY <1>1, WalkThere
<1> HIDE DEF k
<1>3. w # NULL
  BY <1>1, PteType, PagesAssumption DEF VA
<1>4. PICK t, e : t = page_incref(s, p) /\ e = EntryOf(p, perm)
  OBVIOUS
<1>5. load(t, w) = Pte(s, d, v)
  <2>1. t.mem = s.mem
    BY <1>4 DEF page_incref, MMType
  <2> QED
    BY <1>1, <2>1 DEF load, Pte
<1>6. PICK u : u = IF Present(Pte(s, d, v)) THEN page_remove(t, d, v) ELSE t
  OBVIOUS
<1>7. page_insert(s, d, p, v, perm) = [st |-> store(u, w, e), ret |-> "OK"]
  <2>1. k.pte = w /\ k.st = s
    BY <1>2
  <2> QED
    BY <1>3, <1>4, <1>5, <1>6, <2>1 DEF page_insert, EntryOf, k
<1>8. page_insert(s, d, p, v, perm).st \in MMType
  BY InsertType
<1> QED
  BY <1>1, <1>4, <1>6, <1>7, <1>8

LEMMA StoreFields ==
  ASSUME NEW s \in MMType, NEW w \in Page \X PTX, NEW e
  PROVE  LET t == store(s, w, e)
         IN  /\ t.mem = Written(s.mem, w[1], w[2], e)
             /\ t.page_free_list = s.page_free_list /\ t.pp_link = s.pp_link
             /\ t.free = s.free /\ t.pgdir = s.pgdir /\ t.status = s.status
             /\ t.pp_ref = s.pp_ref
BY DEF store, MMType, Written

FirstMapping(s, i, d, v, p, perm) ==
  /\ i.ret = "OK" /\ SameList(s, i.st)
  /\ i.st.pp_ref = [s.pp_ref EXCEPT ![p] = @ + 1]
  /\ i.st.mem = Written(s.mem, s.pgdir[d][v[1]], v[2], EntryOf(p, perm))

LEMMA InsertFresh ==
  ASSUME NEW s \in MMType, NEW d \in Pgdirs, NEW v \in VA, HasTable(s, d, v),
         NEW p \in Page, NEW perm \in SUBSET {"W", "U"},
         ~Present(Pte(s, d, v)), s.pp_ref[p] + 1 < RefMod
  PROVE  FirstMapping(s, page_insert(s, d, p, v, perm), d, v, p, perm)
<1>1. PICK t, w, i : /\ t = page_incref(s, p) /\ w = <<s.pgdir[d][v[1]], v[2]>>
                     /\ i = page_insert(s, d, p, v, perm)
  OBVIOUS
<1>2. i.ret = "OK" /\ i.st \in MMType /\ i.st = store(t, w, EntryOf(p, perm))
  BY <1>1, InsertThere
<1>3. SameList(s, t) /\ t.pp_ref = [s.pp_ref EXCEPT ![p] = @ + 1] /\ t.mem = s.mem
  BY <1>1, IncrefFields
<1>4. t \in MMType /\ w \in Page \X PTX
  BY <1>1, <1>3, PteType DEF SameList, VA
<1> QED
  BY <1>1, <1>2, <1>3, <1>4, StoreFields DEF SameList, FirstMapping


(* The first entry of a new table.                                         *)
LEMMA WriteFirst ==
  ASSUME NEW m \in [Page -> [PTX -> Entry]], NEW g \in Page, NEW h \in PTX, NEW e
  PROVE  Written([m EXCEPT ![g] = Zeros], g, h, e) = [m EXCEPT ![g] = FirstEntry(h, e)]
BY DEF Written, Zeros, FirstEntry

(* Two counts of f are set.                                                *)
Recounted(f, x, m, y, n) == [f EXCEPT ![x] = m, ![y] = n]

(* The page at v is inserted again, at most with other permissions.        *)
Remapping(s, i, d, v, p, perm) ==
  /\ i.ret = "OK" /\ SameList(s, i.st) /\ i.st.pp_ref = s.pp_ref
  /\ i.st.mem = Written(s.mem, s.pgdir[d][v[1]], v[2], EntryOf(p, perm))

LEMMA InsertSame ==
  ASSUME NEW s \in MMType, NEW d \in Pgdirs, NEW v \in VA, HasTable(s, d, v),
         NEW p \in Page, NEW perm \in SUBSET {"W", "U"},
         Present(Pte(s, d, v)), Pte(s, d, v).addr = p,
         s.pp_ref[p] > 0, s.pp_ref[p] + 1 < RefMod
  PROVE  Remapping(s, page_insert(s, d, p, v, perm), d, v, p, perm)
<1>1. PICK t, w, i, e : /\ t = page_incref(s, p) /\ w = <<s.pgdir[d][v[1]], v[2]>>
                        /\ i = page_insert(s, d, p, v, perm) /\ e = EntryOf(p, perm)
  OBVIOUS
<1>2. PICK r : r = page_remove(t, d, v)
  OBVIOUS
<1>3. i.ret = "OK" /\ i.st \in MMType /\ i.st = store(r, w, e)
  BY <1>1, <1>2, InsertThere
<1>4. SameList(s, t) /\ t.pp_ref = [s.pp_ref EXCEPT ![p] = @ + 1] /\ t.mem = s.mem
  BY <1>1, IncrefFields
<1>5. t \in MMType /\ w \in Page \X PTX /\ t.pgdir = s.pgdir
  BY <1>1, <1>4, PteType DEF SameList, VA
<1>6. HasTable(t, d, v) /\ Pte(t, d, v).addr = p
  BY <1>4, <1>5 DEF HasTable, Pte
<1>7. t.pp_ref[p] > 1 /\ [t.pp_ref EXCEPT ![p] = @ - 1] = s.pp_ref
  <2>1. PICK f \in [Page -> 0 .. RefMod - 1] : f = s.pp_ref
    BY DEF MMType
  <2>2. t.pp_ref = [f EXCEPT ![p] = f[p] + 1] /\ f[p] > 0 /\ f[p] \in Int
    BY <1>4, <2>1, RefModAssumption
  <2>3. t.pp_ref[p] = f[p] + 1 /\ \A q \in Page : q # p => t.pp_ref[q] = f[q]
    BY <2>2
  <2>4. [t.pp_ref EXCEPT ![p] = @ - 1] = [t.pp_ref EXCEPT ![p] = f[p]]
    BY <2>2, <2>3
  <2> QED
    BY <2>1, <2>2, <2>3, <2>4
<1>8. /\ SameList(t, r) /\ r.pp_ref = s.pp_ref
      /\ r.mem = Written(s.mem, s.pgdir[d][v[1]], v[2], ZeroPte)
  <2>1. t \in MMType /\ HasTable(t, d, v) /\ Pte(t, d, v).addr = p /\ t.pp_ref[p] > 1
    BY <1>5, <1>6, <1>7
  <2>2. OneLess(t, page_remove(t, d, v), d, v, p)
    BY <2>1, RemoveOne
  <2> QED
    BY <1>2, <1>4, <1>5, <1>7, <2>2 DEF OneLess
<1>9. /\ i.st.mem = Written(r.mem, w[1], w[2], e)
      /\ i.st.page_free_list = r.page_free_list /\ i.st.pp_link = r.pp_link
      /\ i.st.free = r.free /\ i.st.pgdir = r.pgdir /\ i.st.status = r.status
      /\ i.st.pp_ref = r.pp_ref
  BY <1>3, <1>5, <1>8 DEF store, MMType, SameList, Written
<1>10. i.st.mem = Written(s.mem, w[1], w[2], e)
  <2>1. s.mem \in [Page -> [PTX -> Entry]] /\ w[1] \in Page /\ w[2] \in PTX
    BY <1>5 DEF MMType
  <2>2. i.st.mem = Written(Written(s.mem, w[1], w[2], ZeroPte), w[1], w[2], e)
    BY <1>1, <1>8, <1>9
  <2>3. PICK m, g, h : m = s.mem /\ g = w[1] /\ h = w[2]
    OBVIOUS
  <2>4. Written(Written(m, g, h, ZeroPte), g, h, e) = Written(m, g, h, e)
    BY <2>1, <2>3 DEF Written
  <2> QED
    BY <2>2, <2>3, <2>4
<1> QED
  BY <1>1, <1>3, <1>4, <1>8, <1>9, <1>10 DEF SameList, Remapping

(* A page is inserted over the last mapping of another, which is freed.    *)
LastReplaced(s, i, d, v, a, p, perm) ==
  /\ i.ret = "OK" /\ i.st \in MMType /\ i.st.page_free_list = a
  /\ i.st.pp_link = [s.pp_link EXCEPT ![a] = s.page_free_list]
  /\ i.st.pp_ref = Recounted(s.pp_ref, p, 2, a, 0)
  /\ i.st.mem = Written(s.mem, s.pgdir[d][v[1]], v[2], EntryOf(p, perm))
  /\ i.st.pgdir = s.pgdir /\ i.st.status = s.status
  /\ \A q \in Page : IsFree(i.st, q) => IsFree(s, q) \/ q = a

LEMMA InsertOver ==
  ASSUME NEW s \in MMType, NEW d \in Pgdirs, NEW v \in VA, HasTable(s, d, v),
         NEW p \in Page, NEW perm \in SUBSET {"W", "U"},
         s.pp_ref[p] = 1, RefMod > 2,
         Present(Pte(s, d, v)), NEW a \in Page, Pte(s, d, v).addr = a, a # p,
         s.pp_ref[a] = 1, s.pp_link[a] = NULL
  PROVE  LastReplaced(s, page_insert(s, d, p, v, perm), d, v, a, p, perm)
<1>1. PICK t, w, i, e : /\ t = page_incref(s, p) /\ w = <<s.pgdir[d][v[1]], v[2]>>
                        /\ i = page_insert(s, d, p, v, perm) /\ e = EntryOf(p, perm)
  OBVIOUS
<1>2. PICK r : r = page_remove(t, d, v)
  OBVIOUS
<1>3. i.ret = "OK" /\ i.st \in MMType /\ i.st = store(r, w, e)
  BY <1>1, <1>2, InsertThere
<1>0. s.pp_ref[p] + 1 = 2 /\ s.pp_ref[p] + 1 < RefMod
  OBVIOUS
<1>4. SameList(s, t) /\ t.pp_ref = [s.pp_ref EXCEPT ![p] = @ + 1] /\ t.mem = s.mem
  BY <1>0, <1>1, IncrefFields
<1>5. t \in MMType /\ w \in Page \X PTX /\ t.pgdir = s.pgdir
  BY <1>1, <1>4, PteType DEF SameList, VA
<1>6. HasTable(t, d, v) /\ Pte(t, d, v).addr = a
  BY <1>4, <1>5 DEF HasTable, Pte
<1>7. t.pp_ref[a] = 1 /\ t.pp_link[a] = NULL
  BY <1>4 DEF MMType, SameList
<1>8. /\ r \in MMType /\ r.page_free_list = a
      /\ r.pp_link = [t.pp_link EXCEPT ![a] = t.page_free_list]
      /\ r.pp_ref = [t.pp_ref EXCEPT ![a] = 0]
      /\ r.mem = Written(t.mem, t.pgdir[d][v[1]], v[2], ZeroPte)
      /\ r.pgdir = t.pgdir /\ r.status = t.status
      /\ \A q \in Page : IsFree(r, q) => IsFree(t, q) \/ q = a
  <2>1. LastGone(t, page_remove(t, d, v), d, v, a)
    BY <1>5, <1>6, <1>7, RemoveLast
  <2> QED
    BY <1>2, <2>1 DEF LastGone
<1>9. /\ i.st.mem = Written(r.mem, w[1], w[2], e)
      /\ i.st.page_free_list = r.page_free_list /\ i.st.pp_link = r.pp_link
      /\ i.st.free = r.free /\ i.st.pgdir = r.pgdir /\ i.st.status = r.status
      /\ i.st.pp_ref = r.pp_ref
  BY <1>3, <1>5, <1>8 DEF store, MMType, Written
<1>10. i.st.mem = Written(s.mem, w[1], w[2], e)
  <2>1. s.mem \in [Page -> [PTX -> Entry]] /\ w[1] \in Page /\ w[2] \in PTX
    BY <1>5 DEF MMType
  <2>2. i.st.mem = Written(Written(s.mem, w[1], w[2], ZeroPte), w[1], w[2], e)
    <3>1. w[1] = s.pgdir[d][v[1]] /\ w[2] = v[2]
      BY <1>1
    <3>2. r.mem = Written(s.mem, w[1], w[2], ZeroPte)
      BY <1>4, <1>5, <1>8, <3>1
    <3> QED
      BY <1>9, <3>2
  <2>3. PICK f, g, h : f = s.mem /\ g = w[1] /\ h = w[2]
    OBVIOUS
  <2>4. Written(Written(f, g, h, ZeroPte), g, h, e) = Written(f, g, h, e)
    BY <2>1, <2>3 DEF Written
  <2> QED
    BY <2>2, <2>3, <2>4
<1>11. i.st.pp_ref = Recounted(s.pp_ref, p, 2, a, 0)
  BY <1>0, <1>4, <1>8, <1>9 DEF MMType, Recounted
<1>12. \A q \in Page : IsFree(i.st, q) => IsFree(s, q) \/ q = a
  <2>1. \A q \in Page : (IsFree(i.st, q) <=> IsFree(r, q)) /\ (IsFree(t, q) <=> IsFree(s, q))
    BY <1>4, <1>9 DEF IsFree, SameList
  <2> QED
    BY <1>8, <2>1
<1>13. i.st.pp_link = [s.pp_link EXCEPT ![a] = s.page_free_list] /\ i.st.pgdir = s.pgdir
       /\ i.st.status = s.status /\ i.st.page_free_list = a
  BY <1>4, <1>8, <1>9 DEF SameList
<1> QED
  BY <1>1, <1>3, <1>10, <1>11, <1>12, <1>13 DEF LastReplaced

(* page_insert where there is no table: none can be made, or one is.       *)
LEMMA InsertNowhere ==
  ASSUME NEW s \in MMType, NEW d \in Pgdirs, NEW v \in VA, ~HasTable(s, d, v),
         s.page_free_list = NULL, NEW p \in Page, NEW perm \in SUBSET {"W", "U"}
  PROVE  page_insert(s, d, p, v, perm) = [st |-> s, ret |-> "E_NO_MEM"]
<1> DEFINE k == pgdir_walk(s, d, v, TRUE)
<1>1. k = [st |-> s, pte |-> NULL]
  BY WalkNowhere
<1> HIDE DEF k
<1>2. k.pte = NULL /\ k.st = s
  BY <1>1
<1> QED
  BY <1>2 DEF page_insert, k

LEMMA LookupNowhere ==
  ASSUME NEW s \in MMType, NEW d \in Pgdirs, NEW v \in VA, ~HasTable(s, d, v)
  PROVE  page_lookup(s, d, v).pp = NULL
<1> DEFINE k == pgdir_walk(s, d, v, FALSE)
<1>1. k = [st |-> s, pte |-> NULL]
  BY WalkNowhere
<1> HIDE DEF k
<1>2. k.pte = NULL
  BY <1>1
<1>3. page_lookup(s, d, v) = [st |-> s, pp |-> NULL, pte |-> NULL]
  BY <1>2 DEF page_lookup, k
<1> QED
  BY <1>3

(* Page a becomes the table of v, and p is mapped there.                   *)
NewMapping(s, i, d, v, a, p, perm) ==
  /\ i.ret = "OK" /\ i.st \in MMType
  /\ i.st.page_free_list = s.pp_link[a]
  /\ i.st.pp_link = [s.pp_link EXCEPT ![a] = NULL]
  /\ i.st.mem = [s.mem EXCEPT ![a] = FirstEntry(v[2], EntryOf(p, perm))]
  /\ i.st.pp_ref = Recounted(s.pp_ref, a, 1, p, 1)
  /\ i.st.pgdir = Written(s.pgdir, d, v[1], a)
  /\ i.st.status = s.status
  /\ \A q \in Page : IsFree(i.st, q) => IsFree(s, q)

LEMMA InsertNew ==
  ASSUME NEW s \in MMType, NEW d \in Pgdirs, NEW v \in VA, ~HasTable(s, d, v),
         NEW a \in Page, s.page_free_list = a, s.pp_ref[a] = 0,
         NEW p \in Page, p # a, s.pp_ref[p] = 0, NEW perm \in SUBSET {"W", "U"}
  PROVE  NewMapping(s, page_insert(s, d, p, v, perm), d, v, a, p, perm)
<1> DEFINE k == pgdir_make(s, d, v)
<1>1. PICK x : x = k.st
  OBVIOUS
<1>2. /\ k.pte = <<a, v[2]>> /\ x \in MMType
      /\ x.page_free_list = s.pp_link[a]
      /\ x.pp_link = [s.pp_link EXCEPT ![a] = NULL]
      /\ x.mem = [s.mem EXCEPT ![a] = Zeros]
      /\ x.pp_ref = [s.pp_ref EXCEPT ![a] = 1]
      /\ x.pgdir = Written(s.pgdir, d, v[1], a)
      /\ x.status = s.status
      /\ \A q \in Page : IsFree(x, q) => IsFree(s, q)
  <2>1. /\ k.pte = <<a, v[2]>> /\ k.st \in MMType
        /\ k.st.page_free_list = s.pp_link[a]
        /\ k.st.pp_link = [s.pp_link EXCEPT ![a] = NULL]
        /\ k.st.mem = [s.mem EXCEPT ![a] = Zeros]
        /\ k.st.pp_ref = [s.pp_ref EXCEPT ![a] = 1]
        /\ k.st.pgdir = Written(s.pgdir, d, v[1], a)
        /\ k.st.status = s.status
        /\ \A q \in Page : IsFree(k.st, q) => IsFree(s, q)
    BY WalkNew
  <2> HIDE DEF k
  <2> QED
    BY <1>1, <2>1
<1>3. v[1] \in PDX /\ v[2] \in PTX
  BY DEF VA
<1>4. a # NULL
  BY PagesAssumption
<1>5. x.pgdir[d][v[1]] = a /\ HasTable(x, d, v)
  BY <1>2, <1>3, <1>4 DEF MMType, HasTable, Written
<1>6. x.mem[a] = Zeros /\ x.pp_ref[p] = 0 /\ x.pp_ref[p] + 1 = 1
  BY <1>2 DEF MMType
<1>7. ~Present(Pte(x, d, v))
  BY <1>3, <1>5, <1>6 DEF Pte, Present, Zeros, ZeroPte
<1>8. page_insert(s, d, p, v, perm) = page_insert(x, d, p, v, perm)
  <2> DEFINE kx == pgdir_walk(x, d, v, TRUE)
  <2>1. kx = [st |-> x, pte |-> <<a, v[2]>>]
    <3>1. x \in MMType
      BY <1>2
    <3>2. kx = [st |-> x, pte |-> <<x.pgdir[d][v[1]], v[2]>>]
      BY <1>5, <3>1, WalkThere
    <3> HIDE DEF kx
    <3> QED
      BY <1>5, <3>2
  <2> HIDE DEF kx, k
  <2>2. kx.pte = k.pte /\ kx.st = k.st
    BY <1>1, <1>2, <2>1
  <2> QED
    BY <2>2 DEF page_insert, kx, k, pgdir_make
<1> HIDE DEF k
<1>9. PICK i : i = page_insert(x, d, p, v, perm)
  OBVIOUS
<1>10. /\ i.ret = "OK" /\ SameList(x, i.st)
       /\ i.st.pp_ref = [x.pp_ref EXCEPT ![p] = @ + 1]
       /\ i.st.mem = Written(x.mem, a, v[2], EntryOf(p, perm))
  <2>1. x \in MMType /\ x.pp_ref[p] + 1 < RefMod
    BY <1>2, <1>6, RefModAssumption
  <2>2. FirstMapping(x, page_insert(x, d, p, v, perm), d, v, p, perm)
    BY <1>5, <1>7, <2>1, InsertFresh
  <2> QED
    BY <1>5, <1>9, <2>2 DEF FirstMapping
<1>11. i.st.mem = [s.mem EXCEPT ![a] = FirstEntry(v[2], EntryOf(p, perm))]
  <2>1. s.mem \in [Page -> [PTX -> Entry]] /\ Zeros \in [PTX -> Entry]
    BY ZeroPteType DEF MMType, Zeros
  <2>2. i.st.mem = Written([s.mem EXCEPT ![a] = Zeros], a, v[2], EntryOf(p, perm))
    BY <1>2, <1>10
  <2> QED
    <3>1. PICK f, e : f = s.mem /\ e = EntryOf(p, perm)
      OBVIOUS
    <3>2. Written([f EXCEPT ![a] = Zeros], a, v[2], e) = [f EXCEPT ![a] = FirstEntry(v[2], e)]
      BY <1>3, <2>1, <3>1 DEF Written, Zeros, FirstEntry
    <3> QED
      BY <2>2, <3>1, <3>2
<1>12. \A q \in Page : IsFree(i.st, q) => IsFree(s, q)
  BY <1>2, <1>10 DEF SameList, IsFree
<1>13. i.st.pp_ref = Recounted(s.pp_ref, a, 1, p, 1)
  BY <1>2, <1>6, <1>10 DEF Recounted
<1> QED
  BY <1>2, <1>8, <1>9, <1>10, <1>11, <1>12, <1>13 DEF SameList, NewMapping

(* The new table is the head of a proper list, which stays proper.         *)
NewTable(s, w, d, v, a) ==
  /\ w.pte = <<a, v[2]>> /\ w.st \in MMType /\ ChainOK(w.st)
  /\ Len(w.st.free) = Len(s.free) - 1
  /\ \A i \in 1 .. Len(s.free) - 1 : w.st.free[i] = s.free[i]
  /\ \A p \in Page : IsFree(w.st, p) <=> IsFree(s, p) /\ p # a
  /\ w.st.mem = [s.mem EXCEPT ![a] = Zeros]
  /\ w.st.pp_ref = [s.pp_ref EXCEPT ![a] = 1]
  /\ w.st.pgdir = Written(s.pgdir, d, v[1], a)
  /\ w.st.status = s.status

LEMMA WalkChain ==
  ASSUME NEW s \in MMType, ChainOK(s), NEW d \in Pgdirs, NEW v \in VA, ~HasTable(s, d, v),
         NEW a \in Page, s.page_free_list = a, s.pp_ref[a] = 0
  PROVE  NewTable(s, pgdir_make(s, d, v), d, v, a)
<1> DEFINE w == pgdir_make(s, d, v)
<1>1. /\ w.pte = <<a, v[2]>> /\ w.st \in MMType
      /\ w.st.page_free_list = s.pp_link[a]
      /\ w.st.pp_link = [s.pp_link EXCEPT ![a] = NULL]
      /\ w.st.mem = [s.mem EXCEPT ![a] = Zeros]
      /\ w.st.pp_ref = [s.pp_ref EXCEPT ![a] = 1]
      /\ w.st.pgdir = Written(s.pgdir, d, v[1], a)
      /\ w.st.status = s.status
  BY WalkNew
<1>2. PICK t : t = page_alloc(s, 1).st
  OBVIOUS
<1>3. page_alloc(s, 1).pp = a /\ a # NULL
  BY AllocHead, PagesAssumption
<1>4. w.st.free = t.free
  <2>1. w.st = [page_incref(t, a) EXCEPT !.pgdir[d][v[1]] = a]
    BY <1>2, <1>3 DEF HasTable, pgdir_walk, pgdir_make
  <2>2. t \in MMType
    BY <1>2, AllocType
  <2>3. page_incref(t, a) \in MMType
    BY <2>2, IncrefType
  <2>4. page_incref(t, a).free = t.free
    BY <2>2 DEF page_incref, MMType
  <2> QED
    BY <2>1, <2>3, <2>4 DEF MMType
<1> HIDE DEF w
<1>5. /\ t \in MMType /\ ChainOK(t) /\ \A p \in Page : IsFree(t, p) <=> IsFree(s, p) /\ p # a
      /\ t.page_free_list = s.pp_link[a] /\ t.pp_link = [s.pp_link EXCEPT ![a] = NULL]
      /\ Len(t.free) = Len(s.free) - 1 /\ \A i \in 1 .. Len(s.free) - 1 : t.free[i] = s.free[i]
  <2> DEFINE b == page_alloc(s, 1).pp
             u == page_alloc(s, 1).st
  <2>1. b # NULL /\ b = a /\ u = t
    BY <1>2, <1>3
  <2>2. ChainOK(u) /\ \A p \in Page : IsFree(u, p) <=> IsFree(s, p) /\ p # b
    BY <2>1, AllocChain
  <2>3. /\ u.page_free_list = s.pp_link[b] /\ u.pp_link = [s.pp_link EXCEPT ![b] = NULL]
        /\ u.free = SubSeq(s.free, 1, Len(s.free) - 1)
    BY ZenonT(30), <2>1, AllocFields
  <2>4. u \in MMType
    BY AllocType
  <2> HIDE DEF b, u
  <2>5. s.free \in Seq(Page) /\ Len(s.free) # 0
    BY <1>3 DEF MMType, ChainOK
  <2>6. Len(u.free) = Len(s.free) - 1 /\ \A i \in 1 .. Len(s.free) - 1 : u.free[i] = s.free[i]
    BY <2>3, <2>5
  <2> QED
    BY <2>1, <2>2, <2>3, <2>4, <2>6
<1>6. ChainOK(w.st) /\ \A p \in Page : IsFree(w.st, p) <=> IsFree(t, p)
  BY <1>1, <1>4, <1>5 DEF ChainOK, IsFree
<1> QED
  BY <1>1, <1>4, <1>5, <1>6 DEF NewTable, w

(* The list is all that ChainOK looks at.                                  *)
LEMMA SameChain ==
  ASSUME NEW s, NEW t, ChainOK(s),
         t.page_free_list = s.page_free_list, t.pp_link = s.pp_link, t.free = s.free
  PROVE  ChainOK(t)
BY DEF ChainOK, IsFree
=============================================================================
