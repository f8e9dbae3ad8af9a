------------------------------ MODULE BootProofs -----------------------------
(***************************************************************************)
(* The two stages of the boot: the boot loader, which brings a kernel into *)
(* memory and enters it, and mem_init, which sets up the memory of that    *)
(* kernel.  Each keeps its safety properties for every value of its        *)
(* constants that its assumptions allow; neither proof uses the other.     *)
(*                                                                         *)
(* MemInit.  There is one induction, over MemInv: what the free list, the  *)
(* counts and the tables are at each call of mem_init, down to the         *)
(* contents of the table check_page works on.  PmapLemmas says what the    *)
(* page functions do to any state; the constants of PmapState, which are   *)
(* for what uses them after boot, play no part.                            *)
(*                                                                         *)
(* BootLoader.  The induction is over LoaderInv: how far the segment that  *)
(* is being read has come, and that what was read before it is in place.   *)
(***************************************************************************)
EXTENDS MemInit, BootLoader, PmapLemmas, SequenceTheorems

-----------------------------------------------------------------------------
(* The first page behind what boot_alloc gave.                             *)
FirstFree == machine.end + 1 + PagesSize

(* The i-th page page_init puts on the list, and how many it has put when  *)
(* it comes to page p.                                                     *)
FreePage(i) == IF i < machine.io THEN i ELSE FirstFree + 1 + (i - machine.io)
Listed(p) ==
  IF p = 0 THEN 0
  ELSE IF p <= machine.io THEN p - 1
  ELSE IF p <= FirstFree THEN machine.io - 1
  ELSE machine.io - 1 + (p - 1 - FirstFree)
Ascending(s, n) == Len(s.free) = n /\ \A i \in 1 .. n : s.free[i] = FreePage(i)

(* How many of them are low.                                               *)
Lows == CHOOSE h \in 0 .. Listed(npages) :
          \A i \in 1 .. Listed(npages) : IsLow(FreePage(i)) <=> i <= h

(* The last k pages of the list, which are the first handed out, are low.  *)
LowTop(s, k) == k <= Len(s.free) /\ \A i \in Len(s.free) - k + 1 .. Len(s.free) : IsLow(s.free[i])

Counted(s) ==
  \A p \in Page : /\ s.pp_ref[p] = IF InUse(p) \/ IsTable(s, p) THEN 1 ELSE 0
                  /\ IsFree(s, p) <=> s.pp_ref[p] = 0

OnlySelf(s) == s.pgdir[Kern] = [x \in PDX |-> IF x = UVPT THEN machine.end ELSE NULL]

Steady(s) == OnlySelf(s) /\ Counted(s) /\ ChainOK(s) /\ LowTop(s, KernTables + 2)

(* The loop of check_page_free_list is at the k-th page; h are low.        *)
Walked(k, h) ==
  LET v == IF k < h THEN h ELSE k
      n == Len(mm.free)
  IN  /\ at = IF k = 0 THEN NULL ELSE mm.free[k]
      /\ tp.high = IF v = n THEN PP2 ELSE mm.free[v + 1]
      /\ v < n => tp.pp2 = mm.free[n]
      /\ tp.low = IF k >= h THEN PP1 ELSE mm.free[k + 1]
      /\ k < h => tp.pp1 = mm.free[h]
Reordering ==
  /\ OnlySelf(mm) /\ Counted(mm) /\ ChainOK(mm) /\ Ascending(mm, Listed(npages))
  /\ \E k \in 0 .. Listed(npages) : Walked(k, Lows)

-----------------------------------------------------------------------------
Taken == {pp[1], pp[2], pp[3]}

KernDir(tables) == [x \in PDX |-> IF x = UVPT THEN machine.end
                                  ELSE IF x = 0 /\ tables = 1 THEN pp[1] ELSE NULL]

(* The state of a call of check_page: f is the page on the free list, r    *)
(* the counts of the three pages, T the table at 0 if there is one.        *)
CheckState(s, f, r, tables, T) ==
  /\ s \in MMType /\ s.status = "run"
  /\ ChainOK(GiveBack(s, fl)) /\ LowTop(GiveBack(s, fl), KernTables - 1)
  /\ \A p \in Taken : s.pp_link[p] = NULL /\ ~IsFree(GiveBack(s, fl), p) /\ s.pp_ref[p] = r[p]
  /\ \A p \in Page \ Taken : /\ s.pp_ref[p] = IF InUse(p) THEN 1 ELSE 0
                             /\ IsFree(GiveBack(s, fl), p) <=> s.pp_ref[p] = 0
  /\ s.page_free_list = f /\ \A p \in Page : IsFree(s, p) => p \in Taken
  /\ s.pgdir[Kern] = KernDir(tables)
  /\ tables = 1 => s.mem[pp[1]] = T

Refs3(i, j, k) == [p \in Taken |-> IF p = pp[1] THEN i ELSE IF p = pp[2] THEN j ELSE k]
EntryFor(i, perm) == [addr |-> pp[i], perm |-> perm \cup {"P"}]
Table2(e, f) == [y \in PTX |-> IF y = 0 THEN e ELSE IF y = 1 THEN f ELSE ZeroPte]

ThreePages ==
  /\ pp \in Page \X Page \X Page /\ pp[1] # pp[2] /\ pp[1] # pp[3] /\ pp[2] # pp[3]
  /\ \A p \in Taken : IsLow(p) /\ ~InUse(p)
  /\ fl \in [page_free_list : Page \cup {NULL}, free : Seq(Page)]

Before(s, k) ==
  \/ k \in {1, 2, 13, 14, 15} /\ CheckState(s, NULL, Refs3(0, 0, 0), 0, NULL)
  \/ k = 3 /\ CheckState(s, NULL, Refs3(1, 1, 0), 1, Table2(EntryFor(2, {"W"}), ZeroPte))
  \/ k \in {4, 5, 7, 8} /\ CheckState(s, NULL, Refs3(1, 1, 1), 1, Table2(EntryFor(2, {"W"}), EntryFor(3, {"W"})))
  \/ k = 6 /\ CheckState(s, NULL, Refs3(1, 1, 1), 1, Table2(EntryFor(2, {"W"}), EntryFor(3, {"W", "U"})))
  \/ k = 9 /\ CheckState(s, pp[3], Refs3(1, 2, 0), 1, Table2(EntryFor(2, {"W"}), EntryFor(2, {"W"})))
  \/ k = 10 /\ CheckState(s, NULL, Refs3(1, 1, 0), 1, Table2(ZeroPte, EntryFor(2, {"W"})))
  \/ k = 11 /\ CheckState(s, NULL, Refs3(1, 1, 0), 1, Table2(ZeroPte, EntryFor(2, {})))
  \/ k = 12 /\ CheckState(s, pp[2], Refs3(1, 0, 0), 1, Table2(ZeroPte, ZeroPte))

-----------------------------------------------------------------------------
KernIndex == KERNBASE .. KERNBASE + KernTables - 1
(* The entry (x, y) is written before iteration k of region j.             *)
Done(j, k, x, y) ==
  \/ x = UPAGES /\ (j > 1 \/ y < k)
  \/ x = KSTACK /\ y >= NPT - KSTK /\ (j > 2 \/ (j = 2 /\ y - (NPT - KSTK) < k))
  \/ x \in KernIndex /\ (j > 3 \/ (j = 3 /\ (x - KERNBASE) * NPT + y < k))
Want(x, y) ==
  IF x = UPAGES THEN [addr |-> PhysPage(pages + y), perm |-> {"U", "P"}]
  ELSE IF x = KSTACK THEN [addr |-> PhysPage(machine.ext + (y - (NPT - KSTK))), perm |-> {"W", "P"}]
  ELSE [addr |-> PhysPage((x - KERNBASE) * NPT + y), perm |-> {"W", "P"}]
Size(j) == IF j = 1 THEN NPT ELSE IF j = 2 THEN KSTK ELSE IF j = 3 THEN KernTables * NPT ELSE 0
(* The tables mem_init has still to make.                                  *)
Missing(s) == {x \in {UPAGES, KSTACK} \cup KernIndex : s.pgdir[Kern][x] = NULL}
Mapping(s, j, k) ==
  /\ Counted(s) /\ ChainOK(s) /\ LowTop(s, Cardinality(Missing(s)))
  /\ \A x \in PDX : s.pgdir[Kern][x] # NULL <=> x = UVPT \/ \E y \in PTX : Done(j, k, x, y)
  /\ s.pgdir[Kern][UVPT] = machine.end
  /\ \A x, z \in PDX : s.pgdir[Kern][x] # NULL /\ s.pgdir[Kern][x] = s.pgdir[Kern][z] => x = z
  /\ \A x \in PDX \ {UVPT} : s.pgdir[Kern][x] # NULL =>
        /\ IsLow(s.pgdir[Kern][x])
        /\ \A y \in PTX : s.mem[s.pgdir[Kern][x]][y] = IF Done(j, k, x, y) THEN Want(x, y) ELSE ZeroPte

-----------------------------------------------------------------------------
(* page_init has put the free pages below page at on the list.             *)
Building ==
  /\ at \in 0 .. npages
  /\ OnlySelf(mm) /\ ChainOK(mm) /\ Ascending(mm, Listed(at))
  /\ \A p \in Page : mm.pp_ref[p] = IF p < at /\ InUse(p) THEN 1 ELSE 0
  /\ tp = [pp1 |-> NULL, pp2 |-> NULL, low |-> PP1, high |-> PP2]

(* boot_map_region is at iteration k of region j.                          *)
MappingAt == \E j \in 1 .. 4 : \E k \in 0 .. Size(j) : at = <<j, k>> /\ Mapping(mm, j, k)

PCs == {"kern_pgdir", "pages", "page_init", "reorder", "fill", "check", "check_page_alloc",
        "check_page", "check_page_calls", "boot_map_region", "check_kern_pgdir", "check_envs",
        "check_phys_mem"}

MemInv ==
  /\ pc \in PCs /\ mm \in MMType /\ machine \in Layouts
  /\ WritesOnlyMapped
  /\ mm.status = "panic" => pc = "check_phys_mem" \/ (pc = "pages" /\ machine.vars = machine.end)
  /\ nextfree = IF pc = "kern_pgdir" THEN machine.end
                ELSE IF pc = "pages" THEN machine.end + 1 ELSE FirstFree
  /\ pc \notin {"kern_pgdir", "pages"} => pages = machine.end + 1
  /\ pc \in {"kern_pgdir", "pages"} =>
       /\ mm.free = <<>> /\ mm.page_free_list = NULL
       /\ tp = [pp1 |-> NULL, pp2 |-> NULL, low |-> PP1, high |-> PP2]
  /\ pc = "pages" /\ mm.status = "run" => OnlySelf(mm)
  /\ pc = "page_init" => Building
  /\ pc = "reorder" => Reordering
  /\ pc \in {"fill", "check", "check_page_alloc", "check_page"} => Steady(mm)
  /\ pc = "fill" => at \in Page \cup {NULL}
  /\ pc = "check_page_calls" => at \in 1 .. 15 /\ ThreePages /\ Before(mm, at)
  /\ pc = "boot_map_region" => MappingAt
  /\ pc \in {"check_kern_pgdir", "check_envs", "check_phys_mem"} => Mapping(mm, 4, 0)

-----------------------------------------------------------------------------
(* Machines and layouts.                                                   *)

LEMMA MachineFacts ==
  ASSUME machine \in Layouts
  PROVE  /\ machine.io \in Nat /\ machine.ext \in Nat /\ machine.end \in Nat
         /\ KernTables \in Nat /\ KernTables >= 1 /\ KernTables + 2 < machine.io
         /\ machine.io < machine.ext /\ machine.ext + KSTK <= machine.end
         /\ FirstFree \in Nat /\ machine.end < FirstFree
         /\ FirstFree <= NPT /\ FirstFree + 1 < npages
         /\ npages \in Nat /\ NPT \in Nat /\ PagesSize \in Nat /\ KSTK \in Nat
<1>1. {machine.io, machine.ext, machine.end} \subseteq Nat
      /\ KernTables + 2 < machine.io /\ machine.io < machine.ext
      /\ machine.ext + KSTK <= machine.end
      /\ machine.end + 1 + PagesSize <= NPT /\ machine.end + 1 + PagesSize + 1 < npages
  BY LayoutAssumption
<1>2. KernTables \in Nat /\ NPT \in Nat /\ PagesSize \in Nat /\ KSTK \in Nat
      /\ npages <= KernTables * NPT /\ npages \in Nat
  BY BootAssumption, PagesAssumption
<1>3. KernTables # 0
  <2>1. npages > 0
    BY <1>1, <1>2
  <2>2. 0 * NPT = 0
    BY <1>2
  <2> QED
    BY <1>2, <2>1, <2>2
<1> QED
  BY <1>1, <1>2, <1>3 DEF FirstFree

LEMMA KernFacts ==
  /\ Kern \in Pgdirs /\ Pgdirs = {Kern}
  /\ {UPAGES, KSTACK, UVPT, 0, 1} \subseteq PDX /\ KernIndex \subseteq PDX
  /\ PDX \subseteq Nat /\ KernIndex \subseteq Nat
  /\ UPAGES > 1 /\ KSTACK > 1 /\ UVPT > 1
  /\ PTX = 0 .. NPT - 1 /\ NPT \in Nat
  /\ UPAGES # KSTACK /\ UPAGES # UVPT /\ KSTACK # UVPT
  /\ UPAGES \notin KernIndex /\ KSTACK \notin KernIndex /\ UVPT \notin KernIndex
BY BootAssumption DEF KernIndex

-----------------------------------------------------------------------------
(* page_init puts the pages nobody uses on the list, in ascending order.   *)

LEMMA InUseFacts ==
  ASSUME machine \in Layouts, nextfree = FirstFree, NEW p \in Nat
  PROVE  InUse(p) <=> p = 0 \/ (machine.io <= p /\ p <= FirstFree)
BY DEF InUse

LEMMA ListedFacts ==
  ASSUME machine \in Layouts, nextfree = FirstFree, NEW p \in Nat
  PROVE  /\ Listed(p) \in Nat /\ Listed(p + 1) \in Nat
         /\ InUse(p) => Listed(p + 1) = Listed(p)
         /\ ~InUse(p) => Listed(p + 1) = Listed(p) + 1 /\ FreePage(Listed(p) + 1) = p
         /\ \A i \in 1 .. Listed(p) : FreePage(i) < p /\ FreePage(i) \in Nat
                                      /\ ~InUse(FreePage(i))
<1>1. machine.io \in Nat /\ FirstFree \in Nat /\ machine.io < FirstFree /\ machine.io > 1
  BY MachineFacts
<1>2. InUse(p) <=> p = 0 \/ (machine.io <= p /\ p <= FirstFree)
  BY DEF InUse
<1>3. /\ Listed(p) \in Nat /\ Listed(p + 1) \in Nat
      /\ InUse(p) => Listed(p + 1) = Listed(p)
      /\ ~InUse(p) => Listed(p + 1) = Listed(p) + 1 /\ FreePage(Listed(p) + 1) = p
  BY <1>1, <1>2 DEF Listed, FreePage
<1>4. ASSUME NEW i \in 1 .. Listed(p)
      PROVE  FreePage(i) < p /\ FreePage(i) \in Nat /\ ~InUse(FreePage(i))
  <2>1. FreePage(i) < p /\ FreePage(i) \in Nat
    BY <1>1 DEF Listed, FreePage
  <2>2. ~InUse(FreePage(i))
    BY <1>1, <2>1, InUseFacts DEF FreePage
  <2> QED
    BY <2>1, <2>2
<1> QED
  BY <1>3, <1>4

(* All of them, and each once.                                             *)
LEMMA AllListed ==
  ASSUME machine \in Layouts, nextfree = FirstFree
  PROVE  /\ Listed(npages) \in Nat /\ Listed(npages) > KernTables + 2
         /\ \A i \in 1 .. Listed(npages) : FreePage(i) \in Page /\ ~InUse(FreePage(i))
         /\ \A i, j \in 1 .. Listed(npages) : i < j => FreePage(i) < FreePage(j)
         /\ \A p \in Page : ~InUse(p) => \E i \in 1 .. Listed(npages) : FreePage(i) = p
         /\ \A i \in 1 .. machine.io - 1 : FreePage(i) = i
<1>1. machine.io \in Nat /\ FirstFree \in Nat /\ machine.io < FirstFree /\ machine.io > 1
      /\ FirstFree + 1 < npages /\ npages \in Nat /\ KernTables + 2 < machine.io
      /\ KernTables \in Nat
  BY MachineFacts
<1>2. Listed(npages) = machine.io - 1 + (npages - 1 - FirstFree)
  BY <1>1 DEF Listed
<1>3. \A i \in 1 .. Listed(npages) : FreePage(i) \in Page /\ ~InUse(FreePage(i))
  <2>1. \A i \in 1 .. Listed(npages) : FreePage(i) < npages /\ FreePage(i) \in Nat
                                        /\ ~InUse(FreePage(i))
    BY <1>1, ListedFacts
  <2> QED
    BY <1>1, <2>1 DEF Page
<1>4. \A i, j \in 1 .. Listed(npages) : i < j => FreePage(i) < FreePage(j)
  BY <1>1, <1>2 DEF FreePage
<1>5. ASSUME NEW p \in Page, ~InUse(p)
      PROVE  \E i \in 1 .. Listed(npages) : FreePage(i) = p
  <2>1. p \in Nat /\ p < npages
    BY <1>1 DEF Page
  <2>2. p # 0 /\ (p < machine.io \/ p > FirstFree)
    BY <1>1, <1>5, <2>1, InUseFacts
  <2>3. CASE p < machine.io
    <3>1. p \in 1 .. Listed(npages) /\ FreePage(p) = p
      BY <1>1, <1>2, <2>1, <2>2, <2>3 DEF FreePage
    <3> QED
      BY <3>1
  <2>4. CASE p > FirstFree
    <3> DEFINE i == machine.io + p - FirstFree - 1
    <3>1. i \in 1 .. Listed(npages) /\ FreePage(i) = p
      BY <1>1, <1>2, <2>1, <2>4 DEF FreePage
    <3> QED
      BY <3>1
  <2> QED
    BY <2>2, <2>3, <2>4
<1>6. \A i \in 1 .. machine.io - 1 : FreePage(i) = i
  BY <1>1 DEF FreePage
<1> QED
  BY <1>1, <1>2, <1>3, <1>4, <1>5, <1>6

-----------------------------------------------------------------------------
(* From the first instruction to the end of page_init.                     *)

LEMMA InitInv == Init => MemInv
<1> SUFFICES ASSUME Init PROVE MemInv
  OBVIOUS
<1>1. npages \in Nat /\ 0 \in Page /\ Kern \in Pgdirs /\ Pgdirs = {Kern}
  BY SMTT(30), MachineFacts, KernFacts DEF Init, Page
<1>2. mm \in MMType
  <2>1. RefMod - 1 \in 0 .. RefMod - 1
    BY RefModAssumption
  <2>2. Scribbled \in [PTX -> Entry]
    BY JunkType DEF Scribbled
  <2>3. <<>> \in Seq(Page)
    OBVIOUS
  <2> QED
    BY <1>1, <2>1, <2>2, <2>3 DEF Init, MMType
<1>3. mm.status = "run" /\ mm.free = <<>> /\ mm.page_free_list = NULL
  BY DEF Init
<1> QED
  BY <1>2, <1>3 DEF Init, MemInv, WritesOnlyMapped, PCs

LEMMA AllocKernPgdirStep ==
  ASSUME MemInv, mm.status = "run", AllocKernPgdir
  PROVE  MemInv'
<1>1. machine \in Layouts /\ mm \in MMType /\ nextfree = machine.end
      /\ mm.free = <<>> /\ mm.page_free_list = NULL
      /\ tp = [pp1 |-> NULL, pp2 |-> NULL, low |-> PP1, high |-> PP2]
  BY DEF MemInv, AllocKernPgdir
<1>2. machine.end \in Nat /\ machine.end < npages /\ machine.end < NPT /\ NPT \in Nat
      /\ npages \in Nat
  BY <1>1, MachineFacts
<1>3. /\ pc' = "pages" /\ machine' = machine /\ nextfree' = machine.end + 1
      /\ touched' = {machine.end} /\ tp' = tp
  BY <1>1 DEF AllocKernPgdir, boot_alloc
<1>4. mm' \in MMType /\ mm'.free = <<>> /\ mm'.page_free_list = NULL
      /\ (mm'.status = "panic" => machine.vars = machine.end)
      /\ (mm'.status = "run" => mm'.pgdir[Kern] = [x \in PDX |-> IF x = UVPT THEN machine.end ELSE NULL])
  <2>1. CASE machine.vars = nextfree
    <3>1. mm' = [mm EXCEPT !.status = "panic"]
      BY <1>1, <2>1 DEF AllocKernPgdir
    <3>2. mm' \in MMType
      BY <1>1, <3>1 DEF MMType
    <3>3. mm'.free = mm.free /\ mm'.page_free_list = mm.page_free_list /\ mm'.status = "panic"
      BY <1>1, <3>1 DEF MMType
    <3> QED
      BY <1>1, <2>1, <3>2, <3>3
  <2>2. CASE machine.vars # nextfree
    <3>1. machine.end \in Page
      BY <1>2 DEF Page
    <3>2. [x \in PDX |-> IF x = UVPT THEN machine.end ELSE NULL] \in [PDX -> Page \cup {NULL}]
      BY <3>1
    <3>3. mm' = [mm EXCEPT !.pgdir[Kern] = [x \in PDX |-> IF x = UVPT THEN machine.end ELSE NULL]]
      BY <1>1, <2>2 DEF AllocKernPgdir
    <3> QED
      BY <1>1, <3>2, <3>3, KernFacts DEF MMType
  <2> QED
    BY <2>1, <2>2
<1>5. WritesOnlyMapped'
  BY <1>2, <1>3 DEF WritesOnlyMapped
<1> QED
  BY <1>1, <1>3, <1>4, <1>5 DEF MemInv, PCs, OnlySelf

LEMMA AllocPagesStep ==
  ASSUME MemInv, mm.status = "run", AllocPages
  PROVE  MemInv'
<1>1. machine \in Layouts /\ mm \in MMType /\ nextfree = machine.end + 1
      /\ mm.free = <<>> /\ mm.page_free_list = NULL /\ OnlySelf(mm)
      /\ tp = [pp1 |-> NULL, pp2 |-> NULL, low |-> PP1, high |-> PP2]
  BY DEF MemInv, AllocPages
<1>2. machine.end \in Nat /\ FirstFree <= NPT /\ NPT \in Nat /\ npages \in Nat /\ PagesSize \in Nat
  BY <1>1, MachineFacts
<1>3. /\ pc' = "page_init" /\ machine' = machine /\ nextfree' = FirstFree
      /\ pages' = machine.end + 1 /\ at' = 0 /\ tp' = tp
      /\ touched' = machine.end + 1 .. machine.end + PagesSize
  BY <1>1, <1>2 DEF AllocPages, boot_alloc, FirstFree
<1>4. /\ mm' \in MMType /\ mm'.status = "run"
      /\ mm'.free = <<>> /\ mm'.page_free_list = NULL /\ mm'.pgdir = mm.pgdir
      /\ mm'.pp_ref = [p \in Page |-> 0] /\ mm'.pp_link = [p \in Page |-> NULL]
  <2>1. mm' = [mm EXCEPT !.pp_ref = [p \in Page |-> 0], !.pp_link = [p \in Page |-> NULL]]
    BY DEF AllocPages
  <2>2. [p \in Page |-> 0] \in [Page -> 0 .. RefMod - 1]
    BY RefModAssumption
  <2>3. [p \in Page |-> NULL] \in [Page -> Page \cup {NULL}]
    OBVIOUS
  <2> QED
    BY <1>1, <2>1, <2>2, <2>3 DEF MMType
<1>5. WritesOnlyMapped'
  BY <1>2, <1>3 DEF WritesOnlyMapped, FirstFree
<1>6. ChainOK(mm')
  BY <1>4 DEF ChainOK, IsFree
<1>7. Building'
  <2>1. Listed(0) = 0 /\ (FirstFree = FirstFree)'
    BY DEF Listed
  <2>2. OnlySelf(mm)'
    BY <1>1, <1>3, <1>4 DEF OnlySelf
  <2>3. Ascending(mm, Listed(at))'
    BY <1>3, <1>4 DEF Ascending, Listed
  <2>4. (\A p \in Page : mm.pp_ref[p] = IF p < at /\ InUse(p) THEN 1 ELSE 0)'
    <3>1. \A p \in Page : ~(p < 0)
      BY <1>2 DEF Page
    <3> QED
      BY <1>3, <1>4, <3>1
  <2> QED
    BY <1>1, <1>2, <1>3, <1>6, <2>2, <2>3, <2>4 DEF Building
<1> QED
  BY <1>1, <1>3, <1>4, <1>5, <1>7 DEF MemInv, PCs, FirstFree

LEMMA PageInitStep ==
  ASSUME MemInv, mm.status = "run", page_init, MorePages(at)
  PROVE  MemInv'
<1>1. machine \in Layouts /\ mm \in MMType /\ nextfree = FirstFree /\ Building
      /\ pages = machine.end + 1
  BY DEF MemInv, page_init
<1>2. npages \in Nat /\ at \in Nat /\ at < npages /\ at \in Page
  BY <1>1, MachineFacts DEF MorePages, Building, Page
<1>3. /\ pc' = "page_init" /\ machine' = machine /\ nextfree' = nextfree /\ pages' = pages
      /\ touched' = {} /\ tp' = tp /\ at' = at + 1
      /\ mm' = IF InUse(at) THEN [mm EXCEPT !.pp_ref[at] = 1]
               ELSE [mm EXCEPT !.pp_ref[at] = 0, !.pp_link[at] = mm.page_free_list,
                               !.page_free_list = at, !.free = Append(@, at)]
  BY DEF page_init
<1>4. Ascending(mm, Listed(at)) /\ ChainOK(mm) /\ OnlySelf(mm)
      /\ (\A p \in Page : mm.pp_ref[p] = IF p < at /\ InUse(p) THEN 1 ELSE 0)
  BY <1>1 DEF Building
<1>5. /\ Listed(at) \in Nat
      /\ InUse(at) => Listed(at + 1) = Listed(at)
      /\ ~InUse(at) => Listed(at + 1) = Listed(at) + 1 /\ FreePage(Listed(at) + 1) = at
      /\ \A i \in 1 .. Listed(at) : FreePage(i) < at /\ FreePage(i) \in Nat
  BY <1>1, <1>2, ListedFacts
<1>6. \A p \in Page : p < at + 1 <=> p < at \/ p = at
  BY <1>2 DEF Page
<1>7. mm' \in MMType /\ mm'.status = "run" /\ mm'.pgdir = mm.pgdir /\ ChainOK(mm')
      /\ Ascending(mm', Listed(at + 1))
      /\ \A p \in Page : mm'.pp_ref[p] = IF p < at + 1 /\ InUse(p) THEN 1 ELSE 0
  <2>1. CASE InUse(at)
    <3>1. mm' = [mm EXCEPT !.pp_ref[at] = 1]
      BY <1>3, <2>1
    <3>2. 1 \in 0 .. RefMod - 1
      BY RefModAssumption
    <3>3. /\ mm' \in MMType /\ mm'.status = "run" /\ mm'.pgdir = mm.pgdir
          /\ mm'.free = mm.free /\ mm'.page_free_list = mm.page_free_list
          /\ mm'.pp_link = mm.pp_link /\ mm'.pp_ref = [mm.pp_ref EXCEPT ![at] = 1]
      BY <1>1, <3>1, <3>2 DEF MMType
    <3>4. ChainOK(mm')
      BY <1>4, <3>3 DEF ChainOK, IsFree
    <3>5. Ascending(mm', Listed(at + 1))
      BY <1>4, <1>5, <2>1, <3>3 DEF Ascending
    <3>6. \A p \in Page : mm'.pp_ref[p] = IF p < at + 1 /\ InUse(p) THEN 1 ELSE 0
      BY <1>1, <1>2, <1>4, <1>6, <2>1, <3>3 DEF MMType
    <3> QED
      BY <3>3, <3>4, <3>5, <3>6
  <2>2. CASE ~InUse(at)
    <3>1. ~IsFree(mm, at)
      BY <1>2, <1>4, <1>5 DEF IsFree, Ascending
    <3>2. mm.pp_ref[at] = 0 /\ mm.pp_link[at] = NULL
      BY <1>2, <1>4, <3>1 DEF ChainOK
    <3>3. mm' = page_free(mm, at)
      <4>1. mm' = [mm EXCEPT !.pp_ref[at] = 0, !.pp_link[at] = mm.page_free_list,
                             !.page_free_list = at, !.free = Append(@, at)]
        BY <1>3, <2>2
      <4>2. [mm.pp_ref EXCEPT ![at] = 0] = mm.pp_ref
        BY <1>1, <1>2, <3>2 DEF MMType
      <4> QED
        BY <1>1, <3>2, <4>1, <4>2 DEF page_free, MMType
    <3>4. /\ mm' \in MMType /\ mm'.free = Append(mm.free, at)
          /\ mm'.pp_ref = mm.pp_ref /\ mm'.pgdir = mm.pgdir /\ mm'.status = "run"
      BY <1>1, <1>2, <3>2, <3>3, FreeFields
    <3>5. ChainOK(mm')
      BY <1>1, <1>2, <1>4, <3>1, <3>2, <3>3, FreeChain
    <3>6. Ascending(mm', Listed(at + 1))
      <4>1. mm.free \in Seq(Page)
        BY <1>1 DEF MMType
      <4>2. Len(mm'.free) = Listed(at) + 1 /\ mm'.free[Listed(at) + 1] = at
            /\ \A i \in 1 .. Listed(at) : mm'.free[i] = mm.free[i]
        BY <1>4, <3>4, <4>1 DEF Ascending
      <4> QED
        BY <1>4, <1>5, <2>2, <4>2 DEF Ascending
    <3>7. \A p \in Page : mm'.pp_ref[p] = IF p < at + 1 /\ InUse(p) THEN 1 ELSE 0
      BY <1>4, <1>6, <2>2, <3>4
    <3> QED
      BY <3>4, <3>5, <3>6, <3>7
  <2> QED
    BY <2>1, <2>2
<1>8. Building'
  <2>1. at' \in 0 .. npages
    BY <1>2, <1>3
  <2>2. Ascending(mm, Listed(at))'
    BY <1>3, <1>7 DEF Ascending, Listed, FreePage, FirstFree
  <2>3. (\A p \in Page : mm.pp_ref[p] = IF p < at /\ InUse(p) THEN 1 ELSE 0)'
    BY <1>3, <1>7 DEF InUse
  <2>4. OnlySelf(mm)'
    BY <1>3, <1>4, <1>7 DEF OnlySelf
  <2> QED
    BY <1>1, <1>3, <1>7, <2>1, <2>2, <2>3, <2>4 DEF Building
<1> QED
  BY <1>1, <1>3, <1>7, <1>8 DEF MemInv, PCs, WritesOnlyMapped, FirstFree

-----------------------------------------------------------------------------
(* check_page_free_list moves the low pages to the head of the list.       *)

LEMMA LowsFacts ==
  ASSUME machine \in Layouts, nextfree = FirstFree
  PROVE  /\ Lows \in 0 .. Listed(npages) /\ KernTables + 2 <= Lows
         /\ \A i \in 1 .. Listed(npages) : IsLow(FreePage(i)) <=> i <= Lows
<1>1. machine.io \in Nat /\ FirstFree \in Nat /\ machine.io < FirstFree /\ FirstFree <= NPT
      /\ FirstFree + 1 < npages /\ npages \in Nat /\ KernTables + 2 < machine.io
      /\ KernTables \in Nat /\ NPT \in Nat
  BY MachineFacts
<1> DEFINE n == Listed(npages)
           h == IF npages <= NPT THEN n
                ELSE IF FirstFree = NPT THEN machine.io - 1
                ELSE machine.io + NPT - FirstFree - 2
<1>2. n = machine.io + npages - FirstFree - 2 /\ n \in Nat
  BY <1>1 DEF Listed
<1>3. h \in 0 .. n /\ \A i \in 1 .. n : IsLow(FreePage(i)) <=> i <= h
  BY <1>1, <1>2 DEF IsLow, FreePage
<1>4. Lows \in 0 .. n /\ \A i \in 1 .. n : IsLow(FreePage(i)) <=> i <= Lows
  <2> HIDE DEF h, n
  <2>1. \E l \in 0 .. n : \A i \in 1 .. n : IsLow(FreePage(i)) <=> i <= l
    BY <1>3
  <2> QED
    BY <2>1 DEF Lows, n
<1>5. KernTables + 2 <= Lows
  <2>1. KernTables + 2 \in 1 .. n /\ IsLow(FreePage(KernTables + 2))
    BY <1>1, <1>2 DEF IsLow, FreePage
  <2> QED
    BY <1>4, <2>1
<1> QED
  BY <1>4, <1>5

LEMMA PageInitEnd ==
  ASSUME MemInv, mm.status = "run", page_init, ~MorePages(at)
  PROVE  MemInv'
<1>1. machine \in Layouts /\ mm \in MMType /\ nextfree = FirstFree /\ Building
      /\ pages = machine.end + 1
  BY DEF MemInv, page_init
<1>2. npages \in Nat /\ at = npages
  BY <1>1, MachineFacts DEF MorePages, Building
<1>0. PICK n : n = Listed(npages)
  OBVIOUS
<1>3. n \in Nat /\ n > 0 /\ Lows \in 0 .. n
      /\ (\A i \in 1 .. n : FreePage(i) \in Page /\ ~InUse(FreePage(i)))
      /\ (\A p \in Page : ~InUse(p) => \E i \in 1 .. n : FreePage(i) = p)
  BY <1>0, <1>1, AllListed, LowsFacts, MachineFacts
<1>4. OnlySelf(mm) /\ ChainOK(mm) /\ Ascending(mm, n)
      /\ (\A p \in Page : mm.pp_ref[p] = IF p < npages /\ InUse(p) THEN 1 ELSE 0)
      /\ tp = [pp1 |-> NULL, pp2 |-> NULL, low |-> PP1, high |-> PP2]
  BY <1>0, <1>1, <1>2 DEF Building
<1>5. Len(mm.free) = n /\ mm.page_free_list = mm.free[n] /\ mm.free[n] # NULL
  <2>1. Len(mm.free) = n /\ n \in 1 .. n
    BY <1>3, <1>4 DEF Ascending
  <2> QED
    BY <1>1, <1>4, <2>1, ChainLinks DEF ChainOK
<1>6. /\ pc' = "reorder" /\ machine' = machine /\ nextfree' = nextfree /\ pages' = pages
      /\ touched' = {} /\ tp' = tp /\ at' = mm.free[n] /\ mm' = mm
  BY <1>5 DEF page_init
<1>7. Counted(mm)
  <2>1. \A p \in Page : mm.pp_ref[p] = IF InUse(p) THEN 1 ELSE 0
    BY <1>2, <1>4 DEF Page
  <2>2. \A p \in Page : IsTable(mm, p) => p = machine.end
    BY <1>4, KernFacts, PagesAssumption DEF IsTable, OnlySelf
  <2>3. InUse(machine.end)
    <3>1. /\ machine.io \in Nat /\ machine.end \in Nat /\ machine.io <= machine.end
          /\ machine.end <= FirstFree
      BY <1>1, MachineFacts
    <3> QED
      BY <1>1, <3>1 DEF InUse
  <2>4. ASSUME NEW p \in Page
        PROVE  IsFree(mm, p) <=> mm.pp_ref[p] = 0
    <3>1. IsFree(mm, p) => ~InUse(p)
      BY <1>3, <1>4, <1>5 DEF IsFree, Ascending
    <3>2. ~InUse(p) => IsFree(mm, p)
      BY <1>3, <1>4, <1>5 DEF IsFree, Ascending
    <3> QED
      BY <2>1, <3>1, <3>2
  <2> QED
    BY <2>1, <2>2, <2>3, <2>4 DEF Counted
<1>8. Walked(n, Lows)'
  <2>1. (IF n < Lows THEN Lows ELSE n) = n
    BY <1>3
  <2>2. Lows' = Lows
    BY <1>6 DEF Lows, Listed, FreePage, FirstFree, IsLow
  <2> QED
    BY <1>3, <1>4, <1>5, <1>6, <2>1, <2>2 DEF Walked
<1>9. Reordering'
  <2>1. n \in 0 .. Listed(npages) /\ Listed(npages)' = Listed(npages)
    BY <1>0, <1>3, <1>6 DEF Listed, FirstFree
  <2>2. Counted(mm)' /\ OnlySelf(mm)' /\ ChainOK(mm)' /\ Ascending(mm, Listed(npages))'
    BY <1>0, <1>4, <1>6, <1>7 DEF Counted, OnlySelf, Ascending, Listed, FreePage, FirstFree, InUse
  <2> QED
    BY <1>8, <2>1, <2>2 DEF Reordering
<1> QED
  BY <1>1, <1>6, <1>9 DEF MemInv, PCs, WritesOnlyMapped, FirstFree

LEMMA LinkKept ==
  ASSUME NEW s \in MMType, NEW c \in Page, NEW p, s.pp_link[c] = p
  PROVE  [s EXCEPT !.pp_link[c] = p] = s
<1>1. [s.pp_link EXCEPT ![c] = p] = s.pp_link
  BY DEF MMType
<1> QED
  BY <1>1 DEF MMType

LEMMA MoveStep ==
  ASSUME MemInv, mm.status = "run", Move
  PROVE  MemInv'
<1>1. machine \in Layouts /\ mm \in MMType /\ nextfree = FirstFree /\ Reordering
      /\ pages = machine.end + 1
  BY DEF MemInv, Move
<1>0. PICK n : n = Listed(npages)
  OBVIOUS
<1>2. n \in Nat /\ Lows \in 0 .. n /\ (\A i \in 1 .. n : IsLow(FreePage(i)) <=> i <= Lows)
  BY <1>0, <1>1, AllListed, LowsFacts
<1>3. OnlySelf(mm) /\ Counted(mm) /\ ChainOK(mm) /\ Ascending(mm, n)
  BY <1>0, <1>1 DEF Reordering
<1>4. PICK k \in 0 .. n : Walked(k, Lows)
  BY <1>0, <1>1 DEF Reordering
<1>5. Len(mm.free) = n /\ (\A i \in 1 .. n : IsLow(mm.free[i]) <=> i <= Lows)
      /\ (\A i \in 1 .. n : mm.free[i] \in Page)
      /\ (\A i \in 1 .. n : mm.pp_link[mm.free[i]] = IF i = 1 THEN NULL ELSE mm.free[i - 1])
  BY <1>1, <1>2, <1>3, ChainLinks DEF Ascending
<1>6. k \in 1 .. n /\ at = mm.free[k]
  BY <1>4 DEF Walked, Move
<1>7. /\ pc' = "reorder" /\ machine' = machine /\ nextfree' = nextfree /\ pages' = pages
      /\ touched' = {} /\ at' = mm.pp_link[at]
      /\ WriteLink(IF IsLow(at) THEN tp.low ELSE tp.high, at)
  BY <1>1 DEF Move, MemInv
<1>8. PP1 \notin Page /\ PP2 \notin Page /\ PP1 # PP2
  BY PagesAssumption DEF PP1, PP2, Page
<1>9. at' = IF k - 1 = 0 THEN NULL ELSE mm.free[k - 1]
  BY <1>5, <1>6, <1>7
<1>10. k # n => mm.free[k + 1] \in Page /\ mm.pp_link[mm.free[k + 1]] = at
  <2> SUFFICES ASSUME k # n
               PROVE  mm.free[k + 1] \in Page /\ mm.pp_link[mm.free[k + 1]] = at
    OBVIOUS
  <2>1. PICK i \in 1 .. n : i = k + 1 /\ i # 1 /\ i - 1 = k
    BY <1>2, <1>6
  <2> QED
    BY <1>5, <1>6, <2>1
<1>11. mm' = mm /\ Walked(k - 1, Lows)'
  <2>0. (Lows' = Lows) /\ Lows \in Nat /\ Len(mm.free) = n /\ k \in Nat /\ k <= n /\ k # 0
    BY <1>2, <1>5, <1>6, <1>7 DEF Lows, Listed, FreePage, FirstFree, IsLow
  <2>1. CASE k > Lows
    <3>1. ~IsLow(at)
      BY <1>2, <1>5, <1>6, <2>1
    <3>2. WriteLink(tp.high, at)
      BY <1>7, <3>1
    <3>3. tp.high = (IF k = n THEN PP2 ELSE mm.free[k + 1]) /\ tp.low = PP1
          /\ (k < n => tp.pp2 = mm.free[n])
      BY <1>4, <2>0, <2>1 DEF Walked
    <3>4. mm' = mm
      <4>1. CASE k = n
        BY <1>8, <3>2, <3>3, <4>1 DEF WriteLink
      <4>2. CASE k # n
        <5>1. tp.high = mm.free[k + 1]
          BY <3>3, <4>2
        <5>2. tp.high \in Page /\ mm.pp_link[tp.high] = at
          BY <1>10, <4>2, <5>1
        <5>3. mm' = [mm EXCEPT !.pp_link[tp.high] = at]
          BY <3>2, <5>2 DEF WriteLink
        <5> QED
          BY <1>1, <5>2, <5>3, LinkKept
      <4> QED
        BY <4>1, <4>2
    <3>5. tp'.low = PP1 /\ tp'.high = mm.free[k] /\ tp'.pp2 = mm.free[n]
      <4>1. tp'.low = tp.low /\ tp'.high = at
            /\ tp'.pp2 = IF tp.high = PP2 THEN at ELSE tp.pp2
        BY <3>1, <3>2 DEF WriteLink
      <4>2. CASE k = n
        BY <1>6, <3>3, <4>1, <4>2
      <4>3. CASE k # n
        <5>1. k + 1 \in 1 .. n
          BY <2>0, <4>3
        <5>2. tp.high # PP2
          BY <1>5, <1>8, <3>3, <4>3, <5>1
        <5> QED
          BY <1>6, <2>0, <3>3, <4>1, <4>3, <5>2
      <4> QED
        BY <4>2, <4>3
    <3>6. (IF k - 1 < Lows THEN Lows ELSE k - 1) = k - 1 /\ k - 1 # n /\ k - 1 + 1 = k
          /\ k - 1 >= Lows /\ ~(k - 1 < Lows)
      BY <2>0, <2>1
    <3> QED
      BY <1>9, <2>0, <3>4, <3>5, <3>6 DEF Walked
  <2>2. CASE k <= Lows
    <3>1. IsLow(at)
      BY <1>2, <1>5, <1>6, <2>2
    <3>2. WriteLink(tp.low, at)
      BY <1>7, <3>1
    <3>3. /\ tp.low = (IF k = Lows THEN PP1 ELSE mm.free[k + 1])
          /\ tp.high = (IF Lows = n THEN PP2 ELSE mm.free[Lows + 1])
          /\ Lows < n => tp.pp2 = mm.free[n]
          /\ k < Lows => tp.pp1 = mm.free[Lows]
      BY <1>4, <2>0, <2>2 DEF Walked
    <3>4. tp.low # PP2
      <4>1. k # Lows => k + 1 \in 1 .. n
        BY <1>2, <2>0, <2>2
      <4> QED
        BY <1>5, <1>8, <3>3, <4>1
    <3>5. mm' = mm
      <4>1. CASE k = Lows
        BY <1>8, <3>2, <3>3, <4>1 DEF WriteLink
      <4>2. CASE k # Lows
        <5>1. k # n /\ tp.low = mm.free[k + 1]
          BY <1>2, <2>0, <2>2, <3>3, <4>2
        <5>2. tp.low \in Page /\ mm.pp_link[tp.low] = at
          BY <1>10, <5>1
        <5>3. mm' = [mm EXCEPT !.pp_link[tp.low] = at]
          BY <3>2, <5>2 DEF WriteLink
        <5> QED
          BY <1>1, <5>2, <5>3, LinkKept
      <4> QED
        BY <4>1, <4>2
    <3>6. tp'.low = mm.free[k] /\ tp'.high = tp.high /\ tp'.pp2 = tp.pp2
          /\ tp'.pp1 = mm.free[Lows]
      <4>1. /\ tp'.low = at /\ tp'.high = tp.high
            /\ tp'.pp2 = tp.pp2
            /\ tp'.pp1 = IF tp.low = PP1 THEN at ELSE tp.pp1
        BY <3>1, <3>2, <3>4 DEF WriteLink
      <4>2. CASE k = Lows
        BY <1>6, <3>3, <4>1, <4>2
      <4>3. CASE k # Lows
        <5>1. k + 1 \in 1 .. n /\ k < Lows
          BY <1>2, <2>0, <2>2, <4>3
        <5>2. tp.low # PP1
          BY <1>5, <1>8, <3>3, <4>3, <5>1
        <5> QED
          BY <1>6, <3>3, <4>1, <5>1, <5>2
      <4> QED
        BY <4>2, <4>3
    <3>7. (IF k - 1 < Lows THEN Lows ELSE k - 1) = Lows /\ ~(k - 1 >= Lows) /\ k - 1 + 1 = k
      BY <2>0, <2>2
    <3> QED
      BY <1>9, <2>0, <3>3, <3>5, <3>6, <3>7 DEF Walked
  <2> QED
    BY <2>0, <2>1, <2>2
<1>12. Reordering'
  <2>1. k - 1 \in 0 .. Listed(npages) /\ Listed(npages)' = Listed(npages)
    BY <1>0, <1>6, <1>7 DEF Listed, FirstFree
  <2>2. Counted(mm)' /\ OnlySelf(mm)' /\ ChainOK(mm)' /\ Ascending(mm, Listed(npages))'
    BY <1>0, <1>3, <1>7, <1>11 DEF Counted, OnlySelf, Ascending, Listed, FreePage, FirstFree, InUse
  <2> QED
    BY <1>11, <2>1, <2>2 DEF Reordering
<1> QED
  BY <1>1, <1>7, <1>11, <1>12 DEF MemInv, PCs, WritesOnlyMapped, FirstFree

LEMMA LowLastFacts ==
  ASSUME NEW f \in Seq(Page), NEW h \in 0 .. Len(f),
         \A i \in 1 .. Len(f) : IsLow(f[i]) <=> i <= h
  PROVE  /\ LowLast(f) \in Seq(Page) /\ Len(LowLast(f)) = Len(f)
         /\ \A i \in 1 .. Len(f) :
              LowLast(f)[i] = IF i <= Len(f) - h THEN f[h + i] ELSE f[i - (Len(f) - h)]
<1> DEFINE n == Len(f)
           a == SubSeq(f, h + 1, n)
           b == SubSeq(f, 1, h)
<1>1. n \in Nat /\ h \in Nat /\ h <= n
  OBVIOUS
<1>2. {i \in 1 .. n : IsLow(f[i])} = 1 .. h
  BY <1>1
<1>3. Cardinality(1 .. h) = h
  BY <1>1, FS_Interval
<1>4. LowLast(f) = a \o b
  BY <1>2, <1>3 DEF LowLast
<1>5. /\ a \in Seq(Page) /\ Len(a) = n - h /\ \A i \in 1 .. n - h : a[i] = f[h + i]
      /\ b \in Seq(Page) /\ Len(b) = h /\ \A i \in 1 .. h : b[i] = f[i]
  BY <1>1
<1> HIDE DEF a, b
<1>6. a \o b \in Seq(Page) /\ Len(a \o b) = n
      /\ \A i \in 1 .. n : (a \o b)[i] = IF i <= n - h THEN a[i] ELSE b[i - (n - h)]
  BY <1>1, <1>5
<1>7. \A i \in 1 .. n : (i <= n - h => i \in 1 .. n - h)
                        /\ (~(i <= n - h) => i - (n - h) \in 1 .. h)
  BY <1>1
<1> QED
  BY <1>4, <1>5, <1>6, <1>7

(* The links Join writes make the list of the high pages follow that of    *)
(* the low ones.                                                           *)
LEMMA JoinChain ==
  ASSUME NEW s \in MMType, ChainOK(s), NEW h \in 1 .. Len(s.free), NEW t \in MMType,
         Len(t.free) = Len(s.free),
         \A i \in 1 .. Len(s.free) :
           t.free[i] = IF i <= Len(s.free) - h THEN s.free[h + i]
                       ELSE s.free[i - (Len(s.free) - h)],
         t.page_free_list = s.free[h],
         \A p \in Page :
           t.pp_link[p] = IF p = s.free[1]
                          THEN IF h = Len(s.free) THEN NULL ELSE s.free[Len(s.free)]
                          ELSE IF h < Len(s.free) /\ p = s.free[h + 1] THEN NULL
                          ELSE s.pp_link[p]
  PROVE  /\ ChainOK(t)
         /\ \A p \in Page : IsFree(t, p) <=> IsFree(s, p)
<1>1. PICK n : n = Len(s.free)
  OBVIOUS
<1>2. n \in Nat /\ h \in Nat /\ 1 <= h /\ h <= n
  BY <1>1 DEF MMType
<1>3. \A i \in 1 .. n : s.free[i] \in Page
                        /\ s.pp_link[s.free[i]] = IF i = 1 THEN NULL ELSE s.free[i - 1]
  BY <1>1, ChainLinks
<1>4. \A i, j \in 1 .. n : s.free[i] = s.free[j] => i = j
  BY <1>1 DEF ChainOK
<1>5. /\ \A i \in 1 .. n : i <= n - h => t.free[i] = s.free[h + i]
      /\ \A i \in 1 .. n : ~(i <= n - h) => t.free[i] = s.free[i - (n - h)]
  BY <1>1
<1>6. \A i \in 1 .. n : t.pp_link[t.free[i]] = IF i = 1 THEN NULL ELSE t.free[i - 1]
  <2> SUFFICES ASSUME NEW i \in 1 .. n
               PROVE  t.pp_link[t.free[i]] = IF i = 1 THEN NULL ELSE t.free[i - 1]
    OBVIOUS
  <2>1. CASE i <= n - h
    <3>1. h + i \in 1 .. n /\ h + i # 1 /\ t.free[i] = s.free[h + i] /\ h < n
      BY <1>2, <1>5, <2>1
    <3>2. s.free[h + i] # s.free[1] /\ s.free[h + i] \in Page
      BY <1>2, <1>3, <1>4, <3>1
    <3>3. CASE i = 1
      BY <1>1, <1>3, <3>1, <3>2, <3>3
    <3>4. CASE i # 1
      <4>1. h + 1 \in 1 .. n /\ h + i # h + 1 /\ i - 1 \in 1 .. n /\ i - 1 <= n - h
            /\ h + (i - 1) = h + i - 1
        BY <1>2, <2>1, <3>1, <3>4
      <4>2. s.free[h + i] # s.free[h + 1]
        BY <1>4, <3>1, <4>1
      <4>3. t.pp_link[t.free[i]] = s.pp_link[s.free[h + i]]
        BY <1>1, <3>1, <3>2, <4>2
      <4>4. s.pp_link[s.free[h + i]] = s.free[h + i - 1]
        BY <1>3, <3>1
      <4>5. t.free[i - 1] = s.free[h + i - 1]
        BY <1>5, <4>1
      <4> QED
        BY <3>4, <4>3, <4>4, <4>5
    <3> QED
      BY <3>3, <3>4
  <2>2. CASE ~(i <= n - h)
    <3>1. PICK q : q = i - (n - h)
      OBVIOUS
    <3>2. q \in 1 .. h /\ q \in 1 .. n /\ t.free[i] = s.free[q]
      BY <1>2, <1>5, <2>2, <3>1
    <3>3. CASE q = 1
      <4>1. t.pp_link[t.free[i]] = IF h = n THEN NULL ELSE s.free[n]
        BY <1>1, <1>3, <3>2, <3>3
      <4>2. CASE h = n
        BY <1>2, <3>1, <3>3, <4>1, <4>2
      <4>3. CASE h # n
        <5>1. i - 1 \in 1 .. n /\ i - 1 <= n - h /\ h + (i - 1) = n /\ i # 1
          BY <1>2, <3>1, <3>3, <4>3
        <5> QED
          BY <1>5, <4>1, <4>3, <5>1
      <4> QED
        BY <4>2, <4>3
    <3>4. CASE q # 1
      <4>1. i - 1 \in 1 .. n /\ ~(i - 1 <= n - h) /\ i - 1 - (n - h) = q - 1 /\ i # 1
        BY <1>2, <2>2, <3>1, <3>2, <3>4
      <4>2. s.free[q] # s.free[1] /\ (h < n => s.free[q] # s.free[h + 1])
            /\ s.free[q] \in Page
        BY <1>2, <1>3, <1>4, <3>2, <3>4
      <4>3. t.pp_link[t.free[i]] = s.pp_link[s.free[q]]
        BY <1>1, <3>2, <4>2
      <4>4. s.pp_link[s.free[q]] = s.free[q - 1]
        BY <1>3, <3>2, <3>4
      <4> QED
        BY <1>5, <4>1, <4>3, <4>4
    <3> QED
      BY <3>3, <3>4
  <2> QED
    BY <2>1, <2>2
<1>7. \A i, j \in 1 .. n : t.free[i] = t.free[j] => i = j
  <2>1. PICK m : m = [i \in 1 .. n |-> IF i <= n - h THEN h + i ELSE i - (n - h)]
    OBVIOUS
  <2>2. \A i \in 1 .. n : m[i] \in 1 .. n /\ t.free[i] = s.free[m[i]]
    BY <1>2, <1>5, <2>1
  <2>3. \A i, j \in 1 .. n : m[i] = m[j] => i = j
    <3>1. n \in Nat /\ h \in 0 .. n
      BY <1>2
    <3>2. ASSUME NEW i \in 1 .. n
          PROVE  m[i] = IF i <= n - h THEN h + i ELSE i - (n - h)
      BY <2>1
    <3> SUFFICES ASSUME NEW i \in 1 .. n, NEW j \in 1 .. n, m[i] = m[j] PROVE i = j
      OBVIOUS
    <3>5. PICK x, y : x = m[i] /\ y = m[j] /\ x = y
      OBVIOUS
    <3>6. (x = IF i <= n - h THEN h + i ELSE i - (n - h))
          /\ (y = IF j <= n - h THEN h + j ELSE j - (n - h))
      BY <3>2, <3>5
    <3> QED
      BY <3>1, <3>5, <3>6
  <2> SUFFICES ASSUME NEW i \in 1 .. n, NEW j \in 1 .. n, t.free[i] = t.free[j] PROVE i = j
    OBVIOUS
  <2>4. m[i] \in 1 .. n /\ m[j] \in 1 .. n /\ s.free[m[i]] = s.free[m[j]]
    BY <2>2
  <2> QED
    BY <1>4, <2>3, <2>4
<1>8. \A p \in Page : IsFree(t, p) <=> IsFree(s, p)
  <2>1. ASSUME NEW i \in 1 .. n PROVE \E j \in 1 .. n : t.free[i] = s.free[j]
    <3>1. CASE i <= n - h
      <4>1. h + i \in 1 .. n
        BY <1>2, <3>1
      <4> QED
        BY <1>5, <3>1, <4>1
    <3>2. CASE ~(i <= n - h)
      <4>1. i - (n - h) \in 1 .. n
        BY <1>2, <3>2
      <4> QED
        BY <1>5, <3>2, <4>1
    <3> QED
      BY <3>1, <3>2
  <2>2. ASSUME NEW i \in 1 .. n PROVE \E j \in 1 .. n : t.free[j] = s.free[i]
    <3>1. CASE i <= h
      <4>0. PICK j : j = i + (n - h)
        OBVIOUS
      <4>1. j \in 1 .. n /\ ~(j <= n - h) /\ j - (n - h) = i
        BY <1>2, <3>1, <4>0
      <4> QED
        BY <1>5, <4>1
    <3>2. CASE ~(i <= h)
      <4>1. i - h \in 1 .. n /\ i - h <= n - h /\ h + (i - h) = i
        BY <1>2, <3>2
      <4> QED
        BY <1>5, <4>1
    <3> QED
      BY <3>1, <3>2
  <2>3. Len(t.free) = n /\ Len(s.free) = n
    BY <1>1
  <2>4. ASSUME NEW p \in Page PROVE IsFree(t, p) => IsFree(s, p)
    <3> SUFFICES ASSUME IsFree(t, p) PROVE IsFree(s, p)
      OBVIOUS
    <3>1. PICK i \in 1 .. n : t.free[i] = p
      BY <2>3 DEF IsFree
    <3>2. PICK j \in 1 .. n : t.free[i] = s.free[j]
      BY <2>1
    <3> QED
      BY <2>3, <3>1, <3>2 DEF IsFree
  <2>5. ASSUME NEW p \in Page PROVE IsFree(s, p) => IsFree(t, p)
    <3> SUFFICES ASSUME IsFree(s, p) PROVE IsFree(t, p)
      OBVIOUS
    <3>1. PICK i \in 1 .. n : s.free[i] = p
      BY <2>3 DEF IsFree
    <3>2. PICK j \in 1 .. n : t.free[j] = s.free[i]
      BY <2>2
    <3> QED
      BY <2>3, <3>1, <3>2 DEF IsFree
  <2> QED
    BY <2>4, <2>5
<1>9. \A p \in Page : ~IsFree(t, p) => t.pp_link[p] = NULL
  <2> SUFFICES ASSUME NEW p \in Page, ~IsFree(t, p) PROVE t.pp_link[p] = NULL
    OBVIOUS
  <2>1. ~IsFree(s, p)
    BY <1>8
  <2>2. s.pp_link[p] = NULL
    BY <2>1 DEF ChainOK
  <2>3. p # s.free[1]
    BY <1>1, <1>2, <2>1 DEF IsFree
  <2> QED
    BY <2>2, <2>3
<1>10. t.page_free_list = t.free[n] /\ n # 0
  <2>1. n \in 1 .. n /\ ~(n <= n - h) /\ n - (n - h) = h
    BY <1>2
  <2> QED
    BY <1>2, <1>5, <2>1
<1> QED
  BY <1>1, <1>6, <1>7, <1>8, <1>9, <1>10 DEF ChainOK

LEMMA JoinStep ==
  ASSUME MemInv, mm.status = "run", Join
  PROVE  MemInv'
<1>1. machine \in Layouts /\ mm \in MMType /\ nextfree = FirstFree /\ Reordering
      /\ pages = machine.end + 1
  BY DEF MemInv, Join
<1>0. PICK n, h : n = Listed(npages) /\ h = Lows
  OBVIOUS
<1>2. n \in Nat /\ h \in 0 .. n /\ (\A i \in 1 .. n : IsLow(FreePage(i)) <=> i <= h)
      /\ KernTables + 2 <= h /\ KernTables \in Nat
  BY <1>0, <1>1, AllListed, LowsFacts, MachineFacts
<1>3. OnlySelf(mm) /\ Counted(mm) /\ ChainOK(mm) /\ Ascending(mm, n)
  BY <1>0, <1>1 DEF Reordering
<1>4. PICK k \in 0 .. n : Walked(k, h)
  BY <1>0, <1>1 DEF Reordering
<1>5. mm.free \in Seq(Page) /\ Len(mm.free) = n /\ h \in 1 .. n
      /\ (\A i \in 1 .. n : IsLow(mm.free[i]) <=> i <= h)
      /\ (\A i \in 1 .. n : mm.free[i] \in Page /\ mm.free[i] # NULL)
      /\ (\A i, j \in 1 .. n : mm.free[i] = mm.free[j] => i = j)
  <2>1. mm.free \in Seq(Page) /\ Len(mm.free) = n
    BY <1>1, <1>3 DEF Ascending, MMType
  <2>2. h \in 1 .. n
    BY <1>2
  <2>3. \A i \in 1 .. n : IsLow(mm.free[i]) <=> i <= h
    BY <1>2, <1>3 DEF Ascending
  <2>4. \A i \in 1 .. n : mm.free[i] \in Page /\ mm.free[i] # NULL
    BY <1>1, <1>3, <2>1, ChainLinks
  <2>5. \A i, j \in 1 .. n : mm.free[i] = mm.free[j] => i = j
    BY <1>3, <2>1 DEF ChainOK
  <2> QED
    BY <2>1, <2>2, <2>3, <2>4, <2>5
<1>6. k = 0
  BY <1>4, <1>5 DEF Walked, Join
<1>7. /\ tp.high = IF h = n THEN PP2 ELSE mm.free[h + 1]
      /\ h < n => tp.pp2 = mm.free[n]
      /\ tp.low = mm.free[1] /\ tp.pp1 = mm.free[h]
  BY <1>2, <1>4, <1>5, <1>6 DEF Walked
<1>8. PP1 \notin Page /\ PP2 \notin Page /\ PP1 # PP2
  BY PagesAssumption DEF PP1, PP2, Page
<1>9. PICK pp2 : pp2 = IF h = n THEN NULL ELSE mm.free[n]
  OBVIOUS
<1>10. (IF tp.high = PP2 THEN NULL ELSE tp.pp2) = pp2 /\ tp.low \in Page /\ tp.low # PP1
       /\ pp2 \in Page \cup {NULL}
  <2>1. 1 \in 1 .. n /\ n \in 1 .. n /\ (h # n => h + 1 \in 1 .. n /\ h < n)
    BY <1>2, <1>5
  <2> QED
    BY <1>5, <1>7, <1>8, <1>9, <2>1
<1>11. PICK L : L = SetLink(SetLink(mm.pp_link, tp.high, NULL), tp.low, pp2)
  OBVIOUS
<1>12. /\ pc' = "fill" /\ machine' = machine /\ nextfree' = nextfree /\ pages' = pages
       /\ touched' = {} /\ at' = mm.free[h]
       /\ mm' = [mm EXCEPT !.pp_link = L, !.page_free_list = mm.free[h], !.free = LowLast(@)]
  BY <1>7, <1>10, <1>11 DEF Join
<1>13. /\ L \in [Page -> Page \cup {NULL}]
       /\ \A p \in Page :
            L[p] = IF p = mm.free[1] THEN pp2
                   ELSE IF h < n /\ p = mm.free[h + 1] THEN NULL ELSE mm.pp_link[p]
  <2>1. mm.pp_link \in [Page -> Page \cup {NULL}]
    BY <1>1 DEF MMType
  <2>2. CASE h = n
    <3>1. PICK a \in Page : a = mm.free[1]
      BY <1>7, <1>10
    <3>2. L = [mm.pp_link EXCEPT ![a] = pp2]
      BY <1>7, <1>8, <1>10, <1>11, <2>2, <3>1 DEF SetLink
    <3>3. /\ L \in [Page -> Page \cup {NULL}]
          /\ \A p \in Page : L[p] = IF p = a THEN pp2 ELSE mm.pp_link[p]
      BY <1>10, <2>1, <3>2
    <3>4. ~(h < n)
      BY <1>2, <2>2
    <3> QED
      BY <3>1, <3>3, <3>4
  <2>3. CASE h # n
    <3>1. h + 1 \in 1 .. n /\ h < n
      BY <1>2, <2>3
    <3>2. tp.high = mm.free[h + 1] /\ tp.high \in Page
      BY <1>5, <1>7, <2>3, <3>1
    <3>3. L = [[mm.pp_link EXCEPT ![mm.free[h + 1]] = NULL] EXCEPT ![mm.free[1]] = pp2]
      BY <1>7, <1>10, <1>11, <3>2 DEF SetLink
    <3>4. mm.free[1] \in Page /\ mm.free[h + 1] \in Page /\ pp2 \in Page \cup {NULL}
      BY <1>7, <1>10, <3>2
    <3>5. PICK a, b \in Page : a = mm.free[1] /\ b = mm.free[h + 1]
      BY <3>4
    <3>6. L = [[mm.pp_link EXCEPT ![b] = NULL] EXCEPT ![a] = pp2]
      BY <3>3, <3>5
    <3>7. /\ L \in [Page -> Page \cup {NULL}]
          /\ \A p \in Page : L[p] = IF p = a THEN pp2 ELSE IF p = b THEN NULL ELSE mm.pp_link[p]
      BY <2>1, <3>4, <3>5, <3>6
    <3> QED
      BY <3>1, <3>5, <3>7
  <2> QED
    BY <2>2, <2>3
<1>14. /\ LowLast(mm.free) \in Seq(Page) /\ Len(LowLast(mm.free)) = n
       /\ \A i \in 1 .. n :
            LowLast(mm.free)[i] = IF i <= n - h THEN mm.free[h + i] ELSE mm.free[i - (n - h)]
  BY <1>2, <1>5, LowLastFacts
<1>15. /\ mm' \in MMType /\ mm'.free = LowLast(mm.free) /\ mm'.pp_link = L
       /\ mm'.page_free_list = mm.free[h] /\ mm'.pp_ref = mm.pp_ref
       /\ mm'.pgdir = mm.pgdir /\ mm'.status = "run"
  <2>1. mm.free[h] \in Page
    BY <1>5
  <2> QED
    BY <1>1, <1>12, <1>13, <1>14, <2>1 DEF MMType
<1>16. ChainOK(mm') /\ \A p \in Page : IsFree(mm', p) <=> IsFree(mm, p)
  <2>1. PICK t \in MMType : t = mm'
    BY <1>15
  <2>2. h \in 1 .. Len(mm.free) /\ Len(t.free) = Len(mm.free) /\ t.page_free_list = mm.free[h]
    BY <1>5, <1>14, <1>15, <2>1
  <2>3. \A i \in 1 .. Len(mm.free) :
          t.free[i] = IF i <= Len(mm.free) - h THEN mm.free[h + i]
                      ELSE mm.free[i - (Len(mm.free) - h)]
    BY <1>5, <1>14, <1>15, <2>1
  <2>4. \A p \in Page :
          t.pp_link[p] = IF p = mm.free[1]
                         THEN IF h = Len(mm.free) THEN NULL ELSE mm.free[Len(mm.free)]
                         ELSE IF h < Len(mm.free) /\ p = mm.free[h + 1] THEN NULL
                         ELSE mm.pp_link[p]
    BY <1>5, <1>9, <1>13, <1>15, <2>1
  <2>5. ChainOK(t) /\ \A p \in Page : IsFree(t, p) <=> IsFree(mm, p)
    BY <1>1, <1>3, <2>2, <2>3, <2>4, JoinChain
  <2> QED
    BY <2>1, <2>5
<1>17. LowTop(mm, KernTables + 2)'
  <2>1. ASSUME NEW i \in n - (KernTables + 2) + 1 .. n PROVE IsLow(mm'.free[i])
    <3>1. i \in 1 .. n /\ ~(i <= n - h) /\ i - (n - h) \in 1 .. n /\ i - (n - h) <= h
      BY <1>2
    <3> QED
      BY <1>5, <1>14, <1>15, <3>1
  <2> QED
    BY <1>2, <1>14, <1>15, <2>1 DEF LowTop, IsLow
<1>18. Steady(mm)'
  <2>1. OnlySelf(mm)'
    BY <1>3, <1>12, <1>15 DEF OnlySelf
  <2>2. Counted(mm)'
    BY <1>3, <1>12, <1>15, <1>16 DEF Counted, InUse, IsTable
  <2> QED
    BY <1>16, <1>17, <2>1, <2>2 DEF Steady
<1>19. at' \in Page \cup {NULL}
  BY <1>5, <1>12
<1> QED
  BY <1>1, <1>12, <1>15, <1>18, <1>19 DEF MemInv, PCs, WritesOnlyMapped, FirstFree

LEMMA OnlyTable ==
  ASSUME NEW s \in MMType, OnlySelf(s), NEW p \in Page
  PROVE  IsTable(s, p) => p = machine.end
BY KernFacts, PagesAssumption DEF IsTable, OnlySelf

(* The fill of the free pages that are mapped.                             *)
LEMMA FillStep ==
  ASSUME MemInv, mm.status = "run", Fill
  PROVE  MemInv'
<1>1. machine \in Layouts /\ mm \in MMType /\ nextfree = FirstFree /\ Steady(mm)
      /\ pages = machine.end + 1 /\ at \in Page \cup {NULL}
  BY DEF MemInv, Fill
<1>2. /\ machine' = machine /\ nextfree' = nextfree /\ pages' = pages
      /\ touched' \subseteq {p \in {at} : IsLow(p)}
  BY DEF Fill
<1>3. /\ mm' \in MMType /\ mm'.pgdir = mm.pgdir /\ mm'.pp_ref = mm.pp_ref
      /\ mm'.free = mm.free /\ mm'.pp_link = mm.pp_link
      /\ mm'.page_free_list = mm.page_free_list /\ mm'.status = "run"
  <2>1. CASE mm' = mm
    BY <1>1, <2>1
  <2>2. CASE at \in Page /\ mm' = [mm EXCEPT !.mem[at] = Scribbled]
    <3>1. Scribbled \in [PTX -> Entry]
      BY JunkType DEF Scribbled
    <3> QED
      BY <1>1, <2>2, <3>1 DEF MMType
  <2> QED
    BY <1>1, <2>1, <2>2 DEF Fill, Scribble
<1>4. Steady(mm)'
  BY SMTT(30), <1>1, <1>2, <1>3 DEF Steady, OnlySelf, Counted, ChainOK, LowTop, IsFree, IsTable, InUse, IsLow
<1>5. (pc' = "fill" /\ at' \in Page \cup {NULL}) \/ pc' = "check"
  <2>1. at # NULL => mm.pp_link[at] \in Page \cup {NULL}
    BY <1>1 DEF MMType
  <2> QED
    BY <2>1 DEF Fill
<1>6. WritesOnlyMapped'
  BY <1>2 DEF WritesOnlyMapped, IsLow
<1> QED
  BY <1>1, <1>2, <1>3, <1>4, <1>5, <1>6 DEF MemInv, PCs, FirstFree

(* The pages page_init counted are not on the list, and those behind and   *)
(* below them are.                                                         *)
LEMMA CheckFreeListStep ==
  ASSUME MemInv, mm.status = "run", CheckFreeList
  PROVE  MemInv'
<1>1. machine \in Layouts /\ mm \in MMType /\ nextfree = FirstFree /\ Steady(mm)
      /\ pages = machine.end + 1
  BY DEF MemInv, CheckFreeList
<1>2. /\ machine.io \in Nat /\ machine.ext \in Nat /\ machine.end \in Nat /\ machine.io > 1
      /\ machine.io < machine.ext /\ machine.ext <= machine.end /\ machine.end < FirstFree
      /\ FirstFree \in Nat /\ FirstFree + 1 < npages /\ npages \in Nat
  BY <1>1, MachineFacts
<1>3. OnlySelf(mm) /\ Counted(mm)
  BY <1>1 DEF Steady
<1>4. ASSUME NEW p \in Page, IsFree(mm, p)
      PROVE  /\ p \notin {0, machine.io, machine.ext - 1, machine.ext}
             /\ p < machine.ext \/ p >= nextfree
  <2>1. ~InUse(p)
    BY <1>3, <1>4 DEF Counted
  <2>2. p \in Nat
    BY <1>2 DEF Page
  <2>3. p # 0 /\ (p < machine.io \/ p > FirstFree)
    BY <1>1, <1>2, <2>1, <2>2, InUseFacts
  <2> QED
    BY <1>1, <1>2, <2>2, <2>3
<1>5. ASSUME NEW p \in Page, ~InUse(p), p # machine.end
      PROVE  IsFree(mm, p)
  BY <1>1, <1>3, <1>5, OnlyTable DEF Counted
<1>6. 1 \in Page /\ ~InUse(1) /\ 1 # machine.end /\ 1 < machine.ext
  BY <1>1, <1>2 DEF InUse, Page
<1>7. FirstFree + 1 \in Page /\ ~InUse(FirstFree + 1) /\ FirstFree + 1 # machine.end
      /\ FirstFree + 1 >= machine.ext
  BY <1>1, <1>2 DEF InUse, Page
<1>8. mm' = mm
  BY <1>4, <1>5, <1>6, <1>7 DEF CheckFreeList
<1>9. pc' = "check_page_alloc" /\ machine' = machine /\ nextfree' = nextfree /\ pages' = pages
      /\ touched' = {}
  BY DEF CheckFreeList
<1>10. Steady(mm)'
  BY <1>1, <1>8, <1>9 DEF Steady, OnlySelf, Counted, ChainOK, LowTop, IsFree, IsTable, InUse, IsLow
<1> QED
  BY <1>1, <1>8, <1>9, <1>10 DEF MemInv, PCs, WritesOnlyMapped, FirstFree

-----------------------------------------------------------------------------
(* The pages check_page_alloc and check_page take and give back.           *)

(* t is s without the last three pages of its list.                        *)
Without3(s, t, a, b, c) ==
  /\ t \in MMType /\ ChainOK(t)
  /\ {a, b, c} \subseteq Page /\ a # b /\ a # c /\ b # c
  /\ IsFree(s, a) /\ IsFree(s, b) /\ IsFree(s, c)
  /\ \A p \in Page : IsFree(t, p) <=> IsFree(s, p) /\ p \notin {a, b, c}
  /\ t.pp_ref = s.pp_ref /\ t.pgdir = s.pgdir /\ t.mem = s.mem /\ t.status = s.status

LEMMA ThreeElements ==
  ASSUME NEW a, NEW b, NEW c, a # b, a # c, b # c
  PROVE  Cardinality({a, b, c}) = 3
<1>1. IsFiniteSet({a}) /\ Cardinality({a}) = 1
  BY FS_Singleton
<1>2. IsFiniteSet({a} \cup {b}) /\ Cardinality({a} \cup {b}) = Cardinality({a}) + 1
  <2>1. b \notin {a}
    OBVIOUS
  <2> QED
    BY <1>1, <2>1, FS_AddElement
<1>3. Cardinality(({a} \cup {b}) \cup {c}) = Cardinality({a} \cup {b}) + 1
  <2>1. c \notin {a} \cup {b}
    OBVIOUS
  <2> QED
    BY <1>2, <2>1, FS_AddElement
<1>4. {a, b, c} = ({a} \cup {b}) \cup {c}
  OBVIOUS
<1>5. (1 + 1) + 1 = 3
  OBVIOUS
<1> QED
  BY <1>1, <1>2, <1>3, <1>4, <1>5

LEMMA Alloc3 ==
  ASSUME NEW s \in MMType, ChainOK(s), NEW n \in Nat, n = Len(s.free), n > 2
  PROVE  LET a0 == page_alloc(s, 0)
             a1 == page_alloc(a0.st, 0)
             a2 == page_alloc(a1.st, 0)
         IN  /\ Without3(s, a2.st, a0.pp, a1.pp, a2.pp)
             /\ a0.pp = s.free[n] /\ a1.pp = s.free[n - 1] /\ a2.pp = s.free[n - 2]
             /\ Len(a2.st.free) = n - 3 /\ \A i \in 1 .. n - 3 : a2.st.free[i] = s.free[i]
             /\ NULL \notin {a0.pp, a1.pp, a2.pp} /\ Cardinality({a0.pp, a1.pp, a2.pp}) = 3
<1>0. PICK a0, a1, a2 :
        a0 = page_alloc(s, 0) /\ a1 = page_alloc(a0.st, 0) /\ a2 = page_alloc(a1.st, 0)
  OBVIOUS
<1>1. PICK s0, s1, s2 : s0 = a0.st /\ s1 = a1.st /\ s2 = a2.st
  OBVIOUS
<1>2. /\ a0.pp = s.free[n] /\ a0.pp \in Page /\ IsFree(s, a0.pp) /\ a0.pp # NULL
      /\ s0 \in MMType /\ ChainOK(s0)
      /\ Len(s0.free) = n - 1 /\ (\A i \in 1 .. n - 1 : s0.free[i] = s.free[i])
      /\ (\A p \in Page : IsFree(s0, p) <=> IsFree(s, p) /\ p # a0.pp)
      /\ s0.pp_ref = s.pp_ref /\ s0.pgdir = s.pgdir /\ s0.mem = s.mem /\ s0.status = s.status
  BY <1>0, <1>1, AllocTop
<1>3. /\ a1.pp = s0.free[n - 1] /\ a1.pp \in Page /\ IsFree(s0, a1.pp) /\ a1.pp # NULL
      /\ s1 \in MMType /\ ChainOK(s1)
      /\ Len(s1.free) = n - 2 /\ (\A i \in 1 .. n - 2 : s1.free[i] = s0.free[i])
      /\ (\A p \in Page : IsFree(s1, p) <=> IsFree(s0, p) /\ p # a1.pp)
      /\ s1.pp_ref = s0.pp_ref /\ s1.pgdir = s0.pgdir /\ s1.mem = s0.mem /\ s1.status = s0.status
  <2>1. PICK m \in Nat : m = n - 1
    OBVIOUS
  <2>2. m = Len(s0.free) /\ m > 0 /\ m - 1 = n - 2
    BY <1>2, <2>1
  <2>3. a1 = page_alloc(s0, 0) /\ s0 \in MMType /\ ChainOK(s0)
    BY <1>0, <1>1, <1>2
  <2>4. /\ a1.pp = s0.free[m] /\ a1.pp \in Page /\ IsFree(s0, a1.pp) /\ a1.pp # NULL
        /\ a1.st \in MMType /\ ChainOK(a1.st)
        /\ Len(a1.st.free) = m - 1 /\ (\A i \in 1 .. m - 1 : a1.st.free[i] = s0.free[i])
        /\ (\A p \in Page : IsFree(a1.st, p) <=> IsFree(s0, p) /\ p # a1.pp)
        /\ a1.st.pp_ref = s0.pp_ref /\ a1.st.pgdir = s0.pgdir
        /\ a1.st.mem = s0.mem /\ a1.st.status = s0.status
    BY <2>2, <2>3, AllocTop
  <2> QED
    BY <1>1, <2>1, <2>2, <2>4
<1>4. /\ a2.pp = s1.free[n - 2] /\ a2.pp \in Page /\ IsFree(s1, a2.pp) /\ a2.pp # NULL
      /\ s2 \in MMType /\ ChainOK(s2)
      /\ Len(s2.free) = n - 3 /\ (\A i \in 1 .. n - 3 : s2.free[i] = s1.free[i])
      /\ (\A p \in Page : IsFree(s2, p) <=> IsFree(s1, p) /\ p # a2.pp)
      /\ s2.pp_ref = s1.pp_ref /\ s2.pgdir = s1.pgdir /\ s2.mem = s1.mem /\ s2.status = s1.status
  <2>1. PICK m \in Nat : m = n - 2
    OBVIOUS
  <2>2. m = Len(s1.free) /\ m > 0 /\ m - 1 = n - 3
    BY <1>3, <2>1
  <2>3. a2 = page_alloc(s1, 0) /\ s1 \in MMType /\ ChainOK(s1)
    BY <1>0, <1>1, <1>3
  <2>4. /\ a2.pp = s1.free[m] /\ a2.pp \in Page /\ IsFree(s1, a2.pp) /\ a2.pp # NULL
        /\ a2.st \in MMType /\ ChainOK(a2.st)
        /\ Len(a2.st.free) = m - 1 /\ (\A i \in 1 .. m - 1 : a2.st.free[i] = s1.free[i])
        /\ (\A p \in Page : IsFree(a2.st, p) <=> IsFree(s1, p) /\ p # a2.pp)
        /\ a2.st.pp_ref = s1.pp_ref /\ a2.st.pgdir = s1.pgdir
        /\ a2.st.mem = s1.mem /\ a2.st.status = s1.status
    BY <2>2, <2>3, AllocTop
  <2> QED
    BY <1>1, <2>1, <2>2, <2>4
<1>5. a0.pp # a1.pp /\ a0.pp # a2.pp /\ a1.pp # a2.pp
  BY <1>2, <1>3, <1>4
<1>6. Without3(s, a2.st, a0.pp, a1.pp, a2.pp)
  BY <1>1, <1>2, <1>3, <1>4, <1>5 DEF Without3
<1>7. a1.pp = s.free[n - 1] /\ a2.pp = s.free[n - 2]
      /\ \A i \in 1 .. n - 3 : s2.free[i] = s.free[i]
  <2>1. n - 1 \in 1 .. n - 1 /\ n - 2 \in 1 .. n - 1 /\ n - 2 \in 1 .. n - 2
        /\ 1 .. n - 3 \subseteq 1 .. n - 2 /\ 1 .. n - 2 \subseteq 1 .. n - 1
    OBVIOUS
  <2> QED
    BY ZenonT(30), <1>2, <1>3, <1>4, <2>1
<1>8. Cardinality({a0.pp, a1.pp, a2.pp}) = 3
  BY <1>5, ThreeElements
<1>9. NULL \notin {a0.pp, a1.pp, a2.pp} /\ Len(a2.st.free) = n - 3
      /\ \A i \in 1 .. n - 3 : a2.st.free[i] = s.free[i]
  BY <1>1, <1>2, <1>3, <1>4, <1>7
<1> QED
  BY <1>0, <1>2, <1>6, <1>7, <1>8, <1>9

(* Three free pages are given back one after the other.                    *)
LEMMA GiveBack3 ==
  ASSUME NEW s \in MMType, ChainOK(s), NEW a \in Page, NEW b \in Page, NEW c \in Page,
         a # b, a # c, b # c, ~IsFree(s, a), ~IsFree(s, b), ~IsFree(s, c),
         s.pp_ref[a] = 0, s.pp_ref[b] = 0, s.pp_ref[c] = 0,
         NEW n \in Nat, n = Len(s.free)
  PROVE  LET t == Free3(s, a, b, c)
         IN  /\ t \in MMType /\ ChainOK(t)
             /\ Len(t.free) = n + 3 /\ (\A i \in 1 .. n : t.free[i] = s.free[i])
             /\ t.free[n + 1] = a /\ t.free[n + 2] = b /\ t.free[n + 3] = c
             /\ \A p \in Page : IsFree(t, p) <=> IsFree(s, p) \/ p \in {a, b, c}
             /\ t.pp_ref = s.pp_ref /\ t.pgdir = s.pgdir /\ t.mem = s.mem /\ t.status = s.status
<1>1. PICK s0, s1, s2 : s0 = page_free(s, a) /\ s1 = page_free(s0, b) /\ s2 = page_free(s1, c)
  OBVIOUS
<1>2. /\ s0 \in MMType /\ ChainOK(s0)
      /\ Len(s0.free) = n + 1 /\ s0.free[n + 1] = a
      /\ (\A i \in 1 .. n : s0.free[i] = s.free[i])
      /\ (\A p \in Page : IsFree(s0, p) <=> IsFree(s, p) \/ p = a)
      /\ s0.pp_ref = s.pp_ref /\ s0.pgdir = s.pgdir /\ s0.mem = s.mem
      /\ s0.status = s.status
  BY <1>1, FreeTop
<1>3. /\ s1 \in MMType /\ ChainOK(s1)
      /\ Len(s1.free) = n + 2 /\ s1.free[n + 2] = b
      /\ (\A i \in 1 .. n + 1 : s1.free[i] = s0.free[i])
      /\ (\A p \in Page : IsFree(s1, p) <=> IsFree(s0, p) \/ p = b)
      /\ s1.pp_ref = s0.pp_ref /\ s1.pgdir = s0.pgdir /\ s1.mem = s0.mem
      /\ s1.status = s0.status
  <2>1. PICK m \in Nat : m = n + 1
    OBVIOUS
  <2>2. m = Len(s0.free) /\ m + 1 = n + 2
    BY <1>2, <2>1
  <2>3. s1 = page_free(s0, b) /\ s0 \in MMType /\ ChainOK(s0)
        /\ ~IsFree(s0, b) /\ s0.pp_ref[b] = 0
    BY <1>1, <1>2
  <2>4. /\ s1 \in MMType /\ ChainOK(s1)
        /\ Len(s1.free) = m + 1 /\ s1.free[m + 1] = b
        /\ (\A i \in 1 .. m : s1.free[i] = s0.free[i])
        /\ (\A p \in Page : IsFree(s1, p) <=> IsFree(s0, p) \/ p = b)
        /\ s1.pp_ref = s0.pp_ref /\ s1.pgdir = s0.pgdir /\ s1.mem = s0.mem
        /\ s1.status = s0.status
    BY <2>2, <2>3, FreeTop
  <2> QED
    BY <2>1, <2>2, <2>4
<1>4. /\ s2 \in MMType /\ ChainOK(s2)
      /\ Len(s2.free) = n + 3 /\ s2.free[n + 3] = c
      /\ (\A i \in 1 .. n + 2 : s2.free[i] = s1.free[i])
      /\ (\A p \in Page : IsFree(s2, p) <=> IsFree(s1, p) \/ p = c)
      /\ s2.pp_ref = s1.pp_ref /\ s2.pgdir = s1.pgdir /\ s2.mem = s1.mem
      /\ s2.status = s1.status
  <2>1. PICK m \in Nat : m = n + 2
    OBVIOUS
  <2>2. m = Len(s1.free) /\ m + 1 = n + 3
    BY <1>3, <2>1
  <2>3. s2 = page_free(s1, c) /\ s1 \in MMType /\ ChainOK(s1)
        /\ ~IsFree(s1, c) /\ s1.pp_ref[c] = 0
    BY <1>1, <1>2, <1>3
  <2>4. /\ s2 \in MMType /\ ChainOK(s2)
        /\ Len(s2.free) = m + 1 /\ s2.free[m + 1] = c
        /\ (\A i \in 1 .. m : s2.free[i] = s1.free[i])
        /\ (\A p \in Page : IsFree(s2, p) <=> IsFree(s1, p) \/ p = c)
        /\ s2.pp_ref = s1.pp_ref /\ s2.pgdir = s1.pgdir /\ s2.mem = s1.mem
        /\ s2.status = s1.status
    BY <2>2, <2>3, FreeTop
  <2> QED
    BY <2>1, <2>2, <2>4
<1>5. /\ \A i \in 1 .. n : s2.free[i] = s.free[i]
      /\ s2.free[n + 1] = a /\ s2.free[n + 2] = b
  <2>1. 1 .. n \subseteq 1 .. n + 1 /\ 1 .. n \subseteq 1 .. n + 2
        /\ n + 1 \in 1 .. n + 1 /\ n + 1 \in 1 .. n + 2 /\ n + 2 \in 1 .. n + 2
    OBVIOUS
  <2> QED
    BY ZenonT(30), <1>2, <1>3, <1>4, <2>1
<1>6. s2 = Free3(s, a, b, c)
  BY <1>1 DEF Free3
<1>7. \A p \in Page : IsFree(s2, p) <=> IsFree(s, p) \/ p \in {a, b, c}
  BY <1>2, <1>3, <1>4
<1>8. /\ s2.pp_ref = s.pp_ref /\ s2.pgdir = s.pgdir /\ s2.mem = s.mem /\ s2.status = s.status
  BY <1>2, <1>3, <1>4
<1> QED
  BY <1>4, <1>5, <1>6, <1>7, <1>8

(* Three pages put on an empty list come back, the last one cleared when   *)
(* the caller asks for it.                                                 *)
CameBack(s, a, b, c, b0, b1, b2, z) ==
  /\ b0.pp = c /\ b1.pp = b /\ b2.pp = a /\ page_alloc(b2.st, 0).pp = NULL /\ z.pp = c
  /\ z.st \in MMType /\ z.st.pp_link = s.pp_link /\ z.st.mem = [s.mem EXCEPT ![c] = Zeros]
  /\ z.st.pp_ref = s.pp_ref /\ z.st.pgdir = s.pgdir /\ z.st.status = s.status

LEMMA RoundTrip ==
  ASSUME NEW s \in MMType, s.page_free_list = NULL,
         NEW a \in Page, NEW b \in Page, NEW c \in Page, a # b, a # c, b # c,
         s.pp_ref[a] = 0, s.pp_ref[b] = 0, s.pp_ref[c] = 0,
         s.pp_link[a] = NULL, s.pp_link[b] = NULL, s.pp_link[c] = NULL
  PROVE  LET b0 == page_alloc(Free3(s, a, b, c), 0)
             b1 == page_alloc(b0.st, 0)
             b2 == page_alloc(b1.st, 0)
         IN  CameBack(s, a, b, c, b0, b1, b2,
                      page_alloc(page_free(Scribble(b2.st, b0.pp), b0.pp), 1))
<1>0. PICK b0, b1, b2, z :
        /\ b0 = page_alloc(Free3(s, a, b, c), 0)
        /\ b1 = page_alloc(b0.st, 0) /\ b2 = page_alloc(b1.st, 0)
        /\ z = page_alloc(page_free(Scribble(b2.st, b0.pp), b0.pp), 1)
  OBVIOUS
<1>1. PICK u0, u1, u2 : u0 = page_free(s, a) /\ u1 = page_free(u0, b) /\ u2 = page_free(u1, c)
  OBVIOUS
<1>2. PICK L \in [Page -> Page \cup {NULL}] : L = s.pp_link
  BY DEF MMType
<1>3. L[a] = NULL /\ L[b] = NULL /\ L[c] = NULL
  BY <1>2
<1>4. PICK Lb, Lc : Lb = [L EXCEPT ![b] = a] /\ Lc = [Lb EXCEPT ![c] = b]
  OBVIOUS
<1>5. /\ [L EXCEPT ![a] = NULL] = L /\ [L EXCEPT ![c] = NULL] = L
      /\ Lb[a] = NULL /\ Lb[c] = NULL /\ Lb[b] = a /\ Lc[c] = b
      /\ [Lc EXCEPT ![c] = NULL] = Lb /\ [Lb EXCEPT ![b] = NULL] = L
  BY <1>2, <1>3, <1>4
<1>6. /\ u0 \in MMType /\ u0.page_free_list = a /\ u0.pp_link = L
      /\ u0.mem = s.mem /\ u0.pp_ref = s.pp_ref /\ u0.pgdir = s.pgdir /\ u0.status = s.status
  <2>1. u0.pp_link = [s.pp_link EXCEPT ![a] = s.page_free_list]
        /\ u0 \in MMType /\ u0.page_free_list = a
        /\ u0.mem = s.mem /\ u0.pp_ref = s.pp_ref /\ u0.pgdir = s.pgdir /\ u0.status = s.status
    BY <1>1, PutHead
  <2> QED
    BY <1>2, <1>5, <2>1
<1>7. /\ u1 \in MMType /\ u1.page_free_list = b /\ u1.pp_link = Lb
      /\ u1.mem = s.mem /\ u1.pp_ref = s.pp_ref /\ u1.pgdir = s.pgdir /\ u1.status = s.status
  <2>1. u0.pp_ref[b] = 0 /\ u0.pp_link[b] = NULL
    BY <1>3, <1>6
  <2>2. u1.pp_link = [u0.pp_link EXCEPT ![b] = u0.page_free_list]
        /\ u1 \in MMType /\ u1.page_free_list = b
        /\ u1.mem = u0.mem /\ u1.pp_ref = u0.pp_ref /\ u1.pgdir = u0.pgdir /\ u1.status = u0.status
    BY ZenonT(30), <1>1, <1>6, <2>1, PutHead
  <2> QED
    BY <1>4, <1>6, <2>2
<1>8. /\ u2 \in MMType /\ u2.page_free_list = c /\ u2.pp_link = Lc
      /\ u2.mem = s.mem /\ u2.pp_ref = s.pp_ref /\ u2.pgdir = s.pgdir /\ u2.status = s.status
  <2>1. u1.pp_ref[c] = 0 /\ u1.pp_link[c] = NULL
    BY <1>5, <1>7
  <2>2. u2.pp_link = [u1.pp_link EXCEPT ![c] = u1.page_free_list]
        /\ u2 \in MMType /\ u2.page_free_list = c
        /\ u2.mem = u1.mem /\ u2.pp_ref = u1.pp_ref /\ u2.pgdir = u1.pgdir /\ u2.status = u1.status
    BY <1>1, <1>7, <2>1, PutHead
  <2> QED
    BY <1>4, <1>7, <2>2
<1>9. PICK v0, v1, v2 : v0 = b0.st /\ v1 = b1.st /\ v2 = b2.st
  OBVIOUS
<1>10. u2 = Free3(s, a, b, c)
  BY <1>1 DEF Free3
<1>11. /\ b0.pp = c /\ v0 \in MMType /\ v0.page_free_list = b /\ v0.pp_link = Lb
       /\ v0.mem = s.mem /\ v0.pp_ref = s.pp_ref /\ v0.pgdir = s.pgdir /\ v0.status = s.status
  <2>0. u2 \in MMType /\ u2.page_free_list = c
    BY <1>8
  <2>1. b0 = page_alloc(u2, 0)
    BY <1>0, <1>10
  <2>2. /\ b0.pp = c /\ b0.st \in MMType /\ b0.st.page_free_list = u2.pp_link[c]
        /\ b0.st.pp_link = [u2.pp_link EXCEPT ![c] = NULL] /\ b0.st.mem = u2.mem
        /\ b0.st.pp_ref = u2.pp_ref /\ b0.st.pgdir = u2.pgdir /\ b0.st.status = u2.status
    BY <2>0, <2>1, TakeHead
  <2> QED
    BY <1>5, <1>8, <1>9, <2>2
<1>12. /\ b1.pp = b /\ v1 \in MMType /\ v1.page_free_list = a /\ v1.pp_link = L
       /\ v1.mem = s.mem /\ v1.pp_ref = s.pp_ref /\ v1.pgdir = s.pgdir /\ v1.status = s.status
  <2>0. v0 \in MMType /\ v0.page_free_list = b
    BY <1>11
  <2>1. b1 = page_alloc(v0, 0)
    BY <1>0, <1>9
  <2>2. /\ b1.pp = b /\ b1.st \in MMType /\ b1.st.page_free_list = v0.pp_link[b]
        /\ b1.st.pp_link = [v0.pp_link EXCEPT ![b] = NULL] /\ b1.st.mem = v0.mem
        /\ b1.st.pp_ref = v0.pp_ref /\ b1.st.pgdir = v0.pgdir /\ b1.st.status = v0.status
    BY <2>0, <2>1, TakeHead
  <2> QED
    BY <1>5, <1>9, <1>11, <2>2
<1>13. /\ b2.pp = a /\ v2 \in MMType /\ v2.page_free_list = NULL /\ v2.pp_link = L
       /\ v2.mem = s.mem /\ v2.pp_ref = s.pp_ref /\ v2.pgdir = s.pgdir /\ v2.status = s.status
  <2>0. v1 \in MMType /\ v1.page_free_list = a
    BY <1>12
  <2>1. b2 = page_alloc(v1, 0)
    BY <1>0, <1>9
  <2>2. /\ b2.pp = a /\ b2.st \in MMType /\ b2.st.page_free_list = v1.pp_link[a]
        /\ b2.st.pp_link = [v1.pp_link EXCEPT ![a] = NULL] /\ b2.st.mem = v1.mem
        /\ b2.st.pp_ref = v1.pp_ref /\ b2.st.pgdir = v1.pgdir /\ b2.st.status = v1.status
    BY <2>0, <2>1, TakeHead
  <2> QED
    BY <1>3, <1>5, <1>9, <1>12, <2>2
<1>14. page_alloc(b2.st, 0).pp = NULL
  BY <1>9, <1>13, AllocHead
<1>15. PICK w, x : w = Scribble(v2, c) /\ x = page_free(w, c)
  OBVIOUS
<1>16. /\ w \in MMType /\ w.page_free_list = NULL /\ w.pp_link = L
       /\ w.mem = [s.mem EXCEPT ![c] = Scribbled]
       /\ w.pp_ref = s.pp_ref /\ w.pgdir = s.pgdir /\ w.status = s.status
  <2>1. Scribbled \in [PTX -> Entry]
    BY JunkType DEF Scribbled
  <2> QED
    BY <1>13, <1>15, <2>1 DEF MMType, Scribble
<1>17. /\ x \in MMType /\ x.page_free_list = c /\ x.pp_link = L
       /\ x.mem = [s.mem EXCEPT ![c] = Scribbled]
       /\ x.pp_ref = s.pp_ref /\ x.pgdir = s.pgdir /\ x.status = s.status
  <2>0. x = page_free(w, c) /\ w \in MMType
    BY <1>15, <1>16
  <2>1. w.pp_ref[c] = 0 /\ w.pp_link[c] = NULL
    BY <1>3, <1>16
  <2>2. x.pp_link = [w.pp_link EXCEPT ![c] = w.page_free_list]
        /\ x \in MMType /\ x.page_free_list = c
        /\ x.mem = w.mem /\ x.pp_ref = w.pp_ref /\ x.pgdir = w.pgdir /\ x.status = w.status
    BY <2>0, <2>1, PutHead
  <2> QED
    BY <1>5, <1>16, <2>2
<1>18. /\ z.pp = c /\ z.st \in MMType /\ z.st.pp_link = L /\ z.st.mem = [s.mem EXCEPT ![c] = Zeros]
       /\ z.st.pp_ref = s.pp_ref /\ z.st.pgdir = s.pgdir /\ z.st.status = s.status
  <2>0. x \in MMType /\ x.page_free_list = c
    BY <1>17
  <2>1. z = page_alloc(x, 1)
    BY <1>0, <1>9, <1>11, <1>15
  <2>2. /\ z.pp = c /\ z.st \in MMType /\ z.st.pp_link = [x.pp_link EXCEPT ![c] = NULL]
        /\ z.st.mem = [x.mem EXCEPT ![c] = Zeros]
        /\ z.st.pp_ref = x.pp_ref /\ z.st.pgdir = x.pgdir /\ z.st.status = x.status
    BY <2>0, <2>1, TakeHead
  <2>3. [[s.mem EXCEPT ![c] = Scribbled] EXCEPT ![c] = Zeros] = [s.mem EXCEPT ![c] = Zeros]
    BY DEF MMType
  <2>4. [x.mem EXCEPT ![c] = Zeros] = [s.mem EXCEPT ![c] = Zeros]
    BY <1>17, <2>3
  <2>5. z.st.mem = [s.mem EXCEPT ![c] = Zeros]
    BY <2>2, <2>4
  <2>6. z.st.pp_link = L
    <3>1. [x.pp_link EXCEPT ![c] = NULL] = [L EXCEPT ![c] = NULL]
      BY <1>17
    <3> QED
      BY <1>5, <2>2, <3>1
  <2> QED
    BY <1>17, <2>2, <2>5, <2>6
<1>19. CameBack(s, a, b, c, b0, b1, b2, z)
  BY <1>2, <1>11, <1>12, <1>13, <1>14, <1>18 DEF CameBack
<1> QED
  BY <1>0, <1>19

(* A chain is given by the pages on it.                                    *)
LEMMA SameLinks ==
  ASSUME NEW s \in MMType, NEW t \in MMType, ChainOK(s), ChainOK(t),
         NEW n \in Nat, n = Len(s.free), n = Len(t.free),
         \A i \in 1 .. n : t.free[i] = s.free[i]
  PROVE  t.page_free_list = s.page_free_list /\ t.pp_link = s.pp_link
<1>1. t.page_free_list = s.page_free_list
  BY DEF ChainOK
<1>2. s.pp_link \in [Page -> Page \cup {NULL}] /\ t.pp_link \in [Page -> Page \cup {NULL}]
  BY DEF MMType
<1>3. ASSUME NEW p \in Page PROVE t.pp_link[p] = s.pp_link[p]
  <2>1. CASE IsFree(s, p)
    <3>1. PICK i \in 1 .. n : s.free[i] = p
      BY <2>1 DEF IsFree
    <3>2. s.pp_link[p] = IF i = 1 THEN NULL ELSE s.free[i - 1]
      BY <3>1 DEF ChainOK
    <3>3. t.pp_link[p] = IF i = 1 THEN NULL ELSE t.free[i - 1]
      BY <3>1 DEF ChainOK
    <3>4. i # 1 => i - 1 \in 1 .. n
      OBVIOUS
    <3> QED
      BY <3>2, <3>3, <3>4
  <2>2. CASE ~IsFree(s, p)
    <3>1. ~IsFree(t, p)
      BY <2>2 DEF IsFree
    <3> QED
      BY <2>2, <3>1 DEF ChainOK
  <2> QED
    BY <2>1, <2>2
<1> QED
  BY <1>1, <1>2, <1>3

(* boot_alloc has given a page for pages[].                                *)
LEMMA PagesGiven ==
  ASSUME machine \in Layouts
  PROVE  machine.end + 1 # NULL
<1>1. machine.end + 1 \in Page
  BY MachineFacts DEF Page, FirstFree
<1> QED
  BY <1>1, PagesAssumption

(* check_page_alloc leaves the list as it found it.                        *)
LEMMA CheckPageAllocStep ==
  ASSUME MemInv, mm.status = "run", check_page_alloc
  PROVE  MemInv'
<1>1. machine \in Layouts /\ mm \in MMType /\ nextfree = FirstFree /\ Steady(mm)
      /\ pages = machine.end + 1
  BY DEF MemInv, check_page_alloc
<1>2. OnlySelf(mm) /\ Counted(mm) /\ ChainOK(mm) /\ LowTop(mm, KernTables + 2)
  BY <1>1 DEF Steady
<1>3. PICK n \in Nat : n = Len(mm.free)
  BY <1>1 DEF MMType
<1>4. KernTables \in Nat /\ KernTables >= 1 /\ KernTables + 2 <= n
  BY <1>1, <1>2, <1>3, MachineFacts DEF LowTop
<1>5. PICK a0, a1, a2 : a0 = page_alloc(mm, 0) /\ a1 = page_alloc(a0.st, 0) /\ a2 = page_alloc(a1.st, 0)
  OBVIOUS
<1>6. PICK a, b, c, r : a = a0.pp /\ b = a1.pp /\ c = a2.pp /\ r = a2.st
  OBVIOUS
<1>7. /\ Without3(mm, r, a, b, c)
      /\ a = mm.free[n] /\ b = mm.free[n - 1] /\ c = mm.free[n - 2]
      /\ Len(r.free) = n - 3 /\ (\A i \in 1 .. n - 3 : r.free[i] = mm.free[i])
      /\ NULL \notin {a0.pp, a1.pp, a2.pp} /\ Cardinality({a0.pp, a1.pp, a2.pp}) = 3
  <2>1. n > 2 /\ mm \in MMType /\ ChainOK(mm)
    BY <1>1, <1>2, <1>4
  <2>2. /\ Without3(mm, a2.st, a0.pp, a1.pp, a2.pp)
        /\ a0.pp = mm.free[n] /\ a1.pp = mm.free[n - 1] /\ a2.pp = mm.free[n - 2]
        /\ Len(a2.st.free) = n - 3 /\ (\A i \in 1 .. n - 3 : a2.st.free[i] = mm.free[i])
        /\ NULL \notin {a0.pp, a1.pp, a2.pp} /\ Cardinality({a0.pp, a1.pp, a2.pp}) = 3
    BY <1>3, <1>5, <2>1, Alloc3
  <2> QED
    BY <1>6, <2>2
<1>8. /\ r \in MMType /\ ChainOK(r) /\ a \in Page /\ b \in Page /\ c \in Page
      /\ a # b /\ a # c /\ b # c
      /\ IsFree(mm, a) /\ IsFree(mm, b) /\ IsFree(mm, c)
      /\ \A p \in Page : IsFree(r, p) <=> IsFree(mm, p) /\ p \notin {a, b, c}
      /\ r.pp_ref = mm.pp_ref /\ r.pgdir = mm.pgdir /\ r.mem = mm.mem /\ r.status = "run"
  BY <1>7 DEF Without3, check_page_alloc, MemInv
<1>9. r.pp_ref[a] = 0 /\ r.pp_ref[b] = 0 /\ r.pp_ref[c] = 0
      /\ r.pp_link[a] = NULL /\ r.pp_link[b] = NULL /\ r.pp_link[c] = NULL
  BY <1>2, <1>8 DEF Counted, ChainOK
<1>10. PICK s \in MMType : s = Steal(r)
  <2>0. <<>> \in Seq(Page)
    OBVIOUS
  <2>1. Steal(r) \in MMType
    BY <1>8, <2>0 DEF Steal, MMType
  <2> QED
    BY <2>1
<1>11. /\ s.page_free_list = NULL /\ s.pp_ref = mm.pp_ref /\ s.pp_link = r.pp_link
       /\ s.pgdir = mm.pgdir /\ s.mem = mm.mem /\ s.status = "run"
  BY <1>8, <1>10 DEF Steal, MMType
<1>12. PICK b0, b1, b2, z :
         /\ b0 = page_alloc(Free3(s, a, b, c), 0)
         /\ b1 = page_alloc(b0.st, 0) /\ b2 = page_alloc(b1.st, 0)
         /\ z = page_alloc(page_free(Scribble(b2.st, b0.pp), b0.pp), 1)
  OBVIOUS
<1>13. /\ b0.pp = c /\ b1.pp = b /\ b2.pp = a /\ page_alloc(b2.st, 0).pp = NULL /\ z.pp = c
       /\ z.st \in MMType /\ z.st.pp_link = s.pp_link /\ z.st.mem = [s.mem EXCEPT ![c] = Zeros]
       /\ z.st.pp_ref = s.pp_ref /\ z.st.pgdir = s.pgdir /\ z.st.status = s.status
  <2>1. /\ s.pp_ref[a] = 0 /\ s.pp_ref[b] = 0 /\ s.pp_ref[c] = 0
        /\ s.pp_link[a] = NULL /\ s.pp_link[b] = NULL /\ s.pp_link[c] = NULL
        /\ a \in Page /\ b \in Page /\ c \in Page /\ a # b /\ a # c /\ b # c
        /\ s.page_free_list = NULL
    BY <1>8, <1>9, <1>11
  <2>2. CameBack(s, a, b, c, b0, b1, b2, z)
    BY <1>12, <2>1, RoundTrip
  <2> QED
    BY <2>2 DEF CameBack
<1>14. /\ page_alloc(s, 0).pp = NULL /\ {b0.pp, b1.pp, b2.pp} = {a, b, c}
       /\ z.st.mem[z.pp] = [y \in PTX |-> ZeroPte]
  <2>1. page_alloc(s, 0).pp = NULL
    BY <1>11, AllocHead
  <2>2. z.st.mem[c] = Zeros
    BY <1>8, <1>13 DEF MMType
  <2> QED
    BY <1>13, <2>1, <2>2 DEF Zeros
<1>15. PICK w \in MMType : w = GiveBack(z.st, r)
  <2>1. GiveBack(z.st, r) \in MMType
    BY <1>8, <1>13 DEF GiveBack, MMType
  <2> QED
    BY <2>1
<1>16. /\ w.page_free_list = r.page_free_list /\ w.free = r.free /\ w.pp_link = r.pp_link
       /\ w.pp_ref = mm.pp_ref /\ w.pgdir = mm.pgdir /\ w.status = "run"
  BY <1>8, <1>11, <1>13, <1>15 DEF GiveBack, MMType
<1>17. ChainOK(w) /\ \A p \in Page : IsFree(w, p) <=> IsFree(r, p)
  BY <1>8, <1>16 DEF ChainOK, IsFree
<1>18. PICK t : t = Free3(w, c, b, a)
  OBVIOUS
<1>19. /\ t \in MMType /\ ChainOK(t)
       /\ Len(t.free) = n /\ (\A i \in 1 .. n - 3 : t.free[i] = mm.free[i])
       /\ t.free[n - 2] = c /\ t.free[n - 1] = b /\ t.free[n] = a
       /\ \A p \in Page : IsFree(t, p) <=> IsFree(r, p) \/ p \in {a, b, c}
       /\ t.pp_ref = mm.pp_ref /\ t.pgdir = mm.pgdir /\ t.status = "run"
  <2>1. PICK m \in Nat : m = n - 3
    BY <1>4
  <2>2. m = Len(w.free) /\ n = m + 3 /\ n - 2 = m + 1 /\ n - 1 = m + 2
    BY <1>7, <1>16, <2>1
  <2>3. /\ ~IsFree(w, a) /\ ~IsFree(w, b) /\ ~IsFree(w, c)
        /\ w.pp_ref[a] = 0 /\ w.pp_ref[b] = 0 /\ w.pp_ref[c] = 0
    BY <1>8, <1>9, <1>16, <1>17
  <2>4. /\ t \in MMType /\ ChainOK(t)
        /\ Len(t.free) = m + 3 /\ (\A i \in 1 .. m : t.free[i] = w.free[i])
        /\ t.free[m + 1] = c /\ t.free[m + 2] = b /\ t.free[m + 3] = a
        /\ \A p \in Page : IsFree(t, p) <=> IsFree(w, p) \/ p \in {c, b, a}
        /\ t.pp_ref = w.pp_ref /\ t.pgdir = w.pgdir /\ t.mem = w.mem /\ t.status = w.status
    BY <1>8, <1>17, <1>18, <2>2, <2>3, GiveBack3
  <2>5. \A i \in 1 .. m : t.free[i] = mm.free[i]
    BY <1>7, <1>16, <2>1, <2>4
  <2> QED
    BY <1>16, <1>17, <2>1, <2>2, <2>4, <2>5
<1>20. ChainOK(t) /\ Len(t.free) = n /\ \A i \in 1 .. n : t.free[i] = mm.free[i]
  <2>1. \A i \in 1 .. n : i \in 1 .. n - 3 \/ i = n - 2 \/ i = n - 1 \/ i = n
    OBVIOUS
  <2> QED
    BY <1>7, <1>19, <2>1
<1>21. nfree(t.page_free_list, t.pp_link) = nfree(mm.page_free_list, mm.pp_link)
  <2>1. t.page_free_list = mm.page_free_list /\ t.pp_link = mm.pp_link
    BY <1>1, <1>2, <1>3, <1>19, <1>20, SameLinks
  <2> QED
    BY <2>1
<1>22. /\ mm' = t /\ touched' = {c}
       /\ pc' = "check_page" /\ machine' = machine /\ nextfree' = nextfree /\ pages' = pages
  <2> DEFINE A0 == page_alloc(mm, 0)
             A1 == page_alloc(A0.st, 0)
             A2 == page_alloc(A1.st, 0)
             B0 == page_alloc(Free3(Steal(A2.st), A0.pp, A1.pp, A2.pp), 0)
             B1 == page_alloc(B0.st, 0)
             B2 == page_alloc(B1.st, 0)
             Z  == page_alloc(page_free(Scribble(B2.st, B0.pp), B0.pp), 1)
             T  == Free3(GiveBack(Z.st, A2.st), B0.pp, B1.pp, B2.pp)
             ok == /\ pages # NULL
                   /\ {A0.pp, A1.pp, A2.pp} \subseteq Page
                   /\ Cardinality({A0.pp, A1.pp, A2.pp}) = 3
                   /\ page_alloc(Steal(A2.st), 0).pp = NULL
                   /\ {B0.pp, B1.pp, B2.pp} = {A0.pp, A1.pp, A2.pp}
                   /\ page_alloc(B2.st, 0).pp = NULL
                   /\ Z.pp = B0.pp /\ Z.st.mem[Z.pp] = [y \in PTX |-> ZeroPte]
                   /\ nfree(T.page_free_list, T.pp_link) = nfree(mm.page_free_list, mm.pp_link)
  <2>1. /\ IF ok THEN mm' = T /\ touched' = {B0.pp}
                ELSE /\ mm' = [mm EXCEPT !.status = "panic"]
                     /\ touched' = {}
        /\ pc' = "check_page" /\ machine' = machine /\ nextfree' = nextfree /\ pages' = pages
    BY DEF check_page_alloc
  <2>2. A0 = a0 /\ A1 = a1 /\ A2 = a2
    BY <1>5
  <2> HIDE DEF A0, A1, A2
  <2>3. A0.pp = a /\ A1.pp = b /\ A2.pp = c /\ A2.st = r
    BY <1>6, <2>2
  <2>4. Steal(A2.st) = s
    BY <1>10, <2>3
  <2>5. B0 = b0
    BY <1>12, <2>3, <2>4
  <2>6. B1 = b1 /\ B2 = b2 /\ Z = z
    BY <1>12, <2>5
  <2> HIDE DEF B0, B1, B2, Z
  <2>7. T = t
    BY <1>13, <1>15, <1>18, <2>3, <2>5, <2>6
  <2> HIDE DEF T
  <2>8. ok
    <3>1. {A0.pp, A1.pp, A2.pp} \subseteq Page /\ Cardinality({A0.pp, A1.pp, A2.pp}) = 3
      BY <1>7, <1>8, <2>2, <2>3
    <3>2. page_alloc(Steal(A2.st), 0).pp = NULL /\ page_alloc(B2.st, 0).pp = NULL
      BY <1>13, <1>14, <2>4, <2>6
    <3>3. {B0.pp, B1.pp, B2.pp} = {A0.pp, A1.pp, A2.pp}
      BY <1>14, <2>3, <2>5, <2>6
    <3>4. Z.pp = B0.pp /\ Z.st.mem[Z.pp] = [y \in PTX |-> ZeroPte]
      BY <1>13, <1>14, <2>5, <2>6
    <3>5. nfree(T.page_free_list, T.pp_link) = nfree(mm.page_free_list, mm.pp_link)
      BY <1>21, <2>7
    <3>6. pages # NULL
      BY <1>1, PagesGiven
    <3> QED
      BY <3>1, <3>2, <3>3, <3>4, <3>5, <3>6
  <2> HIDE DEF ok
  <2>9. mm' = T /\ touched' = {B0.pp}
    BY <2>1, <2>8
  <2> QED
    BY <1>13, <2>1, <2>3, <2>5, <2>7, <2>9
<1>23. Len(mm'.free) = n /\ \A i \in 1 .. n : mm'.free[i] = mm.free[i]
  BY <1>20, <1>22
<1>24. Steady(mm)'
  <2>1. OnlySelf(mm)'
    BY <1>2, <1>19, <1>22 DEF OnlySelf
  <2>2. Counted(mm)'
    BY <1>2, <1>8, <1>19, <1>22 DEF Counted, InUse, IsTable
  <2>3. LowTop(mm, KernTables + 2)'
    <3>1. \A i \in n - (KernTables + 2) + 1 .. n : i \in 1 .. n
      BY <1>4
    <3> QED
      BY <1>2, <1>3, <1>23, <3>1 DEF LowTop, IsLow
  <2> QED
    BY <1>19, <1>22, <2>1, <2>2, <2>3 DEF Steady
<1>25. WritesOnlyMapped'
  <2>1. n - 2 \in n - (KernTables + 2) + 1 .. n
    BY <1>4
  <2>2. IsLow(c)
    BY <1>2, <1>3, <1>7, <2>1 DEF LowTop
  <2> QED
    BY <1>22, <2>2 DEF WritesOnlyMapped, IsLow
<1> QED
  BY <1>1, <1>19, <1>22, <1>24, <1>25 DEF MemInv, PCs, FirstFree

-----------------------------------------------------------------------------
(* check_page takes three pages and steals the list.                       *)

LEMMA CheckPageStep ==
  ASSUME MemInv, mm.status = "run", check_page
  PROVE  MemInv'
<1>1. machine \in Layouts /\ mm \in MMType /\ nextfree = FirstFree /\ Steady(mm)
      /\ pages = machine.end + 1
  BY DEF MemInv, check_page
<1>2. OnlySelf(mm) /\ Counted(mm) /\ ChainOK(mm) /\ LowTop(mm, KernTables + 2)
  BY <1>1 DEF Steady
<1>3. PICK n \in Nat : n = Len(mm.free)
  BY <1>1 DEF MMType
<1>4. KernTables \in Nat /\ KernTables >= 1 /\ KernTables + 2 <= n
  BY <1>1, <1>2, <1>3, MachineFacts DEF LowTop
<1>5. PICK a0, a1, a2 : a0 = page_alloc(mm, 0) /\ a1 = page_alloc(a0.st, 0) /\ a2 = page_alloc(a1.st, 0)
  OBVIOUS
<1>6. PICK a, b, c, r : a = a0.pp /\ b = a1.pp /\ c = a2.pp /\ r = a2.st
  OBVIOUS
<1>7. /\ Without3(mm, r, a, b, c)
      /\ a = mm.free[n] /\ b = mm.free[n - 1] /\ c = mm.free[n - 2]
      /\ Len(r.free) = n - 3 /\ (\A i \in 1 .. n - 3 : r.free[i] = mm.free[i])
      /\ NULL \notin {a0.pp, a1.pp, a2.pp} /\ Cardinality({a0.pp, a1.pp, a2.pp}) = 3
  <2>1. n > 2 /\ mm \in MMType /\ ChainOK(mm)
    BY <1>1, <1>2, <1>4
  <2>2. /\ Without3(mm, a2.st, a0.pp, a1.pp, a2.pp)
        /\ a0.pp = mm.free[n] /\ a1.pp = mm.free[n - 1] /\ a2.pp = mm.free[n - 2]
        /\ Len(a2.st.free) = n - 3 /\ (\A i \in 1 .. n - 3 : a2.st.free[i] = mm.free[i])
        /\ NULL \notin {a0.pp, a1.pp, a2.pp} /\ Cardinality({a0.pp, a1.pp, a2.pp}) = 3
    BY <1>3, <1>5, <2>1, Alloc3
  <2> QED
    BY <1>6, <2>2
<1>8. /\ r \in MMType /\ ChainOK(r) /\ a \in Page /\ b \in Page /\ c \in Page
      /\ a # b /\ a # c /\ b # c
      /\ IsFree(mm, a) /\ IsFree(mm, b) /\ IsFree(mm, c)
      /\ \A p \in Page : IsFree(r, p) <=> IsFree(mm, p) /\ p \notin {a, b, c}
      /\ r.pp_ref = mm.pp_ref /\ r.pgdir = mm.pgdir /\ r.mem = mm.mem /\ r.status = "run"
  BY <1>7 DEF Without3
<1>9. /\ mm.pp_ref[a] = 0 /\ mm.pp_ref[b] = 0 /\ mm.pp_ref[c] = 0
      /\ r.pp_link[a] = NULL /\ r.pp_link[b] = NULL /\ r.pp_link[c] = NULL
      /\ ~InUse(a) /\ ~InUse(b) /\ ~InUse(c)
  BY <1>2, <1>8 DEF Counted, ChainOK
<1>10. IsLow(a) /\ IsLow(b) /\ IsLow(c)
  <2>1. {n, n - 1, n - 2} \subseteq n - (KernTables + 2) + 1 .. n
    BY <1>4
  <2> QED
    BY <1>2, <1>3, <1>7, <2>1 DEF LowTop
<1>11. PICK s \in MMType : s = Steal(r)
  <2>0. <<>> \in Seq(Page)
    OBVIOUS
  <2>1. Steal(r) \in MMType
    BY <1>8, <2>0 DEF Steal, MMType
  <2> QED
    BY <2>1
<1>12. /\ s.page_free_list = NULL /\ s.free = <<>> /\ s.pp_ref = mm.pp_ref /\ s.pp_link = r.pp_link
       /\ s.pgdir = mm.pgdir /\ s.status = "run"
  BY <1>8, <1>11 DEF Steal, MMType
<1>13. PICK f : f = [page_free_list |-> r.page_free_list, free |-> r.free]
  OBVIOUS
<1>14. /\ mm' = s /\ pp' = <<a, b, c>> /\ fl' = f /\ pc' = "check_page_calls" /\ at' = 1
       /\ touched' = {} /\ machine' = machine /\ nextfree' = nextfree /\ pages' = pages
  <2> DEFINE A0 == page_alloc(mm, 0)
             A1 == page_alloc(A0.st, 0)
             A2 == page_alloc(A1.st, 0)
  <2>1. /\ mm' = IF /\ NULL \notin {A0.pp, A1.pp, A2.pp}
                    /\ Cardinality({A0.pp, A1.pp, A2.pp}) = 3
                 THEN Steal(A2.st) ELSE [mm EXCEPT !.status = "panic"]
        /\ pp' = <<A0.pp, A1.pp, A2.pp>>
        /\ fl' = [page_free_list |-> A2.st.page_free_list, free |-> A2.st.free]
        /\ pc' = "check_page_calls" /\ at' = 1
        /\ touched' = {} /\ machine' = machine /\ nextfree' = nextfree /\ pages' = pages
    BY DEF check_page
  <2>2. A0 = a0 /\ A1 = a1 /\ A2 = a2
    BY <1>5
  <2> HIDE DEF A0, A1, A2
  <2> QED
    BY <1>6, <1>7, <1>11, <1>13, <2>1, <2>2
<1>15. PICK g : g = GiveBack(s, f)
  OBVIOUS
<1>16. g.page_free_list = r.page_free_list /\ g.free = r.free /\ g.pp_link = r.pp_link
  BY <1>12, <1>13, <1>15 DEF GiveBack, MMType
<1>17. ChainOK(g) /\ \A p \in Page : IsFree(g, p) <=> IsFree(r, p)
  BY <1>8, <1>16 DEF ChainOK, IsFree
<1>18. Len(g.free) = n - 3 /\ \A i \in n - 3 - (KernTables - 1) + 1 .. n - 3 : IsLow(g.free[i])
  <2>1. \A i \in n - 3 - (KernTables - 1) + 1 .. n - 3 :
           i \in 1 .. n - 3 /\ i \in n - (KernTables + 2) + 1 .. n
    BY <1>4
  <2>2. \A i \in n - (KernTables + 2) + 1 .. n : IsLow(mm.free[i])
    BY <1>2, <1>3 DEF LowTop
  <2> QED
    BY <1>7, <1>16, <2>1, <2>2
<1>19. LowTop(g, KernTables - 1)
  <2>1. KernTables - 1 <= Len(g.free)
    BY <1>4, <1>18
  <2> QED
    BY <1>18, <2>1 DEF LowTop
<1>20. Taken' = {a, b, c}
  BY <1>14 DEF Taken
<1>21. \A p \in Page : ~IsFree(s, p)
  BY <1>12 DEF IsFree
<1>22. \A p \in Page \ {a, b, c} : /\ s.pp_ref[p] = IF InUse(p) THEN 1 ELSE 0
                                   /\ IsFree(g, p) <=> s.pp_ref[p] = 0
  <2> TAKE p \in Page \ {a, b, c}
  <2>1. IsTable(mm, p) => InUse(p)
    <3>1. machine.end \in Nat /\ machine.io <= machine.end /\ machine.end <= FirstFree /\ machine.io \in Nat
      BY <1>1, MachineFacts
    <3>2. ASSUME IsTable(mm, p) PROVE p = machine.end
      <4>1. PICK x \in PDX : mm.pgdir[Kern][x] = p
        BY <3>2, BootAssumption DEF IsTable
      <4>2. p # NULL
        BY PagesAssumption
      <4> QED
        BY <1>2, <4>1, <4>2 DEF OnlySelf
    <3> QED
      BY <1>1, <3>1, <3>2, InUseFacts
  <2> QED
    BY <1>2, <1>8, <1>12, <1>17, <2>1 DEF Counted
<1>23. s.pgdir[Kern] = [x \in PDX |-> IF x = UVPT THEN machine.end ELSE NULL]
  BY <1>2, <1>12 DEF OnlySelf
<1>24. CheckState(s, NULL, Refs3(0, 0, 0), 0, NULL)'
  <2>1. s.pgdir[Kern] = [x \in PDX |-> IF x = UVPT THEN machine'.end
                                       ELSE IF x = 0 /\ 0 = 1 THEN pp'[1] ELSE NULL]
    BY <1>14, <1>23
  <2>2. \A p \in {a, b, c} : s.pp_link[p] = NULL /\ ~IsFree(g, p) /\ s.pp_ref[p] = 0
    BY <1>8, <1>9, <1>12, <1>17
  <2>3. \A p \in {a, b, c} : Refs3(0, 0, 0)'[p] = 0
    BY <1>14, <1>20 DEF Refs3
  <2>4. \A p \in Page : InUse(p)' <=> InUse(p)
    BY <1>14 DEF InUse
  <2>5. LowTop(g, KernTables - 1)'
    BY <1>19
  <2>6. GiveBack(s, fl)' = g
    BY <1>14, <1>15
  <2> QED
    BY <1>12, <1>17, <1>20, <1>21, <1>22, <2>1, <2>2, <2>3, <2>4, <2>5, <2>6 DEF CheckState, KernDir
<1>25. ThreePages'
  <2>1. fl' \in [page_free_list : Page \cup {NULL}, free : Seq(Page)]
    BY <1>8, <1>13, <1>14 DEF MMType
  <2>2. pp' \in Page \X Page \X Page /\ pp'[1] # pp'[2] /\ pp'[1] # pp'[3] /\ pp'[2] # pp'[3]
    BY <1>8, <1>14
  <2>3. \A p \in {a, b, c} : IsLow(p)' /\ ~InUse(p)'
    BY <1>9, <1>10, <1>14 DEF InUse, IsLow
  <2> QED
    BY <1>20, <2>1, <2>2, <2>3 DEF ThreePages
<1>26. Before(mm, at)'
  BY <1>14, <1>24 DEF Before
<1>27. WritesOnlyMapped'
  BY <1>14 DEF WritesOnlyMapped
<1> QED
  BY <1>1, <1>12, <1>14, <1>25, <1>26, <1>27 DEF MemInv, PCs, FirstFree

-----------------------------------------------------------------------------
(* The calls of check_page.                                                *)

LEMMA CallFacts ==
  ASSUME MemInv, pc = "check_page_calls"
  PROVE  /\ mm \in MMType /\ machine \in Layouts /\ nextfree = FirstFree
         /\ pages = machine.end + 1 /\ ThreePages /\ Before(mm, at)
         /\ pp[1] \in Page /\ pp[2] \in Page /\ pp[3] \in Page
         /\ pp[1] # pp[2] /\ pp[1] # pp[3] /\ pp[2] # pp[3]
         /\ pp[1] # NULL /\ pp[2] # NULL /\ pp[3] # NULL
         /\ Taken = {pp[1], pp[2], pp[3]} /\ Taken \subseteq Page
         /\ \A p \in Taken : p < NPT /\ ~InUse(p)
         /\ V0 \in VA /\ V1 \in VA /\ W0 \in VA /\ W1 \in VA /\ V0 # V1
         /\ 0 \in PTX /\ 1 \in PTX /\ 0 \in PDX /\ 1 \in PDX
         /\ Kern \in Pgdirs /\ RefMod > 2 /\ RefMod \in Nat
<1>1. /\ mm \in MMType /\ machine \in Layouts /\ nextfree = FirstFree
      /\ pages = machine.end + 1 /\ ThreePages /\ Before(mm, at)
  BY DEF MemInv
<1>2. 0 \in PTX /\ 1 \in PTX /\ 0 \in PDX /\ 1 \in PDX
  <2>1. NPT \in Nat /\ NPT >= 2
    BY <1>1, MachineFacts
  <2> QED
    BY <2>1, KernFacts
<1>3. V0 \in VA /\ V1 \in VA /\ W0 \in VA /\ W1 \in VA /\ V0 # V1
  BY <1>2 DEF VA, V0, V1, W0, W1
<1>4. /\ pp[1] \in Page /\ pp[2] \in Page /\ pp[3] \in Page
      /\ pp[1] # pp[2] /\ pp[1] # pp[3] /\ pp[2] # pp[3]
      /\ \A p \in Taken : p < NPT /\ ~InUse(p)
  BY <1>1 DEF ThreePages, IsLow
<1>5. pp[1] # NULL /\ pp[2] # NULL /\ pp[3] # NULL
  BY <1>4, PagesAssumption
<1>6. Taken = {pp[1], pp[2], pp[3]} /\ Taken \subseteq Page
  BY <1>4 DEF Taken
<1> QED
  BY <1>1, <1>2, <1>3, <1>4, <1>5, <1>6, KernFacts, BootAssumption, RefModAssumption

(* What CheckState says of the three pages and of the two addresses.       *)
LEMMA StateFacts ==
  ASSUME MemInv, pc = "check_page_calls", NEW s, NEW f, NEW i, NEW j, NEW k, NEW T,
         NEW tables \in {0, 1}, CheckState(s, f, Refs3(i, j, k), tables, T)
  PROVE  /\ s \in MMType /\ s.status = "run" /\ s.page_free_list = f
         /\ s.pp_link[pp[1]] = NULL /\ s.pp_link[pp[2]] = NULL /\ s.pp_link[pp[3]] = NULL
         /\ s.pp_ref[pp[1]] = i /\ s.pp_ref[pp[2]] = j /\ s.pp_ref[pp[3]] = k
         /\ s.pgdir[Kern][0] = (IF tables = 1 THEN pp[1] ELSE NULL) /\ s.pgdir[Kern][1] = NULL
         /\ tables = 1 => s.mem[pp[1]] = T
         /\ s.pgdir[Kern] = KernDir(tables)
<1>1. /\ pp[1] # pp[2] /\ pp[1] # pp[3] /\ pp[2] # pp[3]
      /\ Taken = {pp[1], pp[2], pp[3]} /\ 0 \in PDX /\ 1 \in PDX
  BY CallFacts
<1>2. UVPT \in PDX /\ UVPT > 1 /\ UVPT \in Nat
  <2>1. UVPT \in PDX /\ UVPT > 1 /\ PDX \subseteq Nat
    BY KernFacts
  <2> QED
    BY <2>1
<1>3. /\ Refs3(i, j, k)[pp[1]] = i /\ Refs3(i, j, k)[pp[2]] = j /\ Refs3(i, j, k)[pp[3]] = k
  BY <1>1 DEF Refs3
<1>4. /\ s \in MMType /\ s.status = "run" /\ s.page_free_list = f /\ (tables = 1 => s.mem[pp[1]] = T)
      /\ \A p \in Taken : s.pp_link[p] = NULL /\ s.pp_ref[p] = Refs3(i, j, k)[p]
      /\ s.pgdir[Kern] = KernDir(tables)
  BY DEF CheckState
<1>5. s.pgdir[Kern][0] = (IF tables = 1 THEN pp[1] ELSE NULL) /\ s.pgdir[Kern][1] = NULL
  BY <1>1, <1>2, <1>4 DEF KernDir
<1> QED
  BY <1>1, <1>3, <1>4, <1>5

(* t differs from s in the counts of the three pages, the list, the table  *)
(* at 0 and its page.                                                      *)
LEMMA CheckFrame ==
  ASSUME MemInv, pc = "check_page_calls", NEW s, NEW f, NEW r, NEW tables, NEW T,
         CheckState(s, f, r, tables, T),
         NEW t \in MMType, t.pp_link = s.pp_link, t.status = s.status,
         \A p \in Page \ Taken : t.pp_ref[p] = s.pp_ref[p],
         \A p \in Page : IsFree(t, p) => IsFree(s, p) \/ p \in Taken,
         NEW g, t.page_free_list = g,
         NEW i, NEW j, NEW k,
         t.pp_ref[pp[1]] = i, t.pp_ref[pp[2]] = j, t.pp_ref[pp[3]] = k,
         NEW tab, NEW U,
         t.pgdir[Kern] = KernDir(tab),
         tab = 1 => t.mem[pp[1]] = U
  PROVE  CheckState(t, g, Refs3(i, j, k), tab, U)
<1>1. /\ pp[1] # pp[2] /\ pp[1] # pp[3] /\ pp[2] # pp[3] /\ Taken = {pp[1], pp[2], pp[3]}
  BY CallFacts
<1>2. s \in MMType /\ fl.free = fl.free
  BY DEF CheckState
<1>3. PICK a, b : a = GiveBack(s, fl) /\ b = GiveBack(t, fl)
  OBVIOUS
<1>4. /\ a.page_free_list = b.page_free_list /\ a.free = b.free /\ a.pp_link = b.pp_link
  BY <1>2, <1>3 DEF GiveBack, MMType
<1>5. /\ ChainOK(a) <=> ChainOK(b)
      /\ LowTop(a, KernTables - 1) <=> LowTop(b, KernTables - 1)
      /\ \A p : IsFree(a, p) <=> IsFree(b, p)
  BY <1>4 DEF ChainOK, LowTop, IsFree
<1>6. \A p \in Taken : t.pp_ref[p] = Refs3(i, j, k)[p]
  BY <1>1 DEF Refs3
<1>7. /\ ChainOK(a) /\ LowTop(a, KernTables - 1) /\ s.status = "run"
      /\ \A p \in Taken : s.pp_link[p] = NULL /\ ~IsFree(a, p)
      /\ \A p \in Page \ Taken : /\ s.pp_ref[p] = IF InUse(p) THEN 1 ELSE 0
                                 /\ IsFree(a, p) <=> s.pp_ref[p] = 0
      /\ \A p \in Page : IsFree(s, p) => p \in Taken
  BY <1>3 DEF CheckState
<1>8. /\ ChainOK(b) /\ LowTop(b, KernTables - 1)
      /\ \A p \in Taken : t.pp_link[p] = NULL /\ ~IsFree(b, p) /\ t.pp_ref[p] = Refs3(i, j, k)[p]
      /\ \A p \in Page \ Taken : /\ t.pp_ref[p] = IF InUse(p) THEN 1 ELSE 0
                                 /\ IsFree(b, p) <=> t.pp_ref[p] = 0
      /\ \A p \in Page : IsFree(t, p) => p \in Taken
  BY <1>5, <1>6, <1>7
<1> HIDE DEF Taken
<1> QED
  BY <1>3, <1>7, <1>8 DEF CheckState

(* The k-th call leaves t: its asserts hold, and the next call may come.   *)
Leaves(k, t) ==
  /\ pc = "check_page_calls" /\ at = k /\ mm' = t
  /\ touched' = {p \in Page : t.mem[p] # mm.mem[p]} /\ at' = k + 1
  /\ UNCHANGED <<machine, pc, nextfree, kern_pgdir, pages, tp, pp, fl>>

LEMMA CallEnd ==
  ASSUME MemInv, mm.status = "run", NEW k \in 1 .. 14, NEW t, Leaves(k, t),
         NEW n, n = k + 1, Before(t, n), t \in MMType, t.status = "run",
         \A p \in Page \ Taken : t.mem[p] = mm.mem[p]
  PROVE  MemInv'
<1>1. /\ pc = "check_page_calls" /\ at = k /\ mm' = t
      /\ touched' = {p \in Page : t.mem[p] # mm.mem[p]} /\ at' = n
      /\ machine' = machine /\ pc' = pc /\ nextfree' = nextfree /\ pages' = pages
      /\ pp' = pp /\ fl' = fl
  BY DEF Leaves
<1>2. /\ mm \in MMType /\ machine \in Layouts /\ nextfree = FirstFree
      /\ pages = machine.end + 1 /\ ThreePages
      /\ \A p \in Taken : p < NPT
  BY <1>1, CallFacts
<1>3. WritesOnlyMapped'
  BY <1>1, <1>2 DEF WritesOnlyMapped
<1>4. ThreePages'
  BY <1>1, <1>2 DEF ThreePages, Taken, IsLow, InUse
<1>5. \A s, f, r, tab, T : CheckState(s, f, r, tab, T) => CheckState(s, f, r, tab, T)'
  BY <1>1 DEF CheckState, Taken, InUse, GiveBack, LowTop, IsLow, KernDir
<1>6. Before(t, n)'
  <2>1. Refs3(0, 0, 0)' = Refs3(0, 0, 0) /\ Refs3(1, 1, 0)' = Refs3(1, 1, 0)
        /\ Refs3(1, 1, 1)' = Refs3(1, 1, 1) /\ Refs3(1, 2, 0)' = Refs3(1, 2, 0)
        /\ Refs3(1, 0, 0)' = Refs3(1, 0, 0)
    BY <1>1 DEF Refs3, Taken
  <2>2. \A i, perm : EntryFor(i, perm)' = EntryFor(i, perm)
    BY <1>1 DEF EntryFor
  <2>3. pp' = pp
    BY <1>1
  <2> QED
    BY <1>5, <2>1, <2>2, <2>3 DEF Before
<1>7. Before(mm, at)'
  BY <1>1, <1>6
<1>8. at' \in 1 .. 15
  BY <1>1
<1> QED
  BY <1>1, <1>2, <1>3, <1>4, <1>7, <1>8 DEF MemInv, PCs, FirstFree

(* The page of the table holds e0 and e1, for the addresses V0 and V1.     *)
LEMMA TableFacts ==
  ASSUME MemInv, pc = "check_page_calls", NEW s, NEW f, NEW i, NEW j, NEW k, NEW e0, NEW e1,
         CheckState(s, f, Refs3(i, j, k), 1, Table2(e0, e1))
  PROVE  /\ HasTable(s, Kern, V0) /\ HasTable(s, Kern, V1)
         /\ ~HasTable(s, Kern, W0) /\ ~HasTable(s, Kern, W1)
         /\ Pte(s, Kern, V0) = e0 /\ Pte(s, Kern, V1) = e1
         /\ s.pgdir[Kern][0] = pp[1] /\ s.pgdir[Kern][1] = NULL
<1>1. s.pgdir[Kern][0] = pp[1] /\ s.pgdir[Kern][1] = NULL /\ s.mem[pp[1]] = Table2(e0, e1)
  BY StateFacts
<1>2. pp[1] # NULL /\ 0 \in PTX /\ 1 \in PTX
  BY CallFacts
<1>3. Table2(e0, e1)[0] = e0 /\ Table2(e0, e1)[1] = e1
  BY <1>2 DEF Table2
<1> QED
  BY <1>1, <1>2, <1>3 DEF HasTable, Pte, V0, V1, W0, W1

LEMMA EntryFacts ==
  ASSUME NEW i, NEW perm
  PROVE  /\ EntryFor(i, perm) = EntryOf(pp[i], perm)
         /\ EntryFor(i, perm).addr = pp[i] /\ Present(EntryFor(i, perm))
         /\ EntryFor(i, perm).perm = perm \cup {"P"} /\ ~Present(ZeroPte)
BY DEF EntryFor, EntryOf, Present, ZeroPte

(* A call that writes the entry e at index y of that table.                *)
LEMMA TableStep ==
  ASSUME MemInv, pc = "check_page_calls", NEW f, NEW r, NEW e0, NEW e1,
         CheckState(mm, f, r, 1, Table2(e0, e1)),
         \E i, j, k : r = Refs3(i, j, k),
         NEW t \in MMType, t.pp_link = mm.pp_link, t.status = mm.status, t.pgdir = mm.pgdir,
         NEW y \in {0, 1}, NEW e, t.mem = Written(mm.mem, pp[1], y, e),
         \A p \in Page \ Taken : t.pp_ref[p] = mm.pp_ref[p],
         \A p \in Page : IsFree(t, p) => IsFree(mm, p) \/ p \in Taken,
         NEW g, t.page_free_list = g,
         NEW i, NEW j, NEW k,
         t.pp_ref[pp[1]] = i, t.pp_ref[pp[2]] = j, t.pp_ref[pp[3]] = k
  PROVE  /\ CheckState(t, g, Refs3(i, j, k), 1,
                       IF y = 0 THEN Table2(e, e1) ELSE Table2(e0, e))
         /\ \A p \in Page \ Taken : t.mem[p] = mm.mem[p]
<1>1. PICK a, b, c : r = Refs3(a, b, c)
  OBVIOUS
<1>2. /\ mm \in MMType /\ mm.mem[pp[1]] = Table2(e0, e1)
      /\ mm.pgdir[Kern] = KernDir(1)
  BY <1>1, StateFacts
<1>3. pp[1] \in Page /\ pp[1] \in Taken /\ 0 \in PTX /\ 1 \in PTX
  BY CallFacts
<1>4. PICK m : m = mm.mem
  OBVIOUS
<1>5. m \in [Page -> [PTX -> Entry]] /\ m[pp[1]] = Table2(e0, e1)
  BY <1>2, <1>4 DEF MMType
<1>6. PICK u : u = IF y = 0 THEN Table2(e, e1) ELSE Table2(e0, e)
  OBVIOUS
<1>7. t.mem = [m EXCEPT ![pp[1]] = [Table2(e0, e1) EXCEPT ![y] = e]]
  BY <1>4, <1>5 DEF Written
<1>8. [Table2(e0, e1) EXCEPT ![y] = e] = u
  BY <1>3, <1>6 DEF Table2
<1>9. t.mem[pp[1]] = u /\ \A p \in Page \ Taken : t.mem[p] = m[p]
  BY <1>3, <1>5, <1>7, <1>8
<1>10. t.pgdir[Kern] = KernDir(1)
  BY <1>2
<1>11. CheckState(t, g, Refs3(i, j, k), 1, u)
  BY <1>9, <1>10, CheckFrame
<1> QED
  BY <1>4, <1>6, <1>9, <1>11

(* 1: a page cannot be mapped without memory for the table.                *)
LEMMA Call1 ==
  ASSUME MemInv, mm.status = "run", check_page_calls, at = 1
  PROVE  MemInv'
<1>1. PICK i : i = insert(mm, pp[2], V0, {"W"})
  OBVIOUS
<1>2. /\ pc = "check_page_calls"
      /\ NextIs(mm, NULL) /\ page_lookup(mm, Kern, V0).pp = NULL /\ i.ret # "OK" => Leaves(1, i.st)
  BY <1>1 DEF check_page_calls, Call, Leaves
<1>3. CheckState(mm, NULL, Refs3(0, 0, 0), 0, NULL)
  BY <1>2, CallFacts DEF Before
<1>4. mm \in MMType /\ mm.page_free_list = NULL /\ mm.pgdir[Kern][0] = NULL
  BY <1>2, <1>3, StateFacts
<1>5. ~HasTable(mm, Kern, V0)
  BY <1>4 DEF HasTable, V0
<1>6. insert(mm, pp[2], V0, {"W"}) = [st |-> mm, ret |-> "E_NO_MEM"]
  <2>1. {"W"} \in SUBSET {"W", "U"} /\ Kern \in Pgdirs /\ V0 \in VA /\ pp[2] \in Page
    BY <1>2, CallFacts
  <2> QED
    BY <1>4, <1>5, <2>1, InsertNowhere DEF insert
<1>7. NextIs(mm, NULL) /\ page_lookup(mm, Kern, V0).pp = NULL
  BY <1>2, <1>4, <1>5, AllocHead, LookupNowhere, CallFacts DEF NextIs
<1>8. Leaves(1, mm)
  <2>1. i.st = mm /\ i.ret # "OK"
    BY <1>1, <1>6
  <2> QED
    BY <1>2, <1>7, <2>1
<1>9. Before(mm, 2)
  BY <1>3 DEF Before
<1> QED
  BY <1>4, <1>8, <1>9, CallEnd

(* 2: a page given back becomes the table, and the page is mapped.         *)
LEMMA Call2 ==
  ASSUME MemInv, mm.status = "run", check_page_calls, at = 2
  PROVE  MemInv'
<1>1. PICK s, i : s = page_free(mm, pp[1]) /\ i = insert(s, pp[2], V0, {"W"})
  OBVIOUS
<1>2. /\ pc = "check_page_calls"
      /\ /\ i.ret = "OK" /\ i.st.pgdir[Kern][0] = pp[1]
         /\ Maps(i.st, V0, pp[2]) /\ i.st.pp_ref[pp[2]] = 1 /\ i.st.pp_ref[pp[1]] = 1
         => Leaves(2, i.st)
  BY <1>1 DEF check_page_calls, Call, Leaves
<1>3. CheckState(mm, NULL, Refs3(0, 0, 0), 0, NULL)
  BY <1>2, CallFacts DEF Before
<1>4. /\ mm \in MMType /\ mm.page_free_list = NULL /\ mm.pgdir[Kern][0] = NULL
      /\ mm.pp_link[pp[1]] = NULL
      /\ mm.pp_ref[pp[1]] = 0 /\ mm.pp_ref[pp[2]] = 0 /\ mm.pp_ref[pp[3]] = 0
      /\ mm.pgdir[Kern] = KernDir(0)
  BY <1>2, <1>3, StateFacts
<1>5. /\ pp[1] \in Page /\ pp[2] \in Page /\ pp[1] # pp[2] /\ pp[3] # pp[1] /\ pp[3] # pp[2]
      /\ pp[3] \in Page /\ V0 \in VA /\ Kern \in Pgdirs /\ RefMod > 2 /\ RefMod \in Nat /\ 0 \in PTX /\ 0 \in PDX
      /\ Taken = {pp[1], pp[2], pp[3]} /\ Taken \subseteq Page
  BY <1>2, CallFacts
<1>6. /\ s \in MMType /\ s.page_free_list = pp[1]
      /\ s.pp_link = [mm.pp_link EXCEPT ![pp[1]] = NULL]
      /\ s.mem = mm.mem /\ s.pp_ref = mm.pp_ref /\ s.pgdir = mm.pgdir /\ s.status = mm.status
      /\ \A p \in Page : IsFree(s, p) => IsFree(mm, p) \/ p = pp[1]
  <2>1. LET t == page_free(mm, pp[1])
        IN  /\ t \in MMType /\ t.page_free_list = pp[1]
            /\ t.pp_link = [mm.pp_link EXCEPT ![pp[1]] = mm.page_free_list]
            /\ t.mem = mm.mem /\ t.pp_ref = mm.pp_ref /\ t.pgdir = mm.pgdir /\ t.status = mm.status
            /\ \A p \in Page : IsFree(t, p) => IsFree(mm, p) \/ p = pp[1]
    BY <1>4, <1>5, PutHead
  <2> QED
    BY <1>1, <1>4, <2>1
<1>7. s.pp_link = mm.pp_link
  BY <1>4, <1>5, <1>6 DEF MMType
<1>8. PICK e : e = EntryFor(2, {"W"})
  OBVIOUS
<1>9. PICK t : t = i.st
  OBVIOUS
<1>10. /\ i.ret = "OK" /\ t \in MMType
       /\ t.page_free_list = s.pp_link[pp[1]]
       /\ t.pp_link = [s.pp_link EXCEPT ![pp[1]] = NULL]
       /\ t.mem = [s.mem EXCEPT ![pp[1]] = FirstEntry(0, e)]
       /\ t.pp_ref = Recounted(s.pp_ref, pp[1], 1, pp[2], 1)
       /\ t.pgdir = Written(s.pgdir, Kern, 0, pp[1])
       /\ t.status = s.status
       /\ \A q \in Page : IsFree(t, q) => IsFree(s, q)
  <2>1. ~HasTable(s, Kern, V0) /\ s.pp_ref[pp[1]] = 0 /\ s.pp_ref[pp[2]] = 0
    <3>1. s.pgdir[Kern][0] = NULL /\ s.pp_ref[pp[1]] = 0 /\ s.pp_ref[pp[2]] = 0
      BY <1>4, <1>6
    <3>2. ~HasTable(s, Kern, V0)
      BY <3>1 DEF HasTable, V0
    <3> QED
      BY <1>5, <3>1, <3>2
  <2>2. {"W"} \in SUBSET {"W", "U"}
    OBVIOUS
  <2>0. PICK a, b, w : a = pp[1] /\ b = pp[2] /\ w = {"W"}
    OBVIOUS
  <2> DEFINE j == page_insert(s, Kern, b, V0, w)
  <2>3. /\ j.ret = "OK" /\ j.st \in MMType
        /\ j.st.page_free_list = s.pp_link[a]
        /\ j.st.pp_link = [s.pp_link EXCEPT ![a] = NULL]
        /\ j.st.mem = [s.mem EXCEPT ![a] = FirstEntry(V0[2], EntryOf(b, w))]
        /\ j.st.pp_ref = Recounted(s.pp_ref, a, 1, b, 1)
        /\ j.st.pgdir = Written(s.pgdir, Kern, V0[1], a)
        /\ j.st.status = s.status
        /\ \A q \in Page : IsFree(j.st, q) => IsFree(s, q)
    <3>1. /\ s \in MMType /\ Kern \in Pgdirs /\ V0 \in VA /\ ~HasTable(s, Kern, V0)
          /\ a \in Page /\ s.page_free_list = a /\ s.pp_ref[a] = 0
          /\ b \in Page /\ b # a /\ s.pp_ref[b] = 0 /\ w \in SUBSET {"W", "U"}
      BY <1>5, <1>6, <2>0, <2>1, <2>2
    <3>2. NewMapping(s, j, Kern, V0, a, b, w)
      BY <3>1, InsertNew
    <3> HIDE DEF j
    <3> QED
      BY <3>2 DEF NewMapping
  <2>4. j = i
    BY <1>1, <2>0 DEF insert
  <2> HIDE DEF j
  <2>5. V0[1] = 0 /\ V0[2] = 0 /\ EntryOf(pp[2], {"W"}) = e
    BY <1>8, EntryFacts DEF V0
  <2> QED
    BY <1>9, <2>0, <2>3, <2>4, <2>5
<1>11. /\ t.page_free_list = NULL /\ t.pp_link = mm.pp_link /\ t.status = mm.status
       /\ t.pp_ref[pp[1]] = 1 /\ t.pp_ref[pp[2]] = 1 /\ t.pp_ref[pp[3]] = 0
       /\ \A p \in Page \ Taken : t.pp_ref[p] = mm.pp_ref[p] /\ t.mem[p] = mm.mem[p]
       /\ \A p \in Page : IsFree(t, p) => IsFree(mm, p) \/ p \in Taken
  <2>1. t.page_free_list = NULL /\ t.pp_link = mm.pp_link /\ t.status = mm.status
    BY <1>4, <1>6, <1>7, <1>10
  <2>2. /\ t.pp_ref[pp[1]] = 1 /\ t.pp_ref[pp[2]] = 1 /\ t.pp_ref[pp[3]] = 0
        /\ \A p \in Page \ Taken : t.pp_ref[p] = mm.pp_ref[p] /\ t.mem[p] = mm.mem[p]
    BY <1>4, <1>5, <1>6, <1>10 DEF MMType, Recounted
  <2>3. \A p \in Page : IsFree(t, p) => IsFree(mm, p) \/ p \in Taken
    BY <1>5, <1>6, <1>10
  <2> QED
    BY <2>1, <2>2, <2>3
<1>12. t.mem[pp[1]] = Table2(e, ZeroPte)
  <2>1. t.mem[pp[1]] = FirstEntry(0, e)
    BY <1>5, <1>6, <1>10 DEF MMType
  <2> QED
    BY <1>5, <2>1 DEF FirstEntry, Zeros, Table2
<1>13. t.pgdir[Kern] = KernDir(1)
  <2>1. mm.pgdir \in [Pgdirs -> [PDX -> Page \cup {NULL}]]
    BY <1>4 DEF MMType
  <2>2. t.pgdir[Kern] = [KernDir(0) EXCEPT ![0] = pp[1]]
    BY <1>4, <1>5, <1>6, <1>10, <2>1 DEF Written
  <2>3. UVPT # 0
    BY KernFacts
  <2> QED
    BY <1>5, <2>2, <2>3 DEF KernDir
<1>14. CheckState(t, NULL, Refs3(1, 1, 0), 1, Table2(e, ZeroPte))
  BY ZenonT(30), <1>2, <1>3, <1>10, <1>11, <1>12, <1>13, CheckFrame
<1>15. t.pgdir[Kern][0] = pp[1] /\ Maps(t, V0, pp[2])
  <2>1. HasTable(t, Kern, V0) /\ Pte(t, Kern, V0) = e /\ t.pgdir[Kern][0] = pp[1]
    BY <1>2, <1>14, TableFacts
  <2> QED
    BY <1>8, <2>1, EntryFacts DEF Maps, IsMapped
<1>16. Leaves(2, t)
  BY <1>2, <1>9, <1>10, <1>11, <1>15
<1>17. Before(t, 3)
  BY <1>8, <1>14 DEF Before
<1>18. t \in MMType /\ t.status = "run" /\ \A p \in Page \ Taken : t.mem[p] = mm.mem[p]
  BY <1>10, <1>11
<1> QED
  BY <1>16, <1>17, <1>18, CallEnd

(* The state behind a call, when there is a table.                         *)
Next3(t, g, r, T) ==
  /\ t \in MMType /\ t.status = "run" /\ CheckState(t, g, r, 1, T)
  /\ \A p \in Page \ Taken : t.mem[p] = mm.mem[p]

(* The page at V1 is inserted again with other permissions.                *)
LEMMA InsertAgain ==
  ASSUME MemInv, pc = "check_page_calls", mm.status = "run",
         NEW e0, NEW n \in {2, 3}, NEW q, NEW perm \in SUBSET {"W", "U"}, NEW j, NEW k,
         CheckState(mm, NULL, Refs3(1, j, k), 1, Table2(e0, EntryFor(n, q))),
         mm.pp_ref[pp[n]] = 1, NEW i, i = insert(mm, pp[n], V1, perm)
  PROVE  i.ret = "OK" /\ Next3(i.st, NULL, Refs3(1, j, k), Table2(e0, EntryFor(n, perm)))
<1>1. /\ mm \in MMType /\ mm.page_free_list = NULL
      /\ mm.pp_ref[pp[1]] = 1 /\ mm.pp_ref[pp[2]] = j /\ mm.pp_ref[pp[3]] = k
  BY StateFacts
<1>2. /\ HasTable(mm, Kern, V1) /\ Pte(mm, Kern, V1) = EntryFor(n, q)
      /\ mm.pgdir[Kern][0] = pp[1]
  BY TableFacts
<1>3. pp[n] \in Page /\ Kern \in Pgdirs /\ V1 \in VA /\ RefMod > 2 /\ RefMod \in Nat
  BY CallFacts
<1>4. PICK a : a = pp[n]
  OBVIOUS
<1>5. Present(Pte(mm, Kern, V1)) /\ Pte(mm, Kern, V1).addr = a
  BY <1>2, <1>4, EntryFacts
<1>6. a \in Page /\ mm.pp_ref[a] > 0 /\ mm.pp_ref[a] + 1 < RefMod
  BY <1>3, <1>4
<1>7. Remapping(mm, page_insert(mm, Kern, a, V1, perm), Kern, V1, a, perm)
  BY <1>1, <1>2, <1>3, <1>5, <1>6, InsertSame
<1>8. Remapping(mm, i, Kern, V1, a, perm)
  BY <1>4, <1>7 DEF insert
<1>9. PICK t, e : t = i.st /\ e = EntryFor(n, perm)
  OBVIOUS
<1>10. V1[1] = 0 /\ V1[2] = 1 /\ EntryOf(a, perm) = e
  BY <1>4, <1>9, EntryFacts DEF V1
<1>11. /\ i.ret = "OK" /\ SameList(mm, t) /\ t.pp_ref = mm.pp_ref
       /\ t.mem = Written(mm.mem, pp[1], 1, e)
  BY <1>2, <1>8, <1>9, <1>10 DEF Remapping
<1>12. /\ t \in MMType /\ t.pp_link = mm.pp_link /\ t.status = mm.status /\ t.pgdir = mm.pgdir
       /\ t.page_free_list = NULL
       /\ \A p \in Page : IsFree(t, p) => IsFree(mm, p) \/ p \in Taken
  BY <1>1, <1>11 DEF SameList, IsFree
<1>13. /\ CheckState(t, NULL, Refs3(1, j, k), 1,
                     IF 1 = 0 THEN Table2(e, EntryFor(n, q)) ELSE Table2(e0, e))
       /\ \A p \in Page \ Taken : t.mem[p] = mm.mem[p]
  <2>1. PICK r, x, y : r = Refs3(1, j, k) /\ x = EntryFor(n, q) /\ y = 1
    OBVIOUS
  <2>2. CheckState(mm, NULL, r, 1, Table2(e0, x)) /\ \E b, c, d : r = Refs3(b, c, d)
    BY <2>1
  <2>3. t.mem = Written(mm.mem, pp[1], y, e) /\ y \in {0, 1}
        /\ \A p \in Page \ Taken : t.pp_ref[p] = mm.pp_ref[p]
    BY <1>11, <2>1
  <2>4. t.pp_ref[pp[1]] = 1 /\ t.pp_ref[pp[2]] = j /\ t.pp_ref[pp[3]] = k
    BY <1>1, <1>11
  <2>5. /\ CheckState(t, NULL, Refs3(1, j, k), 1, IF y = 0 THEN Table2(e, x) ELSE Table2(e0, e))
        /\ \A p \in Page \ Taken : t.mem[p] = mm.mem[p]
    BY <1>12, <2>2, <2>3, <2>4, TableStep
  <2> QED
    BY <2>1, <2>5
<1> QED
  BY <1>9, <1>11, <1>12, <1>13 DEF Next3

(* 3: the second page is mapped at the next address.                       *)
LEMMA Call3 ==
  ASSUME MemInv, mm.status = "run", check_page_calls, at = 3
  PROVE  MemInv'
<1>1. PICK i, t : i = insert(mm, pp[3], V1, {"W"}) /\ t = i.st
  OBVIOUS
<1>2. /\ pc = "check_page_calls"
      /\ /\ i.ret = "OK" /\ Maps(t, V1, pp[3]) /\ t.pp_ref[pp[3]] = 1 /\ NextIs(t, NULL)
         => Leaves(3, t)
  BY <1>1 DEF check_page_calls, Call, Leaves
<1>3. PICK e, f : e = EntryFor(2, {"W"}) /\ f = EntryFor(3, {"W"})
  OBVIOUS
<1>4. CheckState(mm, NULL, Refs3(1, 1, 0), 1, Table2(e, ZeroPte))
  BY <1>2, <1>3, CallFacts DEF Before
<1>5. /\ mm \in MMType /\ mm.page_free_list = NULL
      /\ mm.pp_ref[pp[1]] = 1 /\ mm.pp_ref[pp[2]] = 1 /\ mm.pp_ref[pp[3]] = 0
  BY <1>2, <1>4, StateFacts
<1>6. /\ HasTable(mm, Kern, V1) /\ Pte(mm, Kern, V1) = ZeroPte /\ mm.pgdir[Kern][0] = pp[1]
  BY <1>2, <1>4, TableFacts
<1>7. /\ pp[1] \in Page /\ pp[2] \in Page /\ pp[3] \in Page /\ pp[1] # pp[3] /\ pp[2] # pp[3]
      /\ Kern \in Pgdirs /\ V1 \in VA /\ RefMod > 2 /\ RefMod \in Nat
      /\ Taken = {pp[1], pp[2], pp[3]}
  BY <1>2, CallFacts
<1>8. FirstMapping(mm, i, Kern, V1, pp[3], {"W"})
  <2>1. PICK a, w : a = pp[3] /\ w = {"W"}
    OBVIOUS
  <2>2. a \in Page /\ w \in SUBSET {"W", "U"} /\ mm.pp_ref[a] + 1 < RefMod
        /\ ~Present(Pte(mm, Kern, V1))
    BY <1>5, <1>6, <1>7, <2>1, EntryFacts
  <2>3. FirstMapping(mm, page_insert(mm, Kern, a, V1, w), Kern, V1, a, w)
    BY <1>5, <1>6, <1>7, <2>2, InsertFresh
  <2> QED
    BY <1>1, <2>1, <2>3 DEF insert
<1>9. /\ i.ret = "OK" /\ SameList(mm, t) /\ t.pp_ref = [mm.pp_ref EXCEPT ![pp[3]] = @ + 1]
      /\ t.mem = Written(mm.mem, pp[1], 1, f)
  <2>1. V1[1] = 0 /\ V1[2] = 1 /\ EntryOf(pp[3], {"W"}) = f
    BY <1>3, EntryFacts DEF V1
  <2> QED
    BY <1>1, <1>6, <1>8, <2>1 DEF FirstMapping
<1>10. /\ t \in MMType /\ t.pp_link = mm.pp_link /\ t.status = mm.status /\ t.pgdir = mm.pgdir
       /\ t.page_free_list = NULL
       /\ \A p \in Page : IsFree(t, p) => IsFree(mm, p) \/ p \in Taken
  BY <1>5, <1>9 DEF SameList, IsFree
<1>11. /\ t.pp_ref[pp[1]] = 1 /\ t.pp_ref[pp[2]] = 1 /\ t.pp_ref[pp[3]] = 1
       /\ \A p \in Page \ Taken : t.pp_ref[p] = mm.pp_ref[p]
  BY <1>5, <1>7, <1>9 DEF MMType
<1>12. /\ CheckState(t, NULL, Refs3(1, 1, 1), 1, Table2(e, f))
       /\ \A p \in Page \ Taken : t.mem[p] = mm.mem[p]
  <2>1. PICK r, y : r = Refs3(1, 1, 0) /\ y = 1
    OBVIOUS
  <2>2. CheckState(mm, NULL, r, 1, Table2(e, ZeroPte)) /\ \E b, c, d : r = Refs3(b, c, d)
    BY <1>4, <2>1
  <2>3. t.mem = Written(mm.mem, pp[1], y, f) /\ y \in {0, 1}
    BY <1>9, <2>1
  <2>4. /\ CheckState(t, NULL, Refs3(1, 1, 1), 1, IF y = 0 THEN Table2(f, ZeroPte) ELSE Table2(e, f))
        /\ \A p \in Page \ Taken : t.mem[p] = mm.mem[p]
    BY <1>2, <1>10, <1>11, <2>2, <2>3, TableStep
  <2> QED
    BY <2>1, <2>4
<1>13. Maps(t, V1, pp[3]) /\ NextIs(t, NULL)
  <2>1. HasTable(t, Kern, V1) /\ Pte(t, Kern, V1) = f
    BY <1>2, <1>12, TableFacts
  <2>2. NextIs(t, NULL)
    BY <1>10, AllocHead DEF NextIs
  <2> QED
    BY <1>3, <2>1, <2>2, EntryFacts DEF Maps, IsMapped
<1>14. Leaves(3, t)
  BY <1>2, <1>9, <1>11, <1>13
<1>15. Before(t, 4)
  BY <1>3, <1>12 DEF Before
<1>16. t.status = "run"
  BY <1>10
<1> QED
  BY <1>10, <1>12, <1>14, <1>15, <1>16, CallEnd

(* 4, 5 and 6: the same again, with PTE_U, and without.                    *)
LEMMA Call4 ==
  ASSUME MemInv, mm.status = "run", check_page_calls, at = 4
  PROVE  MemInv'
<1>1. PICK i, t : i = insert(mm, pp[3], V1, {"W"}) /\ t = i.st
  OBVIOUS
<1>2. /\ pc = "check_page_calls"
      /\ /\ i.ret = "OK" /\ Maps(t, V1, pp[3]) /\ t.pp_ref[pp[3]] = 1 /\ NextIs(t, NULL)
         => Leaves(4, t)
  BY <1>1 DEF check_page_calls, Call, Leaves
<1>3. PICK e : e = EntryFor(2, {"W"})
  OBVIOUS
<1>4. CheckState(mm, NULL, Refs3(1, 1, 1), 1, Table2(e, EntryFor(3, {"W"})))
  BY <1>2, <1>3, CallFacts DEF Before
<1>5. mm.pp_ref[pp[3]] = 1
  BY <1>2, <1>4, StateFacts
<1>6. /\ i.ret = "OK" /\ t \in MMType /\ t.status = "run"
      /\ CheckState(t, NULL, Refs3(1, 1, 1), 1, Table2(e, EntryFor(3, {"W"})))
      /\ \A p \in Page \ Taken : t.mem[p] = mm.mem[p]
  <2>1. PICK w, n, j, k : w = {"W"} /\ n = 3 /\ j = 1 /\ k = 1
    OBVIOUS
  <2>2. /\ CheckState(mm, NULL, Refs3(1, j, k), 1, Table2(e, EntryFor(n, w)))
        /\ w \in SUBSET {"W", "U"} /\ n \in {2, 3} /\ mm.pp_ref[pp[n]] = 1
        /\ i = insert(mm, pp[n], V1, w)
    BY <1>1, <1>4, <1>5, <2>1
  <2>3. pc = "check_page_calls"
    BY <1>2
  <2>4. i.ret = "OK" /\ Next3(i.st, NULL, Refs3(1, j, k), Table2(e, EntryFor(n, w)))
    BY <2>2, <2>3, InsertAgain
  <2> QED
    BY <1>1, <2>1, <2>4 DEF Next3
<1>7. Maps(t, V1, pp[3]) /\ t.pp_ref[pp[3]] = 1 /\ NextIs(t, NULL)
  <2>1. HasTable(t, Kern, V1) /\ Pte(t, Kern, V1) = EntryFor(3, {"W"})
    BY <1>2, <1>6, TableFacts
  <2>2. t.pp_ref[pp[3]] = 1 /\ t.page_free_list = NULL
    BY <1>2, <1>6, StateFacts
  <2>3. NextIs(t, NULL)
    BY <1>6, <2>2, AllocHead DEF NextIs
  <2> QED
    BY <2>1, <2>2, <2>3, EntryFacts DEF Maps, IsMapped
<1>8. Leaves(4, t)
  BY <1>2, <1>6, <1>7
<1>9. Before(t, 5)
  BY <1>3, <1>6 DEF Before
<1> QED
  BY <1>6, <1>8, <1>9, CallEnd

LEMMA Call5 ==
  ASSUME MemInv, mm.status = "run", check_page_calls, at = 5
  PROVE  MemInv'
<1>1. PICK i, t : i = insert(mm, pp[3], V1, {"W", "U"}) /\ t = i.st
  OBVIOUS
<1>2. /\ pc = "check_page_calls"
      /\ /\ find(mm, V1).pte = <<mm.pgdir[Kern][0], 1>>
         /\ i.ret = "OK" /\ Maps(t, V1, pp[3]) /\ t.pp_ref[pp[3]] = 1
         /\ "U" \in Pte(t, Kern, V1).perm /\ "U" \in PdePerm(t, 0)
         => Leaves(5, t)
  BY <1>1 DEF check_page_calls, Call, Leaves
<1>3. PICK e : e = EntryFor(2, {"W"})
  OBVIOUS
<1>4. CheckState(mm, NULL, Refs3(1, 1, 1), 1, Table2(e, EntryFor(3, {"W"})))
  BY <1>2, <1>3, CallFacts DEF Before
<1>5. mm.pp_ref[pp[3]] = 1
  BY <1>2, <1>4, StateFacts
<1>6. /\ i.ret = "OK" /\ t \in MMType /\ t.status = "run"
      /\ CheckState(t, NULL, Refs3(1, 1, 1), 1, Table2(e, EntryFor(3, {"W", "U"})))
      /\ \A p \in Page \ Taken : t.mem[p] = mm.mem[p]
  <2>1. PICK q, w, n, j, k : q = {"W"} /\ w = {"W", "U"} /\ n = 3 /\ j = 1 /\ k = 1
    OBVIOUS
  <2>2. /\ CheckState(mm, NULL, Refs3(1, j, k), 1, Table2(e, EntryFor(n, q)))
        /\ w \in SUBSET {"W", "U"} /\ n \in {2, 3} /\ mm.pp_ref[pp[n]] = 1
        /\ i = insert(mm, pp[n], V1, w)
    BY <1>1, <1>4, <1>5, <2>1
  <2>3. pc = "check_page_calls"
    BY <1>2
  <2>4. i.ret = "OK" /\ Next3(i.st, NULL, Refs3(1, j, k), Table2(e, EntryFor(n, w)))
    BY <2>2, <2>3, InsertAgain
  <2> QED
    BY <1>1, <2>1, <2>4 DEF Next3
<1>7. Maps(t, V1, pp[3]) /\ t.pp_ref[pp[3]] = 1 /\ "U" \in Pte(t, Kern, V1).perm
  <2>1. HasTable(t, Kern, V1) /\ Pte(t, Kern, V1) = EntryFor(3, {"W", "U"})
    BY <1>2, <1>6, TableFacts
  <2>2. t.pp_ref[pp[3]] = 1
    BY <1>2, <1>6, StateFacts
  <2>3. EntryFor(3, {"W", "U"}).perm = {"W", "U"} \cup {"P"}
    BY EntryFacts
  <2> QED
    BY <2>1, <2>2, <2>3, EntryFacts DEF Maps, IsMapped
<1>8. find(mm, V1).pte = <<mm.pgdir[Kern][0], 1>>
  <2>1. mm \in MMType /\ HasTable(mm, Kern, V1)
    BY <1>2, <1>4, StateFacts, TableFacts
  <2> DEFINE k == pgdir_walk(mm, Kern, V1, FALSE)
  <2>2. k = [st |-> mm, pte |-> <<mm.pgdir[Kern][V1[1]], V1[2]>>]
    BY <1>2, <2>1, CallFacts, WalkThere
  <2> HIDE DEF k
  <2>3. k.pte = <<mm.pgdir[Kern][0], 1>>
    BY <2>2 DEF V1
  <2> QED
    BY <2>3 DEF k, find
<1>9. "U" \in PdePerm(t, 0)
  <2>1. HasTable(t, Kern, V1) /\ V1[1] = 0 /\ UVPT # 0
    BY <1>2, <1>6, TableFacts, KernFacts DEF V1
  <2> QED
    BY <2>1 DEF PdePerm, TablePerm, HasTable
<1>10. Leaves(5, t)
  BY <1>2, <1>6, <1>7, <1>8, <1>9
<1>11. Before(t, 6)
  BY <1>3, <1>6 DEF Before
<1> QED
  BY <1>6, <1>10, <1>11, CallEnd

LEMMA Call6 ==
  ASSUME MemInv, mm.status = "run", check_page_calls, at = 6
  PROVE  MemInv'
<1>1. PICK i, t : i = insert(mm, pp[3], V1, {"W"}) /\ t = i.st
  OBVIOUS
<1>2. /\ pc = "check_page_calls"
      /\ /\ i.ret = "OK" /\ "W" \in Pte(t, Kern, V1).perm /\ "U" \notin Pte(t, Kern, V1).perm
         => Leaves(6, t)
  BY <1>1 DEF check_page_calls, Call, Leaves
<1>3. PICK e : e = EntryFor(2, {"W"})
  OBVIOUS
<1>4. CheckState(mm, NULL, Refs3(1, 1, 1), 1, Table2(e, EntryFor(3, {"W", "U"})))
  BY <1>2, <1>3, CallFacts DEF Before
<1>5. mm.pp_ref[pp[3]] = 1
  BY <1>2, <1>4, StateFacts
<1>6. /\ i.ret = "OK" /\ t \in MMType /\ t.status = "run"
      /\ CheckState(t, NULL, Refs3(1, 1, 1), 1, Table2(e, EntryFor(3, {"W"})))
      /\ \A p \in Page \ Taken : t.mem[p] = mm.mem[p]
  <2>1. PICK q, w, n, j, k : q = {"W", "U"} /\ w = {"W"} /\ n = 3 /\ j = 1 /\ k = 1
    OBVIOUS
  <2>2. /\ CheckState(mm, NULL, Refs3(1, j, k), 1, Table2(e, EntryFor(n, q)))
        /\ w \in SUBSET {"W", "U"} /\ n \in {2, 3} /\ mm.pp_ref[pp[n]] = 1
        /\ i = insert(mm, pp[n], V1, w)
    BY <1>1, <1>4, <1>5, <2>1
  <2>3. pc = "check_page_calls"
    BY <1>2
  <2>4. i.ret = "OK" /\ Next3(i.st, NULL, Refs3(1, j, k), Table2(e, EntryFor(n, w)))
    BY <2>2, <2>3, InsertAgain
  <2> QED
    BY <1>1, <2>1, <2>4 DEF Next3
<1>7. "W" \in Pte(t, Kern, V1).perm /\ "U" \notin Pte(t, Kern, V1).perm
  <2>1. Pte(t, Kern, V1) = EntryFor(3, {"W"})
    BY <1>2, <1>6, TableFacts
  <2>2. EntryFor(3, {"W"}).perm = {"W"} \cup {"P"}
    BY EntryFacts
  <2> QED
    BY <2>1, <2>2
<1>8. Leaves(6, t)
  BY <1>2, <1>6, <1>7
<1>9. Before(t, 7)
  BY <1>3, <1>6 DEF Before
<1> QED
  BY <1>6, <1>8, <1>9, CallEnd

(* 7: there is no memory for another table.                                *)
LEMMA Call7 ==
  ASSUME MemInv, mm.status = "run", check_page_calls, at = 7
  PROVE  MemInv'
<1>1. PICK i : i = insert(mm, pp[1], W0, {"W"})
  OBVIOUS
<1>2. pc = "check_page_calls" /\ (i.ret # "OK" => Leaves(7, i.st))
  BY <1>1 DEF check_page_calls, Call, Leaves
<1>3. PICK e, f : e = EntryFor(2, {"W"}) /\ f = EntryFor(3, {"W"})
  OBVIOUS
<1>4. CheckState(mm, NULL, Refs3(1, 1, 1), 1, Table2(e, f))
  BY <1>2, <1>3, CallFacts DEF Before
<1>5. mm \in MMType /\ mm.page_free_list = NULL
  BY <1>2, <1>4, StateFacts
<1>6. ~HasTable(mm, Kern, W0)
  BY <1>2, <1>4, TableFacts
<1>7. insert(mm, pp[1], W0, {"W"}) = [st |-> mm, ret |-> "E_NO_MEM"]
  <2>1. {"W"} \in SUBSET {"W", "U"} /\ Kern \in Pgdirs /\ W0 \in VA /\ pp[1] \in Page
    BY <1>2, CallFacts
  <2> QED
    BY <1>5, <1>6, <2>1, InsertNowhere DEF insert
<1>8. Leaves(7, mm)
  <2>1. i.st = mm /\ i.ret # "OK"
    BY <1>1, <1>7
  <2> QED
    BY <1>2, <2>1
<1>9. Before(mm, 8)
  BY <1>3, <1>4 DEF Before
<1> QED
  BY <1>5, <1>8, <1>9, CallEnd

(* 8: the first page replaces the second, which is freed.                  *)
LEMMA Call8 ==
  ASSUME MemInv, mm.status = "run", check_page_calls, at = 8
  PROVE  MemInv'
<1>1. PICK i, t : i = insert(mm, pp[2], V1, {"W"}) /\ t = i.st
  OBVIOUS
<1>2. /\ pc = "check_page_calls"
      /\ /\ i.ret = "OK" /\ "U" \notin Pte(t, Kern, V1).perm
         /\ Maps(t, V0, pp[2]) /\ Maps(t, V1, pp[2])
         /\ t.pp_ref[pp[2]] = 2 /\ t.pp_ref[pp[3]] = 0
         => Leaves(8, t)
  BY <1>1 DEF check_page_calls, Call, Leaves
<1>3. PICK e, f : e = EntryFor(2, {"W"}) /\ f = EntryFor(3, {"W"})
  OBVIOUS
<1>4. CheckState(mm, NULL, Refs3(1, 1, 1), 1, Table2(e, f))
  BY <1>2, <1>3, CallFacts DEF Before
<1>5. /\ mm \in MMType /\ mm.page_free_list = NULL /\ mm.pp_link[pp[3]] = NULL
      /\ mm.pp_ref[pp[1]] = 1 /\ mm.pp_ref[pp[2]] = 1 /\ mm.pp_ref[pp[3]] = 1
  BY <1>2, <1>4, StateFacts
<1>6. /\ HasTable(mm, Kern, V1) /\ Pte(mm, Kern, V1) = f /\ mm.pgdir[Kern][0] = pp[1]
  BY <1>2, <1>4, TableFacts
<1>7. /\ pp[1] \in Page /\ pp[2] \in Page /\ pp[3] \in Page
      /\ pp[1] # pp[2] /\ pp[1] # pp[3] /\ pp[2] # pp[3]
      /\ Kern \in Pgdirs /\ V1 \in VA /\ RefMod > 2 /\ RefMod \in Nat
      /\ Taken = {pp[1], pp[2], pp[3]}
  BY <1>2, CallFacts
<1>8. LastReplaced(mm, i, Kern, V1, pp[3], pp[2], {"W"})
  <2>1. PICK a, p, w : a = pp[3] /\ p = pp[2] /\ w = {"W"}
    OBVIOUS
  <2>2. /\ a \in Page /\ p \in Page /\ a # p /\ w \in SUBSET {"W", "U"}
        /\ mm.pp_ref[p] = 1 /\ mm.pp_ref[a] = 1 /\ mm.pp_link[a] = NULL
    BY <1>5, <1>7, <2>1
  <2>3. Present(Pte(mm, Kern, V1)) /\ Pte(mm, Kern, V1).addr = a
    BY <1>3, <1>6, <2>1, EntryFacts
  <2>4. LastReplaced(mm, page_insert(mm, Kern, p, V1, w), Kern, V1, a, p, w)
    BY <1>5, <1>6, <1>7, <2>2, <2>3, InsertOver
  <2> QED
    BY <1>1, <2>1, <2>4 DEF insert
<1>9. /\ i.ret = "OK" /\ t \in MMType /\ t.page_free_list = pp[3]
      /\ t.pp_link = [mm.pp_link EXCEPT ![pp[3]] = NULL]
      /\ t.pp_ref = Recounted(mm.pp_ref, pp[2], 2, pp[3], 0)
      /\ t.mem = Written(mm.mem, pp[1], 1, e)
      /\ t.pgdir = mm.pgdir /\ t.status = mm.status
      /\ \A q \in Page : IsFree(t, q) => IsFree(mm, q) \/ q \in Taken
  <2>1. V1[1] = 0 /\ V1[2] = 1 /\ EntryOf(pp[2], {"W"}) = e
    BY <1>3, EntryFacts DEF V1
  <2> QED
    BY <1>1, <1>5, <1>6, <1>7, <1>8, <2>1 DEF LastReplaced
<1>10. t.pp_link = mm.pp_link
  BY <1>5, <1>7, <1>9 DEF MMType
<1>11. /\ t.pp_ref[pp[1]] = 1 /\ t.pp_ref[pp[2]] = 2 /\ t.pp_ref[pp[3]] = 0
       /\ \A p \in Page \ Taken : t.pp_ref[p] = mm.pp_ref[p]
  <2>1. mm.pp_ref \in [Page -> 0 .. RefMod - 1]
    BY <1>5 DEF MMType
  <2> QED
    BY <1>5, <1>7, <1>9, <2>1 DEF Recounted
<1>12. /\ CheckState(t, pp[3], Refs3(1, 2, 0), 1, Table2(e, e))
       /\ \A p \in Page \ Taken : t.mem[p] = mm.mem[p]
  <2>1. PICK r, y, g : r = Refs3(1, 1, 1) /\ y = 1 /\ g = pp[3]
    OBVIOUS
  <2>2. CheckState(mm, NULL, r, 1, Table2(e, f)) /\ \E b, c, d : r = Refs3(b, c, d)
    BY <1>4, <2>1
  <2>3. t.mem = Written(mm.mem, pp[1], y, e) /\ y \in {0, 1} /\ t.page_free_list = g
        /\ t \in MMType /\ t.pgdir = mm.pgdir /\ t.status = mm.status
        /\ \A q \in Page : IsFree(t, q) => IsFree(mm, q) \/ q \in Taken
    BY <1>9, <2>1
  <2>4. /\ CheckState(t, g, Refs3(1, 2, 0), 1, IF y = 0 THEN Table2(e, f) ELSE Table2(e, e))
        /\ \A p \in Page \ Taken : t.mem[p] = mm.mem[p]
    BY <1>2, <1>10, <1>11, <2>2, <2>3, TableStep
  <2> QED
    BY <2>1, <2>4
<1>13. Maps(t, V0, pp[2]) /\ Maps(t, V1, pp[2]) /\ "U" \notin Pte(t, Kern, V1).perm
  <2>1. /\ HasTable(t, Kern, V1) /\ Pte(t, Kern, V1) = e
        /\ HasTable(t, Kern, V0) /\ Pte(t, Kern, V0) = e
    BY <1>2, <1>12, TableFacts
  <2>2. e.addr = pp[2] /\ Present(e) /\ e.perm = {"W"} \cup {"P"}
    BY <1>3, EntryFacts
  <2> QED
    BY <2>1, <2>2 DEF Maps, IsMapped
<1>14. Leaves(8, t)
  BY <1>2, <1>9, <1>11, <1>13
<1>15. Before(t, 9)
  BY <1>3, <1>12 DEF Before
<1>16. t.status = "run"
  BY <1>9
<1> QED
  BY <1>9, <1>12, <1>14, <1>15, <1>16, CallEnd

(* 9: page_alloc gives that page; one mapping of the other is removed.     *)
LEMMA Call9 ==
  ASSUME MemInv, mm.status = "run", check_page_calls, at = 9
  PROVE  MemInv'
<1>1. PICK a, s, t : a = page_alloc(mm, 0) /\ s = a.st /\ t = page_remove(s, Kern, V0)
  OBVIOUS
<1>2. /\ pc = "check_page_calls"
      /\ /\ a.pp = pp[3] /\ ~IsMapped(t, Kern, V0) /\ Maps(t, V1, pp[2])
         /\ t.pp_ref[pp[2]] = 1 /\ t.pp_ref[pp[3]] = 0
         => Leaves(9, t)
  BY <1>1 DEF check_page_calls, Call, Leaves
<1>3. PICK e : e = EntryFor(2, {"W"})
  OBVIOUS
<1>4. CheckState(mm, pp[3], Refs3(1, 2, 0), 1, Table2(e, e))
  BY <1>2, <1>3, CallFacts DEF Before
<1>5. /\ mm \in MMType /\ mm.page_free_list = pp[3] /\ mm.pp_link[pp[3]] = NULL
      /\ mm.pp_ref[pp[1]] = 1 /\ mm.pp_ref[pp[2]] = 2 /\ mm.pp_ref[pp[3]] = 0
  BY <1>2, <1>4, StateFacts
<1>6. /\ HasTable(mm, Kern, V0) /\ Pte(mm, Kern, V0) = e /\ mm.pgdir[Kern][0] = pp[1]
  BY <1>2, <1>4, TableFacts
<1>7. /\ pp[1] \in Page /\ pp[2] \in Page /\ pp[3] \in Page
      /\ pp[1] # pp[2] /\ pp[1] # pp[3] /\ pp[2] # pp[3]
      /\ Kern \in Pgdirs /\ V0 \in VA /\ RefMod > 2 /\ RefMod \in Nat
      /\ Taken = {pp[1], pp[2], pp[3]}
  BY <1>2, CallFacts
<1>8. /\ a.pp = pp[3] /\ s \in MMType /\ s.page_free_list = NULL
      /\ s.pp_link = mm.pp_link /\ s.mem = mm.mem
      /\ s.pp_ref = mm.pp_ref /\ s.pgdir = mm.pgdir /\ s.status = mm.status
      /\ \A p \in Page : IsFree(s, p) => IsFree(mm, p)
  <2>1. PICK b, f : b = pp[3] /\ f = 0
    OBVIOUS
  <2>2. b \in Page /\ f \in {0, 1} /\ mm.page_free_list = b /\ mm.pp_link[b] = NULL
    BY <1>5, <1>7, <2>1
  <2>3. LET u == page_alloc(mm, f).st
        IN  /\ page_alloc(mm, f).pp = b /\ u \in MMType
            /\ u.page_free_list = mm.pp_link[b] /\ u.pp_link = [mm.pp_link EXCEPT ![b] = NULL]
            /\ u.mem = IF f = 0 THEN mm.mem ELSE [mm.mem EXCEPT ![b] = Zeros]
            /\ u.pp_ref = mm.pp_ref /\ u.pgdir = mm.pgdir /\ u.status = mm.status
            /\ \A p \in Page : IsFree(u, p) => IsFree(mm, p)
    BY <1>5, <2>2, TakeHead
  <2>4. [mm.pp_link EXCEPT ![b] = NULL] = mm.pp_link
    BY <1>5, <2>2 DEF MMType
  <2> QED
    BY <1>1, <2>1, <2>2, <2>3, <2>4
<1>9. OneLess(s, t, Kern, V0, pp[2])
  <2>1. HasTable(s, Kern, V0) /\ Pte(s, Kern, V0) = e
    BY <1>6, <1>8 DEF HasTable, Pte
  <2>2. PICK b : b = pp[2]
    OBVIOUS
  <2>3. b \in Page /\ Pte(s, Kern, V0).addr = b /\ s.pp_ref[b] > 1
    BY <1>3, <1>5, <1>7, <1>8, <2>1, <2>2, EntryFacts
  <2>4. OneLess(s, page_remove(s, Kern, V0), Kern, V0, b)
    BY <1>7, <1>8, <2>1, <2>3, RemoveOne
  <2> QED
    BY <1>1, <2>2, <2>4
<1>10. /\ t \in MMType /\ t.page_free_list = NULL /\ t.pp_link = mm.pp_link
       /\ t.pp_ref = [mm.pp_ref EXCEPT ![pp[2]] = @ - 1]
       /\ t.mem = Written(mm.mem, pp[1], 0, ZeroPte)
       /\ t.pgdir = mm.pgdir /\ t.status = mm.status
       /\ \A p \in Page : IsFree(t, p) => IsFree(mm, p) \/ p \in Taken
  <2>1. V0[1] = 0 /\ V0[2] = 0
    BY DEF V0
  <2> QED
    BY <1>6, <1>8, <1>9, <2>1 DEF OneLess, SameList, IsFree
<1>11. /\ t.pp_ref[pp[1]] = 1 /\ t.pp_ref[pp[2]] = 1 /\ t.pp_ref[pp[3]] = 0
       /\ \A p \in Page \ Taken : t.pp_ref[p] = mm.pp_ref[p]
  <2>1. mm.pp_ref \in [Page -> 0 .. RefMod - 1]
    BY <1>5 DEF MMType
  <2> QED
    BY <1>5, <1>7, <1>10, <2>1
<1>12. /\ CheckState(t, NULL, Refs3(1, 1, 0), 1, Table2(ZeroPte, e))
       /\ \A p \in Page \ Taken : t.mem[p] = mm.mem[p]
  <2>1. PICK r, y, g, x, z, h :
          r = Refs3(1, 2, 0) /\ y = 0 /\ g = pp[3] /\ x = e /\ z = ZeroPte /\ h = NULL
    OBVIOUS
  <2>2. CheckState(mm, g, r, 1, Table2(e, x)) /\ \E b, c, d : r = Refs3(b, c, d)
    BY <1>4, <2>1
  <2>3. t.mem = Written(mm.mem, pp[1], y, z) /\ y \in {0, 1} /\ t.page_free_list = h
        /\ t \in MMType /\ t.pp_link = mm.pp_link /\ t.pgdir = mm.pgdir /\ t.status = mm.status
        /\ \A p \in Page : IsFree(t, p) => IsFree(mm, p) \/ p \in Taken
    BY <1>10, <2>1
  <2>4. /\ CheckState(t, h, Refs3(1, 1, 0), 1, IF y = 0 THEN Table2(z, x) ELSE Table2(e, z))
        /\ \A p \in Page \ Taken : t.mem[p] = mm.mem[p]
    BY <1>2, <1>11, <2>2, <2>3, TableStep
  <2> QED
    BY <2>1, <2>4
<1>13. ~IsMapped(t, Kern, V0) /\ Maps(t, V1, pp[2])
  <2>1. /\ HasTable(t, Kern, V1) /\ Pte(t, Kern, V1) = e /\ Pte(t, Kern, V0) = ZeroPte
    BY <1>2, <1>12, TableFacts
  <2> QED
    BY <1>3, <2>1, EntryFacts DEF Maps, IsMapped
<1>14. Leaves(9, t)
  BY <1>2, <1>8, <1>11, <1>13
<1>15. Before(t, 10)
  BY <1>3, <1>12 DEF Before
<1>16. t.status = "run"
  BY <1>10
<1> QED
  BY <1>10, <1>12, <1>14, <1>15, <1>16, CallEnd

(* 10: the mapping is read only now.                                       *)
LEMMA Call10 ==
  ASSUME MemInv, mm.status = "run", check_page_calls, at = 10
  PROVE  MemInv'
<1>1. PICK i, t : i = insert(mm, pp[2], V1, {}) /\ t = i.st
  OBVIOUS
<1>2. /\ pc = "check_page_calls"
      /\ /\ i.ret = "OK" /\ t.pp_ref[pp[2]] # 0 /\ t.pp_link[pp[2]] = NULL
         => Leaves(10, t)
  BY <1>1 DEF check_page_calls, Call, Leaves
<1>3. PICK z : z = ZeroPte
  OBVIOUS
<1>4. CheckState(mm, NULL, Refs3(1, 1, 0), 1, Table2(z, EntryFor(2, {"W"})))
  BY <1>2, <1>3, CallFacts DEF Before
<1>5. mm.pp_ref[pp[2]] = 1
  BY <1>2, <1>4, StateFacts
<1>6. /\ i.ret = "OK" /\ t \in MMType /\ t.status = "run"
      /\ CheckState(t, NULL, Refs3(1, 1, 0), 1, Table2(z, EntryFor(2, {})))
      /\ \A p \in Page \ Taken : t.mem[p] = mm.mem[p]
  <2>1. PICK q, w, n, j, k : q = {"W"} /\ w = {} /\ n = 2 /\ j = 1 /\ k = 0
    OBVIOUS
  <2>2. /\ CheckState(mm, NULL, Refs3(1, j, k), 1, Table2(z, EntryFor(n, q)))
        /\ w \in SUBSET {"W", "U"} /\ n \in {2, 3} /\ mm.pp_ref[pp[n]] = 1
        /\ i = insert(mm, pp[n], V1, w)
    BY <1>1, <1>4, <1>5, <2>1
  <2>3. i.ret = "OK" /\ Next3(i.st, NULL, Refs3(1, j, k), Table2(z, EntryFor(n, w)))
    BY <1>2, <2>2, InsertAgain
  <2> QED
    BY <1>1, <2>1, <2>3 DEF Next3
<1>7. t.pp_ref[pp[2]] = 1 /\ t.pp_link[pp[2]] = NULL
  BY <1>2, <1>6, StateFacts
<1>8. Leaves(10, t)
  BY <1>2, <1>6, <1>7
<1>9. Before(t, 11)
  BY <1>3, <1>6 DEF Before
<1> QED
  BY <1>6, <1>8, <1>9, CallEnd

(* 11: the last mapping is removed, and the page is free.                  *)
LEMMA Call11 ==
  ASSUME MemInv, mm.status = "run", check_page_calls, at = 11
  PROVE  MemInv'
<1>1. PICK t : t = page_remove(mm, Kern, V1)
  OBVIOUS
<1>2. /\ pc = "check_page_calls"
      /\ /\ ~IsMapped(t, Kern, V0) /\ ~IsMapped(t, Kern, V1)
         /\ t.pp_ref[pp[2]] = 0 /\ t.pp_ref[pp[3]] = 0
         => Leaves(11, t)
  BY <1>1 DEF check_page_calls, Call, Leaves
<1>3. PICK e, z : e = EntryFor(2, {}) /\ z = ZeroPte
  OBVIOUS
<1>4. CheckState(mm, NULL, Refs3(1, 1, 0), 1, Table2(z, e))
  BY <1>2, <1>3, CallFacts DEF Before
<1>5. /\ mm \in MMType /\ mm.page_free_list = NULL /\ mm.pp_link[pp[2]] = NULL
      /\ mm.pp_ref[pp[1]] = 1 /\ mm.pp_ref[pp[2]] = 1 /\ mm.pp_ref[pp[3]] = 0
  BY <1>2, <1>4, StateFacts
<1>6. /\ HasTable(mm, Kern, V1) /\ Pte(mm, Kern, V1) = e /\ mm.pgdir[Kern][0] = pp[1]
  BY <1>2, <1>4, TableFacts
<1>7. /\ pp[1] \in Page /\ pp[2] \in Page /\ pp[3] \in Page
      /\ pp[1] # pp[2] /\ pp[1] # pp[3] /\ pp[2] # pp[3]
      /\ Kern \in Pgdirs /\ V1 \in VA /\ RefMod > 2 /\ RefMod \in Nat
      /\ Taken = {pp[1], pp[2], pp[3]}
  BY <1>2, CallFacts
<1>8. LastGone(mm, t, Kern, V1, pp[2])
  <2>1. PICK b : b = pp[2]
    OBVIOUS
  <2>2. /\ b \in Page /\ Pte(mm, Kern, V1).addr = b /\ mm.pp_ref[b] = 1
        /\ mm.pp_link[b] = NULL
    BY <1>3, <1>5, <1>6, <1>7, <2>1, EntryFacts
  <2>3. LastGone(mm, page_remove(mm, Kern, V1), Kern, V1, b)
    BY <1>5, <1>6, <1>7, <2>2, RemoveLast
  <2> QED
    BY <1>1, <2>1, <2>3
<1>9. /\ t \in MMType /\ t.page_free_list = pp[2]
      /\ t.pp_link = [mm.pp_link EXCEPT ![pp[2]] = NULL]
      /\ t.pp_ref = [mm.pp_ref EXCEPT ![pp[2]] = 0]
      /\ t.mem = Written(mm.mem, pp[1], 1, z)
      /\ t.pgdir = mm.pgdir /\ t.status = mm.status
      /\ \A p \in Page : IsFree(t, p) => IsFree(mm, p) \/ p \in Taken
  <2>1. V1[1] = 0 /\ V1[2] = 1
    BY DEF V1
  <2> QED
    BY <1>3, <1>5, <1>6, <1>7, <1>8, <2>1 DEF LastGone
<1>10. t.pp_link = mm.pp_link
  BY <1>5, <1>7, <1>9 DEF MMType
<1>11. /\ t.pp_ref[pp[1]] = 1 /\ t.pp_ref[pp[2]] = 0 /\ t.pp_ref[pp[3]] = 0
       /\ \A p \in Page \ Taken : t.pp_ref[p] = mm.pp_ref[p]
  <2>1. mm.pp_ref \in [Page -> 0 .. RefMod - 1]
    BY <1>5 DEF MMType
  <2> QED
    BY <1>5, <1>7, <1>9, <2>1
<1>12. /\ CheckState(t, pp[2], Refs3(1, 0, 0), 1, Table2(z, z))
       /\ \A p \in Page \ Taken : t.mem[p] = mm.mem[p]
  <2>1. PICK r, y, g : r = Refs3(1, 1, 0) /\ y = 1 /\ g = pp[2]
    OBVIOUS
  <2>2. CheckState(mm, NULL, r, 1, Table2(z, e)) /\ \E b, c, d : r = Refs3(b, c, d)
    BY <1>4, <2>1
  <2>3. t.mem = Written(mm.mem, pp[1], y, z) /\ y \in {0, 1} /\ t.page_free_list = g
        /\ t \in MMType /\ t.pgdir = mm.pgdir /\ t.status = mm.status
        /\ \A p \in Page : IsFree(t, p) => IsFree(mm, p) \/ p \in Taken
    BY <1>9, <2>1
  <2>4. /\ CheckState(t, g, Refs3(1, 0, 0), 1, IF y = 0 THEN Table2(z, e) ELSE Table2(z, z))
        /\ \A p \in Page \ Taken : t.mem[p] = mm.mem[p]
    BY <1>2, <1>10, <1>11, <2>2, <2>3, TableStep
  <2> QED
    BY <2>1, <2>4
<1>13. ~IsMapped(t, Kern, V0) /\ ~IsMapped(t, Kern, V1)
  <2>1. Pte(t, Kern, V1) = z /\ Pte(t, Kern, V0) = z
    BY <1>2, <1>12, TableFacts
  <2> QED
    BY <1>3, <2>1, EntryFacts DEF IsMapped
<1>14. Leaves(11, t)
  BY <1>2, <1>11, <1>13
<1>15. Before(t, 12)
  BY <1>3, <1>12 DEF Before
<1>16. t.status = "run"
  BY <1>9
<1> QED
  BY <1>9, <1>12, <1>14, <1>15, <1>16, CallEnd

(* The page of the table at index x is taken back by force.                *)
LEMMA Taking ==
  ASSUME MemInv, pc = "check_page_calls", NEW s \in MMType, NEW x \in {0, 1},
         \A z \in PDX \ {x} : s.pgdir[Kern][z] = KernDir(0)[z],
         NEW t, t = TakeTable(s, x)
  PROVE  /\ t \in MMType /\ t.pgdir[Kern] = KernDir(0)
         /\ t.pp_ref = [s.pp_ref EXCEPT ![pp[1]] = 0]
         /\ t.pp_link = s.pp_link /\ t.page_free_list = s.page_free_list /\ t.free = s.free
         /\ t.mem = s.mem /\ t.status = s.status
<1>1. pp[1] \in Page /\ x \in PDX /\ Kern \in Pgdirs /\ RefMod > 2 /\ RefMod \in Nat
  BY CallFacts
<1>2. 0 \in 0 .. RefMod - 1 /\ x # UVPT
  BY <1>1, KernFacts
<1>3. t \in MMType
  BY <1>1, <1>2 DEF TakeTable, MMType
<1>4. t.pgdir[Kern] = [s.pgdir[Kern] EXCEPT ![x] = NULL] /\ s.pgdir[Kern] \in [PDX -> Page \cup {NULL}]
  BY <1>1 DEF TakeTable, MMType
<1>5. KernDir(0) = [y \in PDX |-> IF y = UVPT THEN machine.end ELSE NULL]
  BY DEF KernDir
<1>6. t.pgdir[Kern] = KernDir(0)
  BY ZenonT(30), <1>1, <1>2, <1>4, <1>5
<1>7. /\ t.pp_ref = [s.pp_ref EXCEPT ![pp[1]] = 0]
      /\ t.pp_link = s.pp_link /\ t.page_free_list = s.page_free_list /\ t.free = s.free
      /\ t.mem = s.mem /\ t.status = s.status
  BY DEF TakeTable, MMType
<1> QED
  BY <1>3, <1>6, <1>7

(* 12: the freed page is given out once more; the table is taken back.     *)
LEMMA Call12 ==
  ASSUME MemInv, mm.status = "run", check_page_calls, at = 12
  PROVE  MemInv'
<1>1. PICK a, s, t : a = page_alloc(mm, 0) /\ s = a.st /\ t = TakeTable(s, 0)
  OBVIOUS
<1>2. /\ pc = "check_page_calls"
      /\ /\ a.pp = pp[2] /\ NextIs(s, NULL)
         /\ s.pgdir[Kern][0] = pp[1] /\ s.pp_ref[pp[1]] = 1
         => Leaves(12, t)
  BY <1>1 DEF check_page_calls, Call, Leaves
<1>3. PICK z : z = ZeroPte
  OBVIOUS
<1>4. CheckState(mm, pp[2], Refs3(1, 0, 0), 1, Table2(z, z))
  BY <1>2, <1>3, CallFacts DEF Before
<1>5. /\ mm \in MMType /\ mm.page_free_list = pp[2] /\ mm.pp_link[pp[2]] = NULL
      /\ mm.pp_ref[pp[1]] = 1 /\ mm.pp_ref[pp[2]] = 0 /\ mm.pp_ref[pp[3]] = 0
      /\ mm.status = "run" /\ mm.pgdir[Kern] = KernDir(1)
  BY <1>2, <1>4, StateFacts
<1>6. mm.pgdir[Kern][0] = pp[1]
  BY <1>2, <1>4, TableFacts
<1>7. /\ pp[1] \in Page /\ pp[2] \in Page /\ pp[3] \in Page
      /\ pp[1] # pp[2] /\ pp[1] # pp[3] /\ pp[2] # pp[3]
      /\ Kern \in Pgdirs /\ RefMod > 2 /\ RefMod \in Nat
      /\ Taken = {pp[1], pp[2], pp[3]}
  BY <1>2, CallFacts
<1>8. /\ a.pp = pp[2] /\ s \in MMType /\ s.page_free_list = NULL
      /\ s.pp_link = mm.pp_link /\ s.mem = mm.mem
      /\ s.pp_ref = mm.pp_ref /\ s.pgdir = mm.pgdir /\ s.status = mm.status
      /\ \A p \in Page : IsFree(s, p) => IsFree(mm, p)
  <2>1. PICK b, f : b = pp[2] /\ f = 0
    OBVIOUS
  <2>2. b \in Page /\ f \in {0, 1} /\ mm.page_free_list = b /\ mm.pp_link[b] = NULL
    BY <1>5, <1>7, <2>1
  <2>3. LET u == page_alloc(mm, f).st
        IN  /\ page_alloc(mm, f).pp = b /\ u \in MMType
            /\ u.page_free_list = mm.pp_link[b] /\ u.pp_link = [mm.pp_link EXCEPT ![b] = NULL]
            /\ u.mem = IF f = 0 THEN mm.mem ELSE [mm.mem EXCEPT ![b] = Zeros]
            /\ u.pp_ref = mm.pp_ref /\ u.pgdir = mm.pgdir /\ u.status = mm.status
            /\ \A p \in Page : IsFree(u, p) => IsFree(mm, p)
    BY <1>5, <2>2, TakeHead
  <2>4. [mm.pp_link EXCEPT ![b] = NULL] = mm.pp_link
    BY <1>5, <2>2 DEF MMType
  <2> QED
    BY <1>1, <2>1, <2>2, <2>3, <2>4
<1>9. \A x \in PDX \ {0} : s.pgdir[Kern][x] = KernDir(0)[x]
  BY <1>5, <1>8 DEF KernDir
<1>10. /\ t \in MMType /\ t.pgdir[Kern] = KernDir(0)
       /\ t.pp_ref = [s.pp_ref EXCEPT ![pp[1]] = 0]
       /\ t.pp_link = s.pp_link /\ t.page_free_list = s.page_free_list /\ t.free = s.free
       /\ t.mem = s.mem /\ t.status = s.status
  <2>1. PICK x : x = 0
    OBVIOUS
  <2>2. x \in {0, 1} /\ t = TakeTable(s, x) /\ \A y \in PDX \ {x} : s.pgdir[Kern][y] = KernDir(0)[y]
    BY <1>1, <1>9, <2>1
  <2> QED
    BY <1>2, <1>8, <2>2, Taking
<1>11. /\ t.pp_ref[pp[1]] = 0 /\ t.pp_ref[pp[2]] = 0 /\ t.pp_ref[pp[3]] = 0
       /\ \A p \in Page \ Taken : t.pp_ref[p] = mm.pp_ref[p]
       /\ \A p \in Page : IsFree(t, p) => IsFree(mm, p) \/ p \in Taken
  <2>1. PICK f \in [Page -> 0 .. RefMod - 1] : f = mm.pp_ref
    BY <1>5 DEF MMType
  <2>2. t.pp_ref = [f EXCEPT ![pp[1]] = 0]
    BY <1>8, <1>10, <2>1
  <2>3. /\ f[pp[2]] = 0 /\ f[pp[3]] = 0
        /\ pp[1] \in Page /\ pp[1] # pp[2] /\ pp[1] # pp[3]
        /\ pp[2] \in Page /\ pp[3] \in Page /\ pp[1] \in Taken
    BY <1>5, <1>7, <2>1
  <2>4. /\ t.pp_ref[pp[1]] = 0 /\ t.pp_ref[pp[2]] = 0 /\ t.pp_ref[pp[3]] = 0
        /\ \A p \in Page \ Taken : t.pp_ref[p] = f[p]
    BY <2>2, <2>3
  <2>5. \A p \in Page : IsFree(t, p) => IsFree(mm, p)
    BY <1>8, <1>10 DEF IsFree
  <2> QED
    BY <2>1, <2>4, <2>5
<1>12. CheckState(t, NULL, Refs3(0, 0, 0), 0, NULL)
  <2>1. PICK g, r, tab, n : g = pp[2] /\ r = Refs3(1, 0, 0) /\ tab = 0 /\ n = 0
    OBVIOUS
  <2>2. CheckState(mm, g, r, 1, Table2(z, z))
    BY <1>4, <2>1
  <2>3. /\ t.page_free_list = NULL /\ t.pp_link = mm.pp_link /\ t.status = mm.status
        /\ t.pgdir[Kern] = KernDir(tab) /\ (tab = 1 => t.mem[pp[1]] = NULL)
        /\ t.pp_ref[pp[1]] = n /\ t.pp_ref[pp[2]] = n /\ t.pp_ref[pp[3]] = n
    BY <1>8, <1>10, <1>11, <2>1
  <2>4. CheckState(t, NULL, Refs3(n, n, n), tab, NULL)
    BY <1>2, <1>10, <1>11, <2>2, <2>3, CheckFrame
  <2> QED
    BY <2>1, <2>4
<1>13. NextIs(s, NULL) /\ s.pgdir[Kern][0] = pp[1] /\ s.pp_ref[pp[1]] = 1
  BY <1>5, <1>6, <1>8, AllocHead DEF NextIs
<1>14. Leaves(12, t)
  BY <1>2, <1>8, <1>13
<1>15. Before(t, 13)
  BY <1>12 DEF Before
<1>16. t.status = "run" /\ \A p \in Page \ Taken : t.mem[p] = mm.mem[p]
  BY <1>5, <1>8, <1>10
<1> QED
  BY <1>10, <1>14, <1>15, <1>16, CallEnd

(* The page given back becomes a table, cleared, and is taken back.        *)
TableMade(w, t, x, y) ==
  /\ w.pte = <<pp[1], y>> /\ w.st.pgdir[Kern][x] = pp[1] /\ w.st.mem[pp[1]] = Zeros
  /\ t \in MMType /\ t.status = "run" /\ CheckState(t, NULL, Refs3(0, 0, 0), 0, NULL)
  /\ \A p \in Page \ Taken : t.mem[p] = mm.mem[p]

LEMMA MakeTable ==
  ASSUME MemInv, pc = "check_page_calls", CheckState(mm, NULL, Refs3(0, 0, 0), 0, NULL),
         NEW s \in MMType, s.pp_ref = mm.pp_ref, s.pp_link = mm.pp_link, s.free = mm.free,
         s.page_free_list = mm.page_free_list, s.pgdir = mm.pgdir, s.status = mm.status,
         \A p \in Page \ Taken : s.mem[p] = mm.mem[p],
         NEW v \in VA, v[1] \in {0, 1},
         NEW w, w = walk(page_free(s, pp[1]), v), NEW t, t = TakeTable(w.st, v[1])
  PROVE  TableMade(w, t, v[1], v[2])
<1>1. /\ mm \in MMType /\ mm.page_free_list = NULL /\ mm.pp_link[pp[1]] = NULL
      /\ mm.pp_ref[pp[1]] = 0 /\ mm.pp_ref[pp[2]] = 0 /\ mm.pp_ref[pp[3]] = 0
      /\ mm.status = "run" /\ mm.pgdir[Kern] = KernDir(0)
  BY StateFacts
<1>2. /\ pp[1] \in Page /\ pp[2] \in Page /\ pp[3] \in Page
      /\ pp[1] # pp[2] /\ pp[1] # pp[3] /\ pp[2] # pp[3]
      /\ Kern \in Pgdirs /\ 0 \in PDX /\ 1 \in PDX /\ v[1] \in PDX /\ v[2] \in PTX
      /\ Taken = {pp[1], pp[2], pp[3]}
  BY CallFacts DEF VA
<1>3. PICK a : a = pp[1]
  OBVIOUS
<1>4. PICK u : u = page_free(s, a)
  OBVIOUS
<1>5. /\ u \in MMType /\ u.page_free_list = a /\ u.pp_link = mm.pp_link
      /\ u.mem = s.mem /\ u.pp_ref = mm.pp_ref /\ u.pgdir = mm.pgdir /\ u.status = "run"
      /\ \A p \in Page : IsFree(u, p) => IsFree(mm, p) \/ p = a
  <2>1. /\ a \in Page /\ s.pp_ref[a] = 0 /\ s.pp_link[a] = NULL
    BY <1>1, <1>2, <1>3
  <2>2. LET x == page_free(s, a)
        IN  /\ x \in MMType /\ x.page_free_list = a
            /\ x.pp_link = [s.pp_link EXCEPT ![a] = s.page_free_list]
            /\ x.mem = s.mem /\ x.pp_ref = s.pp_ref /\ x.pgdir = s.pgdir /\ x.status = s.status
            /\ \A p \in Page : IsFree(x, p) => IsFree(s, p) \/ p = a
    BY <2>1, PutHead
  <2>3. [s.pp_link EXCEPT ![a] = s.page_free_list] = mm.pp_link
    BY <1>1, <2>1 DEF MMType
  <2>4. \A p \in Page : IsFree(s, p) <=> IsFree(mm, p)
    BY DEF IsFree
  <2> QED
    BY <1>1, <1>4, <2>2, <2>3, <2>4
<1>6. ~HasTable(u, Kern, v)
  <2>1. v[1] # UVPT
    BY KernFacts
  <2>2. KernDir(0)[v[1]] = NULL
    BY <1>2, <2>1 DEF KernDir
  <2> QED
    BY <1>1, <1>5, <2>2 DEF HasTable
<1>7. PICK x : x = w.st
  OBVIOUS
<1>8. /\ w.pte = <<a, v[2]>> /\ x \in MMType
      /\ x.page_free_list = u.pp_link[a]
      /\ x.pp_link = [u.pp_link EXCEPT ![a] = NULL]
      /\ x.mem = [u.mem EXCEPT ![a] = Zeros]
      /\ x.pp_ref = [u.pp_ref EXCEPT ![a] = 1]
      /\ x.pgdir = Written(u.pgdir, Kern, v[1], a)
      /\ x.status = u.status
      /\ \A p \in Page : IsFree(x, p) => IsFree(u, p)
  <2>1. /\ a \in Page /\ u.pp_ref[a] = 0
    BY <1>1, <1>2, <1>3, <1>5
  <2> DEFINE k == pgdir_make(u, Kern, v)
  <2>2. /\ k.pte = <<a, v[2]>> /\ k.st \in MMType
        /\ k.st.page_free_list = u.pp_link[a]
        /\ k.st.pp_link = [u.pp_link EXCEPT ![a] = NULL]
        /\ k.st.mem = [u.mem EXCEPT ![a] = Zeros]
        /\ k.st.pp_ref = [u.pp_ref EXCEPT ![a] = 1]
        /\ k.st.pgdir = Written(u.pgdir, Kern, v[1], a)
        /\ k.st.status = u.status
        /\ \A p \in Page : IsFree(k.st, p) => IsFree(u, p)
    BY <1>2, <1>5, <1>6, <2>1, WalkNew
  <2>3. k = w
    BY <1>3, <1>4 DEF walk, pgdir_make
  <2> HIDE DEF k
  <2> QED
    BY <1>7, <2>2, <2>3
<1>9. /\ x.pgdir[Kern][v[1]] = a /\ x.mem[a] = Zeros
      /\ x.page_free_list = NULL /\ x.pp_link = mm.pp_link
      /\ \A z \in PDX \ {v[1]} : x.pgdir[Kern][z] = KernDir(0)[z]
      /\ \A p \in Page \ Taken : x.mem[p] = mm.mem[p]
      /\ x.pp_ref = [mm.pp_ref EXCEPT ![a] = 1] /\ x.status = "run"
  <2>1. a \in Page /\ a \in Taken /\ mm.pp_link[a] = NULL
    BY <1>1, <1>2, <1>3
  <2>2. x.pgdir[Kern][v[1]] = a /\ \A z \in PDX \ {v[1]} : x.pgdir[Kern][z] = KernDir(0)[z]
    BY <1>1, <1>2, <1>5, <1>8 DEF MMType, Written
  <2>3. /\ x.mem[a] = Zeros /\ \A p \in Page \ Taken : x.mem[p] = mm.mem[p]
    BY <1>5, <1>8, <2>1 DEF MMType
  <2>4. x.page_free_list = NULL /\ x.pp_link = mm.pp_link
    BY <1>1, <1>5, <1>8, <2>1 DEF MMType
  <2> QED
    BY <1>5, <1>8, <2>2, <2>3, <2>4
<1>10. /\ t \in MMType /\ t.pgdir[Kern] = KernDir(0)
       /\ t.pp_ref = [x.pp_ref EXCEPT ![pp[1]] = 0]
       /\ t.pp_link = x.pp_link /\ t.page_free_list = x.page_free_list /\ t.free = x.free
       /\ t.mem = x.mem /\ t.status = x.status
  <2>1. PICK n : n = v[1]
    OBVIOUS
  <2>2. n \in {0, 1} /\ t = TakeTable(x, n) /\ \A z \in PDX \ {n} : x.pgdir[Kern][z] = KernDir(0)[z]
    BY <1>7, <1>9, <2>1
  <2> QED
    BY SMTT(30), <1>8, <2>2, Taking
<1>11. /\ t.pp_ref[pp[1]] = 0 /\ t.pp_ref[pp[2]] = 0 /\ t.pp_ref[pp[3]] = 0
       /\ \A p \in Page \ Taken : t.pp_ref[p] = mm.pp_ref[p]
       /\ \A p \in Page : IsFree(t, p) => IsFree(mm, p) \/ p \in Taken
  <2>1. mm.pp_ref \in [Page -> 0 .. RefMod - 1]
    BY <1>1 DEF MMType
  <2>2. /\ t.pp_ref[pp[1]] = 0 /\ t.pp_ref[pp[2]] = 0 /\ t.pp_ref[pp[3]] = 0
        /\ \A p \in Page \ Taken : t.pp_ref[p] = mm.pp_ref[p]
    BY <1>1, <1>2, <1>3, <1>9, <1>10, <2>1
  <2>3. \A p \in Page : IsFree(t, p) <=> IsFree(x, p)
    BY <1>10 DEF IsFree
  <2> QED
    BY <1>2, <1>3, <1>5, <1>8, <2>2, <2>3
<1>12. CheckState(t, NULL, Refs3(0, 0, 0), 0, NULL)
  <2>1. PICK r, tab, n, g, b, T, U, h :
          /\ r = Refs3(0, 0, 0) /\ tab = 0 /\ n = 0 /\ g = NULL /\ b = 0
          /\ T = NULL /\ U = NULL /\ h = NULL
    OBVIOUS
  <2>2. CheckState(mm, g, r, b, T)
    BY <2>1
  <2>3. /\ t \in MMType /\ t.pp_link = mm.pp_link /\ t.status = mm.status
        /\ \A p \in Page \ Taken : t.pp_ref[p] = mm.pp_ref[p]
        /\ \A p \in Page : IsFree(t, p) => IsFree(mm, p) \/ p \in Taken
        /\ t.page_free_list = h
        /\ t.pp_ref[pp[1]] = n /\ t.pp_ref[pp[2]] = n /\ t.pp_ref[pp[3]] = n
        /\ t.pgdir[Kern] = KernDir(tab) /\ (tab = 1 => t.mem[pp[1]] = U)
    BY <1>1, <1>9, <1>10, <1>11, <2>1
  <2>4. CheckState(t, h, Refs3(n, n, n), tab, U)
    BY <2>2, <2>3, CheckFrame
  <2> QED
    BY <2>1, <2>4
<1> QED
  BY <1>3, <1>7, <1>8, <1>9, <1>10, <1>12 DEF TableMade

(* 13: pgdir_walk makes a table, and finds its entry.                      *)
LEMMA Call13 ==
  ASSUME MemInv, mm.status = "run", check_page_calls, at = 13
  PROVE  MemInv'
<1>1. PICK w, t : w = walk(page_free(mm, pp[1]), W1) /\ t = TakeTable(w.st, 1)
  OBVIOUS
<1>2. /\ pc = "check_page_calls"
      /\ w.pte = <<w.st.pgdir[Kern][1], 1>> => Leaves(13, t)
  BY <1>1 DEF check_page_calls, Call, Leaves
<1>3. CheckState(mm, NULL, Refs3(0, 0, 0), 0, NULL)
  BY <1>2, CallFacts DEF Before
<1>4. mm \in MMType
  BY <1>2, <1>3, StateFacts
<1>5. TableMade(w, t, 1, 1)
  <2>1. PICK v : v = W1
    OBVIOUS
  <2>2. v \in VA /\ v[1] = 1 /\ v[2] = 1
    BY <1>2, <2>1, CallFacts DEF W1
  <2>3. v[1] \in {0, 1} /\ w = walk(page_free(mm, pp[1]), v) /\ t = TakeTable(w.st, v[1])
    BY <1>1, <2>1, <2>2
  <2>4. TableMade(w, t, v[1], v[2])
    BY <1>2, <1>3, <1>4, <2>2, <2>3, MakeTable
  <2> QED
    BY <2>2, <2>4
<1>6. Leaves(13, t)
  BY <1>2, <1>5 DEF TableMade
<1>7. Before(t, 14)
  BY <1>5 DEF Before, TableMade
<1> QED
  BY <1>5, <1>6, <1>7, CallEnd DEF TableMade

(* 14: the new table is clear, though the page was not.                    *)
LEMMA Call14 ==
  ASSUME MemInv, mm.status = "run", check_page_calls, at = 14
  PROVE  MemInv'
<1>1. PICK s, w, t : /\ s = Scribble(mm, pp[1])
                     /\ w = walk(page_free(s, pp[1]), V0) /\ t = TakeTable(w.st, 0)
  OBVIOUS
<1>2. /\ pc = "check_page_calls"
      /\ (\A y \in PTX : ~Present(w.st.mem[pp[1]][y])) => Leaves(14, t)
  BY <1>1 DEF check_page_calls, Call, Leaves
<1>3. CheckState(mm, NULL, Refs3(0, 0, 0), 0, NULL)
  BY <1>2, CallFacts DEF Before
<1>4. mm \in MMType
  BY <1>2, <1>3, StateFacts
<1>5. pp[1] \in Page /\ pp[1] \in Taken
  BY <1>2, CallFacts
<1>6. /\ s \in MMType /\ s.pp_ref = mm.pp_ref /\ s.pp_link = mm.pp_link /\ s.free = mm.free
      /\ s.page_free_list = mm.page_free_list /\ s.pgdir = mm.pgdir /\ s.status = mm.status
      /\ \A p \in Page \ Taken : s.mem[p] = mm.mem[p]
  <2>1. Scribbled \in [PTX -> Entry]
    BY JunkType DEF Scribbled
  <2> QED
    BY <1>1, <1>4, <1>5, <2>1 DEF Scribble, MMType
<1>7. TableMade(w, t, 0, 0)
  <2>1. PICK v : v = V0
    OBVIOUS
  <2>2. v \in VA /\ v[1] = 0 /\ v[2] = 0
    BY <1>2, <2>1, CallFacts DEF V0
  <2>3. v[1] \in {0, 1} /\ w = walk(page_free(s, pp[1]), v) /\ t = TakeTable(w.st, v[1])
    BY <1>1, <2>1, <2>2
  <2>4. TableMade(w, t, v[1], v[2])
    BY <1>2, <1>3, <1>6, <2>2, <2>3, MakeTable
  <2> QED
    BY <2>2, <2>4
<1>8. \A y \in PTX : ~Present(w.st.mem[pp[1]][y])
  BY <1>7, EntryFacts DEF TableMade, Zeros
<1>9. Leaves(14, t)
  BY <1>2, <1>8
<1>10. Before(t, 15)
  BY <1>7 DEF Before, TableMade
<1> QED
  BY <1>7, <1>9, <1>10, CallEnd DEF TableMade

LEMMA CheckPageCallsStep ==
  ASSUME MemInv, mm.status = "run", check_page_calls
  PROVE  MemInv'
<1>1. \/ at = 1 \/ at = 2 \/ at = 3 \/ at = 4 \/ at = 5 \/ at = 6 \/ at = 7
      \/ at = 8 \/ at = 9 \/ at = 10 \/ at = 11 \/ at = 12 \/ at = 13 \/ at = 14
  BY ZenonT(60) DEF check_page_calls, Call
<1> QED
  BY <1>1, Call1, Call2, Call3, Call4, Call5, Call6, Call7,
     Call8, Call9, Call10, Call11, Call12, Call13, Call14

-----------------------------------------------------------------------------
(* Everything is given back; no table of a region is made.                 *)

(* The directory entries of the three regions.                             *)
RegionIndex == {UPAGES, KSTACK} \cup KernIndex

LEMMA RegionCount ==
  ASSUME KernTables \in Nat, KernTables >= 1
  PROVE  IsFiniteSet(RegionIndex) /\ Cardinality(RegionIndex) = KernTables + 2
<1>1. KERNBASE \in Nat
  BY BootAssumption
<1>2. IsFiniteSet(KernIndex) /\ Cardinality(KernIndex) = KernTables
  <2>1. PICK a, b \in Nat : a = KERNBASE /\ b = KERNBASE + KernTables - 1
    BY <1>1
  <2>2. IsFiniteSet(a .. b) /\ Cardinality(a .. b) = IF a > b THEN 0 ELSE b - a + 1
    BY FS_Interval
  <2>3. KernIndex = a .. b /\ ~(a > b) /\ b - a + 1 = KernTables
    BY <1>1, <2>1 DEF KernIndex
  <2> QED
    BY <2>2, <2>3
<1>3. UPAGES \notin KernIndex /\ KSTACK \notin KernIndex /\ UPAGES # KSTACK
  BY KernFacts
<1>4. PICK S : S = KernIndex \cup {UPAGES}
  OBVIOUS
<1>5. IsFiniteSet(S) /\ Cardinality(S) = KernTables + 1 /\ KSTACK \notin S
  BY <1>2, <1>3, <1>4, FS_AddElement
<1>6. IsFiniteSet(S \cup {KSTACK}) /\ Cardinality(S \cup {KSTACK}) = KernTables + 1 + 1
  BY <1>5, FS_AddElement
<1>7. RegionIndex = S \cup {KSTACK}
  BY <1>4 DEF RegionIndex
<1> QED
  BY <1>6, <1>7

(* Nothing is mapped at the start.                                         *)
LEMMA DoneNothing ==
  ASSUME NEW x, NEW y \in PTX
  PROVE  ~Done(1, 0, x, y)
<1>1. PTX = 0 .. NPT - 1 /\ NPT \in Nat /\ KernIndex \subseteq Nat
  BY KernFacts
<1>2. y \in Nat /\ KERNBASE \in Nat
  BY <1>1, BootAssumption
<1> QED
  BY <1>1, <1>2 DEF Done

LEMMA GiveBackAllStep ==
  ASSUME MemInv, mm.status = "run", GiveBackAll
  PROVE  MemInv'
<1>1. pc = "check_page_calls" /\ at = 15
  BY DEF GiveBackAll
<1>2. CheckState(mm, NULL, Refs3(0, 0, 0), 0, NULL)
  BY <1>1, CallFacts DEF Before
<1>3. /\ mm \in MMType /\ mm.pgdir[Kern] = KernDir(0)
      /\ mm.pp_ref[pp[1]] = 0 /\ mm.pp_ref[pp[2]] = 0 /\ mm.pp_ref[pp[3]] = 0
  BY <1>1, <1>2, StateFacts
<1>4. PICK a, b, c : a = pp[1] /\ b = pp[2] /\ c = pp[3]
  OBVIOUS
<1>5. /\ a \in Page /\ b \in Page /\ c \in Page /\ a # b /\ a # c /\ b # c
      /\ Taken = {a, b, c} /\ \A p \in Taken : p < NPT /\ ~InUse(p)
      /\ machine \in Layouts /\ nextfree = FirstFree /\ pages = machine.end + 1 /\ ThreePages
  BY <1>1, <1>4, CallFacts
<1>6. PICK s \in MMType : s = GiveBack(mm, fl)
  <2>1. GiveBack(mm, fl) \in MMType
    BY <1>3, <1>5 DEF ThreePages, GiveBack, MMType
  <2> QED
    BY <2>1
<1>7. /\ s.pp_ref = mm.pp_ref /\ s.pgdir = mm.pgdir /\ s.status = "run"
  BY <1>3, <1>6 DEF GiveBack, MMType
<1>8. /\ ChainOK(s) /\ LowTop(s, KernTables - 1)
      /\ ~IsFree(s, a) /\ ~IsFree(s, b) /\ ~IsFree(s, c)
      /\ \A p \in Page \ Taken : /\ mm.pp_ref[p] = IF InUse(p) THEN 1 ELSE 0
                                 /\ IsFree(s, p) <=> mm.pp_ref[p] = 0
  BY <1>2, <1>5, <1>6 DEF CheckState
<1>9. PICK n \in Nat : n = Len(s.free)
  BY DEF MMType
<1>10. PICK t : t = Free3(s, a, b, c)
  OBVIOUS
<1>11. /\ t \in MMType /\ ChainOK(t)
       /\ Len(t.free) = n + 3 /\ (\A i \in 1 .. n : t.free[i] = s.free[i])
       /\ t.free[n + 1] = a /\ t.free[n + 2] = b /\ t.free[n + 3] = c
       /\ \A p \in Page : IsFree(t, p) <=> IsFree(s, p) \/ p \in {a, b, c}
       /\ t.pp_ref = s.pp_ref /\ t.pgdir = s.pgdir /\ t.mem = s.mem /\ t.status = s.status
  <2>1. s.pp_ref[a] = 0 /\ s.pp_ref[b] = 0 /\ s.pp_ref[c] = 0
    BY <1>3, <1>4, <1>7
  <2> QED
    BY <1>5, <1>8, <1>9, <1>10, <2>1, GiveBack3
<1>12. /\ mm' = t /\ pc' = "boot_map_region" /\ at' = <<1, 0>> /\ touched' = {}
       /\ machine' = machine /\ nextfree' = nextfree /\ pages' = pages
  BY <1>4, <1>6, <1>10 DEF GiveBackAll
<1>13. KernTables \in Nat /\ KernTables >= 1 /\ NPT \in Nat
  BY <1>5, MachineFacts
<1>14. LowTop(t, KernTables + 2)
  <2>1. ASSUME NEW i \in n + 3 - (KernTables + 2) + 1 .. n + 3
        PROVE  IsLow(t.free[i])
    <3>1. i \in n - (KernTables - 1) + 1 .. n \/ i = n + 1 \/ i = n + 2 \/ i = n + 3
      BY <1>13
    <3>2. CASE i \in n - (KernTables - 1) + 1 .. n
      <4>1. KernTables - 1 <= n
        BY <1>8, <1>9 DEF LowTop
      <4>2. i \in 1 .. n
        BY <1>13, <3>2, <4>1
      <4> QED
        BY <1>8, <1>9, <1>11, <3>2, <4>2 DEF LowTop
    <3>3. IsLow(a) /\ IsLow(b) /\ IsLow(c)
      BY <1>5 DEF IsLow
    <3> QED
      BY <1>11, <3>1, <3>2, <3>3
  <2>2. KernTables - 1 <= n
    BY <1>8, <1>9 DEF LowTop
  <2> QED
    BY SMTT(30), <1>11, <1>13, <2>1, <2>2 DEF LowTop
<1>15. OnlySelf(t)
  BY <1>3, <1>7, <1>11 DEF OnlySelf, KernDir
<1>16. Counted(t)
  <2>1. ASSUME NEW p \in Page, IsTable(t, p) PROVE InUse(p)
    <3>1. p = machine.end
      BY <1>11, <1>15, <2>1, OnlyTable
    <3>2. /\ machine.io \in Nat /\ machine.ext \in Nat /\ machine.end \in Nat /\ KSTK \in Nat
          /\ machine.io < machine.ext /\ machine.ext + KSTK <= machine.end
          /\ machine.end < FirstFree /\ FirstFree \in Nat
      BY <1>5, MachineFacts
    <3> QED
      BY <1>5, <3>1, <3>2 DEF InUse
  <2>2. ASSUME NEW p \in Page
        PROVE  /\ t.pp_ref[p] = IF InUse(p) THEN 1 ELSE 0
               /\ IsFree(t, p) <=> t.pp_ref[p] = 0
    <3>1. CASE p \in {a, b, c}
      <4>1. t.pp_ref[p] = 0 /\ ~InUse(p)
        BY <1>3, <1>4, <1>5, <1>7, <1>11, <3>1
      <4> QED
        BY <1>11, <3>1, <4>1
    <3>2. CASE p \notin {a, b, c}
      BY <1>5, <1>7, <1>8, <1>11, <3>2
    <3> QED
      BY <3>1, <3>2
  <2> QED
    BY <2>1, <2>2 DEF Counted
<1>17. \A x \in PDX : t.pgdir[Kern][x] # NULL <=> x = UVPT
  <2>1. machine.end # NULL
    <3>1. machine.end \in Page
      <4>1. machine.end \in Nat /\ machine.end < FirstFree /\ FirstFree + 1 < npages
            /\ FirstFree \in Nat /\ npages \in Nat
        BY <1>5, MachineFacts
      <4> QED
        BY <4>1 DEF Page
    <3> QED
      BY <3>1, PagesAssumption
  <2> QED
    BY <1>15, <2>1 DEF OnlySelf
<1>18. Cardinality(Missing(t)) = KernTables + 2
  <2>1. Missing(t) = RegionIndex
    BY <1>17, KernFacts DEF Missing, RegionIndex
  <2> QED
    BY <1>13, <2>1, RegionCount
<1>19. Mapping(t, 1, 0)
  <2>1. t.pgdir[Kern][UVPT] = machine.end
    BY <1>15, KernFacts DEF OnlySelf
  <2>2. LowTop(t, Cardinality(Missing(t)))
    BY <1>14, <1>18
  <2>3. \A x \in PDX : t.pgdir[Kern][x] # NULL <=> x = UVPT \/ \E y \in PTX : Done(1, 0, x, y)
    BY <1>17, DoneNothing
  <2> QED
    BY <1>11, <1>16, <1>17, <2>1, <2>2, <2>3 DEF Mapping
<1>20. MappingAt'
  <2>1. Mapping(t, 1, 0)'
    BY <1>12, <1>19
       DEF Mapping, Counted, InUse, IsTable, IsFree, ChainOK, LowTop, IsLow, Missing, Done, Want
  <2>2. 1 \in 1 .. 4 /\ 0 \in 0 .. Size(1)
    BY <1>13 DEF Size
  <2> QED
    BY <1>12, <2>1, <2>2 DEF MappingAt
<1> QED
  BY <1>5, <1>7, <1>11, <1>12, <1>20 DEF MemInv, PCs, WritesOnlyMapped, FirstFree

-----------------------------------------------------------------------------
(* The three regions.                                                      *)

LEMMA DivMod ==
  ASSUME NEW a \in Nat, NEW n \in Nat, NEW b \in 0 .. n - 1
  PROVE  (a * n + b) \div n = a /\ (a * n + b) % n = b
<1> DEFINE x == a * n + b
           q == x \div n
           r == x % n
<1>1. x \in Nat /\ n > 0
  OBVIOUS
<1>2. q \in Int /\ r \in 0 .. n - 1 /\ x = q * n + r
  BY <1>1
<1> HIDE DEF q, r
<1>3. (a - q) * n = r - b
  BY <1>2
<1>4. CASE a - q >= 1
  <2>1. (a - q) * n >= n
    BY <1>1, <1>2, <1>4
  <2> QED
    BY <1>1, <1>2, <1>3, <2>1
<1>5. CASE a - q <= -1
  <2>1. (a - q) * n <= -n
    BY <1>1, <1>2, <1>5
  <2> QED
    BY <1>1, <1>2, <1>3, <2>1
<1>6. CASE a = q
  BY <1>1, <1>2, <1>6 DEF q, r
<1> QED
  BY <1>2, <1>4, <1>5, <1>6

LEMMA PageIndex ==
  ASSUME NEW a \in Nat, NEW b \in PTX
  PROVE  VirtPage(a * NPT + b) = <<a, b>>
<1>1. NPT \in Nat /\ b \in 0 .. NPT - 1
  BY KernFacts
<1>2. (a * NPT + b) \div NPT = a /\ (a * NPT + b) % NPT = b
  BY <1>1, DivMod
<1> QED
  BY <1>2 DEF VirtPage

(* Iteration k of region j writes the entry (x, y) with what is wanted.    *)
Fills(j, k, x, y) ==
  /\ x \in RegionIndex /\ y \in PTX
  /\ VirtPage(Regions[j].va + k) = <<x, y>>
  /\ Want(x, y) = [addr |-> PhysPage(Regions[j].pa + k), perm |-> Regions[j].perm \cup {"P"}]
  /\ ~Done(j, k, x, y)
  /\ \A z \in PDX, u \in PTX : Done(j, k + 1, z, u) <=> Done(j, k, z, u) \/ (z = x /\ u = y)

LEMMA RegionFields ==
  /\ Len(Regions) = 3
  /\ Regions[1] = [va |-> UPAGES * NPT, size |-> NPT * PGSIZE, pa |-> pages, perm |-> {"U"}]
  /\ Regions[2] = [va |-> (KSTACK + 1) * NPT - KSTK, size |-> KSTK * PGSIZE, pa |-> machine.ext,
                   perm |-> {"W"}]
  /\ Regions[3] = [va |-> KERNBASE * NPT, size |-> KernTables * NPT * PGSIZE - 1, pa |-> 0,
                   perm |-> {"W"}]
BY DEF Regions

(* Whole pages, and those of which one byte is left out.                   *)
LEMMA NumPage ==
  ASSUME NEW n \in Nat
  PROVE  numpage(n * PGSIZE) = n /\ (n > 0 => numpage(n * PGSIZE - 1) = n)
<1>1. PGSIZE \in Nat /\ PGSIZE > 1
  BY BootAssumption
<1>2. numpage(n * PGSIZE) = n
  <2>1. 0 \in 0 .. PGSIZE - 1 /\ n * PGSIZE + 0 = n * PGSIZE
    BY <1>1
  <2>2. (n * PGSIZE) \div PGSIZE = n /\ (n * PGSIZE) % PGSIZE = 0
    BY <1>1, <2>1, DivMod
  <2> QED
    BY <2>2 DEF numpage
<1>3. ASSUME n > 0 PROVE numpage(n * PGSIZE - 1) = n
  <2>1. PICK m \in Nat : n = m + 1
    BY <1>3
  <2>2. PICK b \in 0 .. PGSIZE - 1 : b = PGSIZE - 1
    BY <1>1
  <2>3. n * PGSIZE - 1 = m * PGSIZE + b
    BY <1>1, <2>1, <2>2
  <2>4. (n * PGSIZE - 1) \div PGSIZE = m /\ (n * PGSIZE - 1) % PGSIZE = b
    BY <1>1, <2>3, DivMod
  <2>5. b # 0
    BY <1>1, <2>2
  <2> QED
    BY <2>1, <2>4, <2>5 DEF numpage
<1> QED
  BY <1>2, <1>3

LEMMA RegionPages ==
  ASSUME machine \in Layouts, NEW j \in 1 .. 3
  PROVE  Size(j) \in Nat /\ numpage(Regions[j].size) = Size(j)
<1>1. NPT \in Nat /\ KSTK \in Nat
  BY MachineFacts
<1>2. PICK n \in Nat : n = KernTables * NPT /\ n > 0
  <2>1. npages \in Nat /\ npages > 0 /\ KernTables * NPT \in Nat
    BY MachineFacts
  <2>2. npages <= KernTables * NPT
    BY BootAssumption
  <2> QED
    BY <2>1, <2>2
<1>3. CASE j = 1
  <2>1. Regions[j].size = NPT * PGSIZE /\ Size(j) = NPT
    BY <1>3, RegionFields DEF Size
  <2> QED
    BY <1>1, <2>1, NumPage
<1>4. CASE j = 2
  <2>1. Regions[j].size = KSTK * PGSIZE /\ Size(j) = KSTK
    BY <1>4, RegionFields DEF Size
  <2> QED
    BY <1>1, <2>1, NumPage
<1>5. CASE j = 3
  <2>1. Regions[j].size = n * PGSIZE - 1 /\ Size(j) = n
    BY <1>2, <1>5, RegionFields DEF Size
  <2> QED
    BY <1>2, <2>1, NumPage
<1> QED
  BY <1>3, <1>4, <1>5

LEMMA WritesPages ==
  ASSUME NEW k \in 0 .. NPT - 1, pages \in Nat
  PROVE  Fills(1, k, UPAGES, k)
<1>1. /\ UPAGES \in Nat /\ k \in PTX /\ UPAGES \in RegionIndex /\ PTX = 0 .. NPT - 1 /\ NPT \in Nat
      /\ UPAGES # KSTACK /\ UPAGES \notin KernIndex
  BY KernFacts DEF RegionIndex
<1>2. /\ Regions[1].va = UPAGES * NPT /\ Regions[1].pa = pages /\ Regions[1].perm = {"U"}
  BY RegionFields
<1>3. VirtPage(Regions[1].va + k) = <<UPAGES, k>>
  BY <1>1, <1>2, PageIndex
<1>4. Want(UPAGES, k) = [addr |-> PhysPage(Regions[1].pa + k), perm |-> Regions[1].perm \cup {"P"}]
  BY <1>2 DEF Want
<1>5. /\ ~Done(1, k, UPAGES, k)
      /\ \A z \in PDX, u \in PTX : Done(1, k + 1, z, u) <=> Done(1, k, z, u) \/ (z = UPAGES /\ u = k)
  BY <1>1 DEF Done
<1> QED
  BY <1>1, <1>3, <1>4, <1>5 DEF Fills

LEMMA WritesStack ==
  ASSUME NEW k \in 0 .. KSTK - 1, KSTK \in 1 .. NPT
  PROVE  Fills(2, k, KSTACK, NPT - KSTK + k)
<1>1. /\ KSTACK \in Nat /\ KSTACK \in RegionIndex /\ PTX = 0 .. NPT - 1 /\ NPT \in Nat
      /\ UPAGES # KSTACK /\ KSTACK \notin KernIndex
  BY KernFacts DEF RegionIndex
<1>2. PICK y : y = NPT - KSTK + k
  OBVIOUS
<1>3. y \in PTX /\ y - (NPT - KSTK) = k /\ y >= NPT - KSTK
  BY <1>1, <1>2
<1>4. /\ Regions[2].va = (KSTACK + 1) * NPT - KSTK /\ Regions[2].pa = machine.ext
      /\ Regions[2].perm = {"W"}
  BY RegionFields
<1>5. VirtPage(Regions[2].va + k) = <<KSTACK, y>>
  <2>1. Regions[2].va + k = KSTACK * NPT + y
    BY <1>1, <1>2, <1>4
  <2> QED
    BY <1>1, <1>3, <2>1, PageIndex
<1>6. Want(KSTACK, y) = [addr |-> PhysPage(Regions[2].pa + k), perm |-> Regions[2].perm \cup {"P"}]
  BY <1>1, <1>3, <1>4 DEF Want
<1>7. /\ ~Done(2, k, KSTACK, y)
      /\ \A z \in PDX, u \in PTX : Done(2, k + 1, z, u) <=> Done(2, k, z, u) \/ (z = KSTACK /\ u = y)
  BY <1>1, <1>2, <1>3 DEF Done
<1> QED
  BY <1>1, <1>2, <1>3, <1>5, <1>6, <1>7 DEF Fills

LEMMA WritesMemory ==
  ASSUME NEW k \in 0 .. KernTables * NPT - 1, KernTables \in Nat, NPT \in Nat, NPT > 0
  PROVE  \E x, y : Fills(3, k, x, y)
<1>1. /\ KERNBASE \in Nat /\ PTX = 0 .. NPT - 1 /\ KernIndex \subseteq Nat
      /\ UPAGES \notin KernIndex /\ KSTACK \notin KernIndex
  BY KernFacts, BootAssumption
<1>2. k \in Nat /\ KernTables * NPT \in Nat /\ k < KernTables * NPT
  OBVIOUS
<1>3. PICK q, y : q = k \div NPT /\ y = k % NPT
  OBVIOUS
<1>4. q \in Int /\ y \in 0 .. NPT - 1 /\ k = q * NPT + y
  BY <1>2, <1>3
<1>5. q >= 0
  <2>1. CASE q <= -1
    <3>1. q * NPT <= -NPT
      BY <1>4, <2>1
    <3> QED
      BY <1>2, <1>4, <3>1
  <2> QED
    BY <1>4, <2>1
<1>6. q < KernTables
  <2>1. CASE q >= KernTables
    <3>1. q * NPT >= KernTables * NPT
      BY <1>4, <2>1
    <3> QED
      BY <1>2, <1>4, <3>1
  <2> QED
    BY <1>4, <2>1
<1>7. PICK x : x = KERNBASE + q
  OBVIOUS
<1>8. x \in KernIndex /\ x \in Nat /\ x - KERNBASE = q
  BY <1>1, <1>4, <1>5, <1>6, <1>7 DEF KernIndex
<1>9. (x - KERNBASE) * NPT + y = k /\ y \in PTX
  BY <1>1, <1>4, <1>8
<1>10. /\ Regions[3].va = KERNBASE * NPT /\ Regions[3].pa = 0 /\ Regions[3].perm = {"W"}
  BY RegionFields
<1>11. VirtPage(Regions[3].va + k) = <<x, y>>
  <2>1. Regions[3].va + k = x * NPT + y
    BY <1>1, <1>4, <1>7, <1>10
  <2> QED
    BY <1>8, <1>9, <2>1, PageIndex
<1>12. Want(x, y) = [addr |-> PhysPage(Regions[3].pa + k), perm |-> Regions[3].perm \cup {"P"}]
  <2>1. Regions[3].pa + k = k /\ x # UPAGES /\ x # KSTACK
    BY <1>1, <1>2, <1>8, <1>10
  <2>2. Want(x, y) = [addr |-> PhysPage(k), perm |-> {"W", "P"}]
    BY <1>9, <2>1 DEF Want
  <2>3. Regions[3].perm \cup {"P"} = {"W", "P"}
    BY <1>10
  <2> QED
    BY <2>1, <2>2, <2>3
<1>13. ~Done(3, k, x, y)
  BY <1>1, <1>2, <1>8, <1>9 DEF Done
<1>14. ASSUME NEW z \in PDX, NEW u \in PTX
       PROVE  Done(3, k + 1, z, u) <=> Done(3, k, z, u) \/ (z = x /\ u = y)
  <2>1. CASE z \in KernIndex
    <3>1. PICK i : i = (z - KERNBASE) * NPT + u
      OBVIOUS
    <3>2. z \in Nat /\ z - KERNBASE \in Nat /\ u \in 0 .. NPT - 1
      BY <1>1, <2>1 DEF KernIndex
    <3>3. i \in Nat
      BY <3>1, <3>2
    <3>4. i = k => z = x /\ u = y
      <4>1. i \div NPT = z - KERNBASE /\ i % NPT = u
        <5>1. PICK m \in Nat : m = z - KERNBASE
          BY <3>2
        <5>2. (m * NPT + u) \div NPT = m /\ (m * NPT + u) % NPT = u
          BY <3>2, DivMod
        <5> QED
          BY <3>1, <5>1, <5>2
      <4> QED
        BY <1>1, <1>3, <1>7, <3>2, <4>1
    <3>5. z = x /\ u = y => i = k
      BY <1>9, <3>1
    <3>6. i < k + 1 <=> i < k \/ i = k
      BY <1>2, <3>3
    <3>7. z # UPAGES /\ z # KSTACK
      BY <1>1, <2>1
    <3>8. (Done(3, k + 1, z, u) <=> i < k + 1) /\ (Done(3, k, z, u) <=> i < k)
      BY <2>1, <3>1, <3>7 DEF Done
    <3> QED
      BY <3>4, <3>5, <3>6, <3>8
  <2>2. CASE z \notin KernIndex
    BY <1>8, <2>2 DEF Done
  <2> QED
    BY <2>1, <2>2
<1>15. x \in RegionIndex
  BY <1>8 DEF RegionIndex
<1>16. Fills(3, k, x, y)
  BY <1>9, <1>11, <1>12, <1>13, <1>14, <1>15 DEF Fills
<1> QED
  BY <1>16

LEMMA WritesOne ==
  ASSUME machine \in Layouts, pages \in Nat, NEW j \in 1 .. 3, NEW k \in 0 .. Size(j) - 1
  PROVE  \E x, y : Fills(j, k, x, y)
<1>1. KernTables \in Nat /\ NPT \in Nat /\ NPT > 0 /\ KSTK \in 1 .. NPT
  BY BootAssumption
<1>2. CASE j = 1
  BY <1>2, WritesPages DEF Size
<1>3. CASE j = 2
  BY <1>1, <1>3, WritesStack DEF Size
<1>4. CASE j = 3
  BY <1>1, <1>4, WritesMemory DEF Size
<1> QED
  BY <1>2, <1>3, <1>4

(* A region that is done is done before the next begins.                   *)
LEMMA RegionEnd ==
  ASSUME NEW j \in 1 .. 3, NEW x \in PDX, NEW y \in PTX
  PROVE  Done(j, Size(j), x, y) <=> Done(j + 1, 0, x, y)
<1>1. /\ PTX = 0 .. NPT - 1 /\ NPT \in Nat /\ KernIndex \subseteq Nat /\ KSTK \in 1 .. NPT
      /\ KERNBASE \in Nat /\ KernTables \in Nat /\ y \in Nat /\ y < NPT
  BY KernFacts, BootAssumption
<1>2. CASE j = 1
  BY <1>1, <1>2 DEF Done, Size
<1>3. CASE j = 2
  <2>1. x \in KernIndex => (x - KERNBASE) * NPT + y \in Nat
    BY <1>1 DEF KernIndex
  <2> QED
    BY <1>1, <1>3, <2>1 DEF Done, Size
<1>4. CASE j = 3
  <2>1. ASSUME x \in KernIndex PROVE (x - KERNBASE) * NPT + y < KernTables * NPT
    <3>1. PICK m \in Nat : m = x - KERNBASE /\ m <= KernTables - 1
      BY <1>1, <2>1 DEF KernIndex
    <3>2. m * NPT <= (KernTables - 1) * NPT
      BY <1>1, <3>1
    <3>3. (KernTables - 1) * NPT + NPT = KernTables * NPT
      BY <1>1
    <3>4. m * NPT \in Nat /\ (KernTables - 1) * NPT \in Int /\ KernTables * NPT \in Nat
      BY <1>1, <3>1
    <3>5. m * NPT + y < KernTables * NPT
      BY <1>1, <3>2, <3>3, <3>4
    <3> QED
      BY <3>1, <3>5
  <2> QED
    BY <1>1, <1>4, <2>1 DEF Done, Size
<1> QED
  BY <1>2, <1>3, <1>4

-----------------------------------------------------------------------------
(* One iteration of boot_map_region.                                       *)

(* The tables of s map what iteration k of region j finds mapped.          *)
Tables(s, j, k) ==
  /\ \A x \in PDX : s.pgdir[Kern][x] # NULL <=> x = UVPT \/ \E y \in PTX : Done(j, k, x, y)
  /\ s.pgdir[Kern][UVPT] = machine.end
  /\ \A x, z \in PDX : s.pgdir[Kern][x] # NULL /\ s.pgdir[Kern][x] = s.pgdir[Kern][z] => x = z
  /\ \A x \in PDX \ {UVPT} : s.pgdir[Kern][x] # NULL =>
        /\ IsLow(s.pgdir[Kern][x])
        /\ \A y \in PTX : s.mem[s.pgdir[Kern][x]][y] = IF Done(j, k, x, y) THEN Want(x, y) ELSE ZeroPte

LEMMA MappingParts ==
  ASSUME NEW s, NEW j, NEW k
  PROVE  Mapping(s, j, k) <=> /\ Counted(s) /\ ChainOK(s) /\ LowTop(s, Cardinality(Missing(s)))
                              /\ Tables(s, j, k)
BY DEF Mapping, Tables

LEMMA WantType ==
  ASSUME machine \in Layouts, pages \in Nat, NEW j \in 1 .. 3, NEW k \in Nat, NEW x, NEW y,
         Fills(j, k, x, y)
  PROVE  Want(x, y) \in Entry
<1>1. npages \in Nat /\ machine.ext \in Nat
  BY MachineFacts
<1>2. \A n \in Nat : PhysPage(n) \in 0 .. npages
  BY <1>1 DEF PhysPage
<1>3. Regions[j].pa \in Nat /\ Regions[j].perm \in SUBSET {"W", "U"}
  <2>1. CASE j = 1
    BY <2>1, RegionFields
  <2>2. CASE j = 2
    BY <1>1, <2>2, RegionFields
  <2>3. CASE j = 3
    BY <2>3, RegionFields
  <2> QED
    BY <2>1, <2>2, <2>3
<1>4. PhysPage(Regions[j].pa + k) \in 0 .. npages
  BY <1>2, <1>3
<1>5. Regions[j].perm \cup {"P"} \in SUBSET {"P", "W", "U"}
  BY <1>3
<1> QED
  BY <1>4, <1>5 DEF Fills, Entry

(* The entry (x, y) is all that the iteration before n adds.               *)
Adds(j, k, n, x, y) ==
  \A z \in PDX, u \in PTX : Done(j, n, z, u) <=> Done(j, k, z, u) \/ (z = x /\ u = y)

(* t is s with the entry of the iteration written, in the table at x.      *)
Iterated(s, t, j, n, x) ==
  /\ t \in MMType /\ Mapping(t, j, n) /\ t.status = s.status
  /\ t.pgdir[Kern][x] # NULL /\ IsLow(t.pgdir[Kern][x])

(* The entry is written to a table that is there.                          *)
LEMMA MapThere ==
  ASSUME NEW s \in MMType, machine \in Layouts, NEW j, NEW k, NEW n, Mapping(s, j, k), n = k + 1,
         NEW x, NEW y, x \in RegionIndex, y \in PTX,
         Adds(j, k, n, x, y),
         NEW a, a = s.pgdir[Kern][x], a # NULL, Want(x, y) \in Entry,
         NEW w, w = <<a, y>>, NEW t, t = store(s, w, Want(x, y))
  PROVE  Iterated(s, t, j, n, x)
<1>0. \A z \in PDX, u \in PTX : Done(j, n, z, u) <=> Done(j, k, z, u) \/ (z = x /\ u = y)
  BY DEF Adds
<1>1. x \in PDX /\ x # UVPT /\ Kern \in Pgdirs /\ UVPT \in PDX
  BY KernFacts DEF RegionIndex
<1>2. a \in Page
  BY <1>1 DEF MMType
<1>3. PICK e \in Entry : e = Want(x, y)
  OBVIOUS
<1>4. /\ t \in MMType
      /\ t.page_free_list = s.page_free_list /\ t.pp_link = s.pp_link
      /\ t.free = s.free /\ t.pgdir = s.pgdir /\ t.status = s.status
      /\ t.pp_ref = s.pp_ref
      /\ t.mem = Written(s.mem, a, y, e)
  <2>1. w \in Page \X PTX /\ w[1] = a /\ w[2] = y
    BY <1>2
  <2> QED
    BY <1>3, <2>1, StoreFields, StoreType
<1>5. /\ Counted(s) /\ ChainOK(s) /\ LowTop(s, Cardinality(Missing(s)))
      /\ Tables(s, j, k)
  BY MappingParts
<1>6. Counted(t) /\ ChainOK(t) /\ LowTop(t, Cardinality(Missing(t)))
  <2>1. Missing(t) = Missing(s)
    BY <1>4 DEF Missing
  <2>2. Counted(t)
    <3>1. t.pp_ref = s.pp_ref /\ t.pgdir = s.pgdir /\ t.free = s.free
      BY <1>4
    <3>2. \A p \in Page : (IsTable(t, p) <=> IsTable(s, p)) /\ (IsFree(t, p) <=> IsFree(s, p))
      BY <3>1 DEF IsFree, IsTable
    <3> QED
      BY <1>5, <3>1, <3>2 DEF Counted
  <2>3. ChainOK(t)
    <3>1. t.page_free_list = s.page_free_list /\ t.pp_link = s.pp_link /\ t.free = s.free
      BY <1>4
    <3> QED
      BY <1>5, <3>1, SameChain
  <2>4. \A m : LowTop(s, m) => LowTop(t, m)
    BY <1>4 DEF LowTop
  <2> QED
    BY <1>5, <2>1, <2>2, <2>3, <2>4
<1>7. /\ s.mem[a] \in [PTX -> Entry] /\ t.mem[a] = [s.mem[a] EXCEPT ![y] = e]
      /\ \A b \in Page : b # a => t.mem[b] = s.mem[b]
  BY <1>2, <1>4 DEF Written, MMType
<1>8. Tables(t, j, n)
  <2>1. \A z \in PDX : t.pgdir[Kern][z] # NULL <=> z = UVPT \/ \E u \in PTX : Done(j, n, z, u)
    <3>1. \A z \in PDX : s.pgdir[Kern][z] # NULL <=> z = UVPT \/ \E u \in PTX : Done(j, k, z, u)
      BY <1>5 DEF Tables
    <3> QED
      BY <1>0, <1>1, <1>4, <3>1
  <2>2. ASSUME NEW z \in PDX \ {UVPT}, t.pgdir[Kern][z] # NULL
        PROVE  /\ IsLow(t.pgdir[Kern][z])
               /\ \A u \in PTX : t.mem[t.pgdir[Kern][z]][u] = IF Done(j, n, z, u) THEN Want(z, u) ELSE ZeroPte
    <3>1. PICK b : b = s.pgdir[Kern][z]
      OBVIOUS
    <3>2. b \in Page /\ t.pgdir[Kern][z] = b
      BY <1>1, <1>4, <2>2, <3>1 DEF MMType
    <3>3. /\ IsLow(b)
          /\ \A u \in PTX : s.mem[b][u] = IF Done(j, k, z, u) THEN Want(z, u) ELSE ZeroPte
      <4>1. s.pgdir[Kern][z] # NULL
        BY <1>4, <2>2
      <4>2. /\ IsLow(s.pgdir[Kern][z])
            /\ \A u \in PTX : s.mem[s.pgdir[Kern][z]][u] =
                             IF Done(j, k, z, u) THEN Want(z, u) ELSE ZeroPte
        BY <1>5, <4>1 DEF Tables
      <4> QED
        BY <3>1, <4>2
    <3>4. ASSUME NEW u \in PTX
          PROVE  t.mem[b][u] = IF Done(j, n, z, u) THEN Want(z, u) ELSE ZeroPte
      <4>1. CASE z = x /\ u = y
        <5>1. b = a /\ t.mem[b][u] = e
          BY <1>7, <3>1, <4>1
        <5> QED
          BY <1>0, <1>3, <4>1, <5>1
      <4>2. CASE z # x
        <5>1. b # a
          BY <1>1, <1>5, <2>2, <3>1, <3>2, <4>2 DEF Tables
        <5>2. t.mem[b][u] = s.mem[b][u]
          BY <1>7, <3>2, <5>1
        <5> QED
          BY <1>0, <3>3, <4>2, <5>2
      <4>3. CASE z = x /\ u # y
        <5>1. t.mem[b][u] = s.mem[b][u]
          BY <1>7, <3>1, <4>3
        <5> QED
          BY <1>0, <3>3, <4>3, <5>1
      <4> QED
        BY <4>1, <4>2, <4>3
    <3> QED
      BY <3>2, <3>3, <3>4
  <2>3. /\ t.pgdir[Kern][UVPT] = machine.end
        /\ \A z, u \in PDX : t.pgdir[Kern][z] # NULL /\ t.pgdir[Kern][z] = t.pgdir[Kern][u] => z = u
    <3>1. /\ s.pgdir[Kern][UVPT] = machine.end
          /\ \A z, u \in PDX : s.pgdir[Kern][z] # NULL /\ s.pgdir[Kern][z] = s.pgdir[Kern][u] => z = u
      BY <1>5 DEF Tables
    <3>2. t.pgdir = s.pgdir
      BY <1>4
    <3> QED
      BY <3>1, <3>2
  <2> QED
    BY <2>1, <2>2, <2>3 DEF Tables
<1>9. IsLow(a)
  BY <1>1, <1>5 DEF Tables
<1> QED
  BY <1>4, <1>6, <1>8, <1>9, MappingParts DEF Iterated

(* A table is made for the entry: the low pages suffice for all of them.   *)
LEMMA MapNew ==
  ASSUME NEW s \in MMType, machine \in Layouts, NEW j, NEW k, NEW n, Mapping(s, j, k), n = k + 1,
         NEW x, NEW y, x \in RegionIndex, y \in PTX,
         Adds(j, k, n, x, y),
         s.pgdir[Kern][x] = NULL, Want(x, y) \in Entry,
         NEW v, v = <<x, y>>, NEW w, w = pgdir_make(s, Kern, v),
         NEW t, t = store(w.st, w.pte, Want(x, y))
  PROVE  w.pte # NULL /\ Iterated(s, t, j, n, x)
<1>0. \A z \in PDX, u \in PTX : Done(j, n, z, u) <=> Done(j, k, z, u) \/ (z = x /\ u = y)
  BY DEF Adds
<1>1. x \in PDX /\ x # UVPT /\ Kern \in Pgdirs /\ UVPT \in PDX
  BY KernFacts DEF RegionIndex
<1>2. v \in VA /\ v[1] = x /\ v[2] = y /\ ~HasTable(s, Kern, v)
  BY <1>1 DEF VA, HasTable
<1>3. /\ Counted(s) /\ ChainOK(s) /\ LowTop(s, Cardinality(Missing(s)))
      /\ Tables(s, j, k)
  BY MappingParts
<1>4. /\ IsFiniteSet(Missing(s)) /\ x \in Missing(s)
      /\ Cardinality(Missing(s)) \in Nat /\ Cardinality(Missing(s)) >= 1
      /\ Cardinality(Missing(s) \ {x}) = Cardinality(Missing(s)) - 1
  <2>1. Missing(s) \subseteq RegionIndex /\ x \in Missing(s)
    BY DEF Missing, RegionIndex
  <2>2. IsFiniteSet(RegionIndex)
    BY MachineFacts, RegionCount
  <2>3. IsFiniteSet(Missing(s))
    BY <2>1, <2>2, FS_Subset
  <2>4. Cardinality(Missing(s)) \in Nat
    BY <2>3, FS_CardinalityType
  <2>5. Cardinality(Missing(s)) # 0
    BY <2>1, <2>3, FS_EmptySet
  <2>6. Cardinality(Missing(s) \ {x}) = Cardinality(Missing(s)) - 1
    BY <2>1, <2>3, FS_RemoveElement
  <2> QED
    BY <2>1, <2>3, <2>4, <2>5, <2>6
<1>5. PICK m \in Nat, c \in Nat : m = Len(s.free) /\ c = Cardinality(Missing(s))
  BY <1>4 DEF MMType
<1>6. c >= 1 /\ c <= m /\ \A i \in m - c + 1 .. m : IsLow(s.free[i])
  BY <1>3, <1>4, <1>5 DEF LowTop
<1>7. PICK a : a = s.free[m]
  OBVIOUS
<1>8. a \in Page /\ a # NULL /\ s.page_free_list = a /\ IsFree(s, a) /\ IsLow(a)
  <2>1. m \in 1 .. Len(s.free) /\ m \in m - c + 1 .. m
    BY <1>5, <1>6
  <2>2. s.free[m] \in Page /\ s.free[m] # NULL
    BY <1>3, <2>1, ChainLinks
  <2>3. s.page_free_list = s.free[m]
    BY <1>3, <1>5, <1>6 DEF ChainOK
  <2> QED
    BY <1>6, <1>7, <2>1, <2>2, <2>3 DEF IsFree
<1>9. s.pp_ref[a] = 0 /\ ~InUse(a) /\ ~IsTable(s, a)
  BY <1>3, <1>8 DEF Counted
<1>10. PICK e \in Entry : e = Want(x, y)
  OBVIOUS
<1>11. PICK q : q = w.st
  OBVIOUS
<1>12. /\ w.pte = <<a, y>> /\ q \in MMType /\ ChainOK(q) /\ Len(q.free) = m - 1
       /\ \A i \in 1 .. m - 1 : q.free[i] = s.free[i]
       /\ \A p \in Page : IsFree(q, p) <=> IsFree(s, p) /\ p # a
       /\ q.mem = [s.mem EXCEPT ![a] = Zeros] /\ q.pp_ref = [s.pp_ref EXCEPT ![a] = 1]
       /\ q.pgdir = Written(s.pgdir, Kern, x, a) /\ q.status = s.status
  <2>1. NewTable(s, pgdir_make(s, Kern, v), Kern, v, a)
    BY <1>1, <1>2, <1>3, <1>8, <1>9, WalkChain
  <2> QED
    BY <1>2, <1>5, <1>11, <2>1 DEF NewTable
<1>13. /\ t \in MMType
       /\ t.page_free_list = q.page_free_list /\ t.pp_link = q.pp_link
       /\ t.free = q.free /\ t.pgdir = q.pgdir /\ t.status = q.status
       /\ t.pp_ref = q.pp_ref
       /\ t.mem = Written(q.mem, a, y, e)
  <2>1. PICK r \in Page \X PTX : r = w.pte /\ r[1] = a /\ r[2] = y
    BY <1>8, <1>12
  <2>2. t = store(q, r, e)
    BY <1>10, <1>11, <2>1
  <2> QED
    BY <1>12, <2>1, <2>2, StoreFields, StoreType
<1>14. /\ t.mem[a] = FirstEntry(y, e) /\ \A p \in Page : p # a => t.mem[p] = s.mem[p]
  <2>1. s.mem \in [Page -> [PTX -> Entry]]
    BY DEF MMType
  <2>2. PICK f : f = s.mem
    OBVIOUS
  <2>3. Written([f EXCEPT ![a] = Zeros], a, y, e) = [f EXCEPT ![a] = FirstEntry(y, e)]
    BY SMTT(30), <1>8, <2>1, <2>2, WriteFirst
  <2>4. t.mem = [f EXCEPT ![a] = FirstEntry(y, e)]
    BY <1>12, <1>13, <2>2, <2>3
  <2>5. f \in [Page -> [PTX -> Entry]]
    BY <2>1, <2>2
  <2>6. /\ [f EXCEPT ![a] = FirstEntry(y, e)][a] = FirstEntry(y, e)
        /\ \A p \in Page : p # a => [f EXCEPT ![a] = FirstEntry(y, e)][p] = f[p]
    BY <1>8, <2>5
  <2> QED
    BY <2>2, <2>4, <2>6
<1>15. /\ t.pgdir[Kern][x] = a /\ \A z \in PDX : z # x => t.pgdir[Kern][z] = s.pgdir[Kern][z]
  <2>1. PICK f \in [Pgdirs -> [PDX -> Page \cup {NULL}]] : f = s.pgdir
    BY DEF MMType
  <2>2. t.pgdir = Written(f, Kern, x, a)
    BY <1>12, <1>13, <2>1
  <2>3. /\ Written(f, Kern, x, a)[Kern][x] = a
        /\ \A z \in PDX : z # x => Written(f, Kern, x, a)[Kern][z] = f[Kern][z]
    BY <1>1 DEF Written
  <2> QED
    BY <2>1, <2>2, <2>3
<1>16. \A z \in PDX : s.pgdir[Kern][z] # a
  BY <1>1, <1>9 DEF IsTable
<1>17. ChainOK(t)
  BY <1>12, <1>13, SameChain
<1>18. Counted(t)
  <2>1. \A p \in Page : IsTable(t, p) <=> IsTable(s, p) \/ p = a
    <3>1. ASSUME NEW p \in Page, NEW z \in PDX, t.pgdir[Kern][z] = p
          PROVE  p = a \/ s.pgdir[Kern][z] = p
      BY <1>15, <3>1
    <3>2. ASSUME NEW p \in Page, NEW z \in PDX, s.pgdir[Kern][z] = p
          PROVE  t.pgdir[Kern][z] = p
      <4>1. p # NULL
        BY PagesAssumption
      <4> QED
        BY <1>15, <3>2, <4>1
    <3> QED
      BY <1>1, <1>15, <3>1, <3>2, KernFacts DEF IsTable
  <2>2. ASSUME NEW p \in Page
        PROVE  /\ t.pp_ref[p] = IF InUse(p) \/ IsTable(t, p) THEN 1 ELSE 0
               /\ IsFree(t, p) <=> t.pp_ref[p] = 0
    <3>1. t.pp_ref[p] = IF p = a THEN 1 ELSE s.pp_ref[p]
      <4>1. PICK f : f = s.pp_ref
        OBVIOUS
      <4>2. f \in [Page -> Nat]
        BY <4>1 DEF MMType
      <4>3. t.pp_ref = [f EXCEPT ![a] = 1]
        BY <1>12, <1>13, <4>1
      <4> QED
        BY <1>8, <2>2, <4>1, <4>2, <4>3
    <3>2. IsFree(t, p) <=> IsFree(q, p)
      BY <1>13 DEF IsFree
    <3>3. /\ s.pp_ref[p] = IF InUse(p) \/ IsTable(s, p) THEN 1 ELSE 0
          /\ IsFree(s, p) <=> s.pp_ref[p] = 0
      BY <1>3 DEF Counted
    <3>4. CASE p = a
      BY <1>12, <2>1, <3>1, <3>2, <3>4
    <3>5. CASE p # a
      BY <1>12, <2>1, <3>1, <3>2, <3>3, <3>5
    <3> QED
      BY <3>4, <3>5
  <2> QED
    BY <2>2 DEF Counted
<1>19. LowTop(t, Cardinality(Missing(t)))
  <2>1. Missing(t) = Missing(s) \ {x}
    <3>1. \A z \in RegionIndex : z \in PDX
      BY KernFacts DEF RegionIndex
    <3> QED
      BY <1>8, <1>15, <3>1 DEF Missing, RegionIndex
  <2>2. Cardinality(Missing(t)) = c - 1
    BY <1>4, <1>5, <2>1
  <2>3. Len(t.free) = m - 1 /\ \A i \in 1 .. m - 1 : t.free[i] = s.free[i]
    BY <1>12, <1>13
  <2>4. \A i \in (m - 1) - (c - 1) + 1 .. m - 1 : IsLow(t.free[i])
    <3>1. \A i \in (m - 1) - (c - 1) + 1 .. m - 1 : i \in 1 .. m - 1 /\ i \in m - c + 1 .. m
      BY <1>6
    <3> QED
      BY <1>6, <2>3, <3>1 DEF IsLow
  <2>5. LowTop(t, c - 1)
    BY <1>6, <2>3, <2>4 DEF LowTop
  <2> QED
    BY <2>2, <2>5
<1>20. Tables(t, j, n)
  <2>1. \A z \in PDX : s.pgdir[Kern][z] # NULL <=> z = UVPT \/ \E u \in PTX : Done(j, k, z, u)
    BY <1>3 DEF Tables
  <2>2. \A z \in PDX : t.pgdir[Kern][z] # NULL <=> z = UVPT \/ \E u \in PTX : Done(j, n, z, u)
    BY <1>0, <1>1, <1>8, <1>15, <2>1
  <2>3. \A u \in PTX : ~Done(j, k, x, u)
    BY <1>1, <2>1
  <2>4. ASSUME NEW z \in PDX \ {UVPT}, t.pgdir[Kern][z] # NULL
        PROVE  /\ IsLow(t.pgdir[Kern][z])
               /\ \A u \in PTX : t.mem[t.pgdir[Kern][z]][u] = IF Done(j, n, z, u) THEN Want(z, u) ELSE ZeroPte
    <3>1. CASE z = x
      <4>1. \A u \in PTX : FirstEntry(y, e)[u] = IF u = y THEN e ELSE ZeroPte
        BY DEF FirstEntry, Zeros
      <4>2. \A u \in PTX : Done(j, n, x, u) <=> u = y
        BY <1>0, <1>1, <2>3
      <4>3. t.pgdir[Kern][z] = a /\ IsLow(a)
        BY <1>8, <1>15, <3>1
      <4>4. t.mem[a] = FirstEntry(y, e)
        BY <1>14
      <4>5. ASSUME NEW u \in PTX
            PROVE  t.mem[a][u] = IF Done(j, n, z, u) THEN Want(z, u) ELSE ZeroPte
        <5>1. t.mem[a][u] = IF u = y THEN e ELSE ZeroPte
          BY <4>1, <4>4
        <5>2. Done(j, n, z, u) <=> u = y
          BY <3>1, <4>2
        <5>3. CASE u = y
          BY <1>10, <3>1, <5>1, <5>2, <5>3
        <5>4. CASE u # y
          BY <5>1, <5>2, <5>4
        <5> QED
          BY <5>3, <5>4
      <4> QED
        BY <4>3, <4>5
    <3>2. CASE z # x
      <4>1. PICK b : b = s.pgdir[Kern][z]
        OBVIOUS
      <4>2. b # NULL /\ t.pgdir[Kern][z] = b /\ b \in Page /\ b # a
        <5>1. b \in Page \cup {NULL}
          BY <1>1, <4>1 DEF MMType
        <5>2. t.pgdir[Kern][z] = b /\ b # a
          BY <1>15, <1>16, <3>2, <4>1
        <5> QED
          BY <2>4, <5>1, <5>2
      <4>3. /\ IsLow(b)
            /\ \A u \in PTX : s.mem[b][u] = IF Done(j, k, z, u) THEN Want(z, u) ELSE ZeroPte
        BY <1>3, <4>1, <4>2 DEF Tables
      <4>4. \A u \in PTX : Done(j, n, z, u) <=> Done(j, k, z, u)
        BY <1>0, <3>2
      <4>5. t.mem[b] = s.mem[b]
        BY <1>14, <4>2
      <4>6. \A u \in PTX : t.mem[b][u] = IF Done(j, n, z, u) THEN Want(z, u) ELSE ZeroPte
        BY <4>3, <4>4, <4>5
      <4> QED
        BY <4>2, <4>3, <4>6
    <3> QED
      BY <3>1, <3>2
  <2>5. t.pgdir[Kern][UVPT] = machine.end
    BY <1>1, <1>3, <1>15 DEF Tables
  <2>6. \A z, u \in PDX : t.pgdir[Kern][z] # NULL /\ t.pgdir[Kern][z] = t.pgdir[Kern][u] => z = u
    <3>1. \A z, u \in PDX : s.pgdir[Kern][z] # NULL /\ s.pgdir[Kern][z] = s.pgdir[Kern][u] => z = u
      BY <1>3 DEF Tables
    <3> QED
      BY <1>15, <1>16, <3>1
  <2> QED
    BY <2>2, <2>4, <2>5, <2>6 DEF Tables
<1>21. w.pte # NULL
  <2>1. w.pte \in Page \X PTX
    BY <1>8, <1>12
  <2> QED
    BY <2>1, PagesAssumption
<1> QED
  BY <1>8, <1>12, <1>13, <1>15, <1>17, <1>18, <1>19, <1>20, <1>21, MappingParts DEF Iterated

LEMMA MapOneIs ==
  ASSUME NEW r, NEW k, NEW v, v = VirtPage(r.va + k),
         NEW w, w = pgdir_make(mm, Kern, v), w.pte # NULL,
         NEW e, e = [addr |-> PhysPage(r.pa + k), perm |-> r.perm \cup {"P"}]
  PROVE  MapOne(r, k) = store(w.st, w.pte, e)
<1> DEFINE u == pgdir_walk(mm, Kern, VirtPage(r.va + k), TRUE)
<1>1. u = w
  BY DEF pgdir_make
<1> HIDE DEF u
<1>2. u.pte # NULL
  BY <1>1
<1>3. MapOne(r, k) = store(u.st, u.pte, e)
  BY <1>2 DEF MapOne, u
<1> QED
  BY <1>1, <1>3

(* The pages of the regions are mapped one by one, then the regions.       *)
LEMMA BootMapRegionStep ==
  ASSUME MemInv, mm.status = "run", boot_map_region
  PROVE  MemInv'
<1>1. /\ machine \in Layouts /\ mm \in MMType /\ nextfree = FirstFree
      /\ pages = machine.end + 1 /\ pc = "boot_map_region" /\ MappingAt
  BY DEF MemInv, boot_map_region
<1>2. PICK j \in 1 .. 4 : \E k \in 0 .. Size(j) : at = <<j, k>> /\ Mapping(mm, j, k)
  BY <1>1 DEF MappingAt
<1>3. PICK k \in 0 .. Size(j) : at = <<j, k>> /\ Mapping(mm, j, k)
  BY <1>2
<1>4. /\ machine' = machine /\ nextfree' = nextfree /\ pages' = pages
  BY DEF boot_map_region
<1>5. \A s, i, n : Mapping(s, i, n) => Mapping(s, i, n)'
  BY <1>4
     DEF Mapping, Counted, InUse, IsTable, IsFree, ChainOK, LowTop, IsLow, Missing, Done, Want
<1>6. ASSUME j = 4 PROVE MemInv'
  <2>1. k = 0
    BY <1>6 DEF Size
  <2>2. /\ mm' = mm /\ pc' = "check_kern_pgdir" /\ touched' = {}
    BY <1>3, <1>6, RegionFields DEF boot_map_region
  <2>3. Mapping(mm, 4, 0)'
    BY <1>3, <1>5, <1>6, <2>1, <2>2
  <2> QED
    BY <1>1, <1>4, <2>2, <2>3 DEF MemInv, PCs, WritesOnlyMapped, FirstFree
<1>7. ASSUME j # 4 PROVE MemInv'
  <2>1. j \in 1 .. 3 /\ ~(j > Len(Regions))
    BY <1>7, RegionFields
  <2>2. numpage(Regions[j].size) = Size(j) /\ Size(j) \in Nat
    BY <1>1, <2>1, RegionPages
  <2>3. PICK r : r = Regions[j]
    OBVIOUS
  <2>4. IF k = Size(j)
        THEN /\ at' = <<j + 1, 0>> /\ touched' = {}
             /\ UNCHANGED <<mm, pc>>
        ELSE /\ mm' = MapOne(r, k)
             /\ at' = <<j, k + 1>>
             /\ touched' = {mm'.pgdir[Kern][VirtPage(r.va + k)[1]]} \ {NULL}
             /\ UNCHANGED pc
    <3>1. at[1] = j /\ at[2] = k
      BY <1>3
    <3> QED
      BY <2>1, <2>2, <2>3, <3>1 DEF boot_map_region
  <2>5. ASSUME k = Size(j) PROVE MemInv'
    <3>1. mm' = mm /\ pc' = pc /\ touched' = {} /\ at' = <<j + 1, 0>>
      BY <2>4, <2>5
    <3>2. Mapping(mm, j + 1, 0)
      <4>1. PICK i : i = j + 1
        OBVIOUS
      <4>2. \A x \in PDX, y \in PTX : Done(j, k, x, y) <=> Done(i, 0, x, y)
        BY <2>1, <2>5, <4>1, RegionEnd
      <4>3. Tables(mm, j, k)
        BY <1>3, MappingParts
      <4>4. Tables(mm, i, 0)
        BY <4>2, <4>3 DEF Tables
      <4>5. Mapping(mm, i, 0)
        BY <1>3, <4>4, MappingParts
      <4> QED
        BY <4>1, <4>5
    <3>3. j + 1 \in 1 .. 4 /\ 0 \in 0 .. Size(j + 1)
      <4>1. NPT \in Nat /\ KSTK \in Nat /\ KernTables * NPT \in Nat
        BY <1>1, MachineFacts
      <4>2. \A i : Size(i) \in Nat
        BY <4>1 DEF Size
      <4> QED
        BY <2>1, <4>2
    <3>4. MappingAt'
      <4>1. Mapping(mm, j + 1, 0)'
        BY <1>5, <3>1, <3>2
      <4>2. Size(j + 1)' = Size(j + 1)
        BY DEF Size
      <4> QED
        BY <3>1, <3>3, <4>1, <4>2 DEF MappingAt
    <3> QED
      BY <1>1, <1>4, <3>1, <3>4 DEF MemInv, PCs, WritesOnlyMapped, FirstFree
  <2>6. ASSUME k # Size(j) PROVE MemInv'
    <3>1. PICK n : n = k + 1
      OBVIOUS
    <3>2. k \in 0 .. Size(j) - 1 /\ k \in Nat /\ n \in 0 .. Size(j)
      BY <2>2, <2>6, <3>1
    <3>3. /\ mm' = MapOne(r, k) /\ at' = <<j, n>> /\ pc' = pc
          /\ touched' = {mm'.pgdir[Kern][VirtPage(r.va + k)[1]]} \ {NULL}
      BY <2>4, <2>6, <3>1
    <3>4. pages \in Nat
      BY <1>1, MachineFacts
    <3>5. PICK x, y : Fills(j, k, x, y)
      BY <1>1, <2>1, <3>2, <3>4, WritesOne
    <3>6. /\ x \in RegionIndex /\ y \in PTX /\ VirtPage(r.va + k) = <<x, y>>
          /\ Want(x, y) = [addr |-> PhysPage(r.pa + k), perm |-> r.perm \cup {"P"}]
          /\ \A z \in PDX, u \in PTX : Done(j, n, z, u) <=> Done(j, k, z, u) \/ (z = x /\ u = y)
      BY <2>3, <3>1, <3>5 DEF Fills
    <3>7. Want(x, y) \in Entry
      BY <1>1, <2>1, <3>2, <3>4, <3>5, WantType
    <3>8. PICK v, w, e : v = <<x, y>> /\ w = pgdir_make(mm, Kern, v) /\ e = Want(x, y)
      OBVIOUS
    <3>9. v \in VA /\ Kern \in Pgdirs
      BY <3>6, <3>8, KernFacts DEF VA, RegionIndex
    <3>10. /\ w.pte # NULL /\ store(w.st, w.pte, e) \in MMType
           /\ Mapping(store(w.st, w.pte, e), j, n) /\ store(w.st, w.pte, e).status = "run"
           /\ IsLow(store(w.st, w.pte, e).pgdir[Kern][x])
      <4>1. PICK t : t = store(w.st, w.pte, e)
        OBVIOUS
      <4>2. Adds(j, k, n, x, y)
        BY <3>6 DEF Adds
      <4>3. ASSUME mm.pgdir[Kern][x] = NULL
            PROVE  w.pte # NULL /\ Iterated(mm, t, j, n, x)
        <5>1. t = store(w.st, w.pte, Want(x, y))
          BY <3>8, <4>1
        <5> QED
          BY <1>1, <1>3, <3>1, <3>6, <3>7, <3>8, <4>2, <4>3, <5>1, MapNew
      <4>4. ASSUME mm.pgdir[Kern][x] # NULL
            PROVE  w.pte # NULL /\ Iterated(mm, t, j, n, x)
        <5>1. PICK a, q : a = mm.pgdir[Kern][x] /\ q = <<a, y>>
          OBVIOUS
        <5>2. w.st = mm /\ w.pte = q
          <6>1. HasTable(mm, Kern, v)
            BY <3>8, <4>4 DEF HasTable
          <6>2. pgdir_walk(mm, Kern, v, TRUE) = [st |-> mm, pte |-> <<mm.pgdir[Kern][v[1]], v[2]>>]
            BY <1>1, <3>9, <6>1, WalkThere
          <6>3. w = [st |-> mm, pte |-> <<mm.pgdir[Kern][v[1]], v[2]>>]
            BY <3>8, <6>2 DEF pgdir_make
          <6> QED
            BY <3>8, <5>1, <6>3
        <5>3. t = store(mm, q, Want(x, y)) /\ a # NULL
          BY <3>8, <4>1, <4>4, <5>1, <5>2
        <5>4. Iterated(mm, t, j, n, x)
          BY <1>1, <1>3, <3>1, <3>6, <3>7, <4>2, <5>1, <5>3, MapThere
        <5>5. q \in Page \X PTX
          <6>1. x \in PDX
            BY <3>6, KernFacts DEF RegionIndex
          <6>2. a \in Page
            BY <1>1, <3>9, <5>1, <5>3, <6>1 DEF MMType
          <6> QED
            BY <3>6, <5>1, <6>2
        <5>6. w.pte # NULL
          BY <5>2, <5>5, PagesAssumption
        <5> QED
          BY <5>4, <5>6
      <4>5. w.pte # NULL /\ Iterated(mm, t, j, n, x)
        BY <4>3, <4>4
      <4> QED
        BY <4>1, <4>5 DEF Iterated
    <3>11. mm' = store(w.st, w.pte, e)
      <4>1. v = VirtPage(r.va + k) /\ e = [addr |-> PhysPage(r.pa + k), perm |-> r.perm \cup {"P"}]
        BY <3>6, <3>8
      <4> QED
        BY <3>3, <3>8, <3>10, <4>1, MapOneIs
    <3>12. mm' \in MMType /\ mm'.status = "run" /\ Mapping(mm', j, n) /\ IsLow(mm'.pgdir[Kern][x])
      BY <3>10, <3>11
    <3>13. WritesOnlyMapped'
      <4>1. VirtPage(r.va + k)[1] = x
        BY <3>6
      <4> QED
        BY <3>3, <3>12, <4>1 DEF WritesOnlyMapped, IsLow
    <3>14. MappingAt'
      <4>1. PICK t : t = mm'
        OBVIOUS
      <4>2. Mapping(t, j, n)'
        BY <1>5, <3>12, <4>1
      <4>3. Mapping(mm, j, n)'
        BY <4>1, <4>2
      <4>4. Size(j)' = Size(j)
        BY DEF Size
      <4> QED
        BY <3>2, <3>3, <4>3, <4>4 DEF MappingAt
    <3> QED
      BY <1>1, <1>4, <3>3, <3>12, <3>13, <3>14 DEF MemInv, PCs, FirstFree
  <2> QED
    BY <2>5, <2>6
<1> QED
  BY <1>6, <1>7

(* An iteration of boot_map_region is found in the finished tables.        *)
LEMMA FindsMapping ==
  ASSUME MemInv, pc = "check_kern_pgdir", NEW j \in 1 .. 3, NEW k \in 0 .. Size(j) - 1,
         NEW v, v = VirtPage(Regions[j].va + k),
         NEW b, b = Regions[j].pa + k
  PROVE  IsMapped(mm, Kern, v) /\ Pte(mm, Kern, v).addr = PhysPage(b)
<1>1. machine \in Layouts /\ pages \in Nat /\ Tables(mm, 4, 0) /\ k \in Nat
  <2>1. machine \in Layouts /\ pages = machine.end + 1 /\ Mapping(mm, 4, 0)
    BY DEF MemInv
  <2>2. Size(j) \in Nat
    <3>1. NPT \in Nat /\ KSTK \in Nat /\ KernTables * NPT \in Nat
      BY <2>1, MachineFacts
    <3> QED
      BY <3>1 DEF Size
  <2> QED
    BY <2>1, <2>2, MachineFacts, MappingParts
<1>2. PICK x, y : Fills(j, k, x, y)
  BY <1>1, WritesOne
<1>3. /\ x \in RegionIndex /\ y \in PTX /\ v = <<x, y>> /\ Done(j, k + 1, x, y)
      /\ Want(x, y) = [addr |-> PhysPage(b), perm |-> Regions[j].perm \cup {"P"}]
  <2>1. RegionIndex \subseteq PDX
    BY KernFacts DEF RegionIndex
  <2> QED
    BY <1>2, <2>1 DEF Fills
<1>4. Done(4, 0, x, y)
  BY <1>3 DEF Done
<1>5. x \in PDX \ {UVPT}
  BY <1>3, KernFacts DEF RegionIndex
<1>6. mm.pgdir[Kern][x] # NULL /\ mm.mem[mm.pgdir[Kern][x]][y] = Want(x, y)
  BY <1>1, <1>3, <1>4, <1>5 DEF Tables
<1> QED
  <2>1. v[1] = x /\ v[2] = y /\ "P" \in Want(x, y).perm /\ Want(x, y).addr = PhysPage(b)
    BY <1>3
  <2> QED
    BY <1>6, <2>1 DEF IsMapped, HasTable, Pte, Present

LEMMA PagesMapped ==
  ASSUME MemInv, pc = "check_kern_pgdir", NEW k \in 0 .. PagesSize - 1
  PROVE  Mapped(UPAGES, k) = pages + k
<1>1. machine \in Layouts /\ pages = machine.end + 1
  BY DEF MemInv
<1>2. /\ pages \in Nat /\ PagesSize \in Nat /\ NPT \in Nat /\ npages \in Nat
      /\ pages + PagesSize <= NPT /\ pages + PagesSize < npages
  BY <1>1, MachineFacts DEF FirstFree
<1>3. k \in 0 .. Size(1) - 1
  BY <1>2 DEF Size
<1>4. Regions[1].va + k = UPAGES * NPT + k /\ Regions[1].pa + k = pages + k
  BY RegionFields
<1>5. PICK v : v = VirtPage(UPAGES * NPT + k)
  OBVIOUS
<1>6. IsMapped(mm, Kern, v) /\ Pte(mm, Kern, v).addr = PhysPage(pages + k)
  BY <1>3, <1>4, <1>5, FindsMapping
<1>7. PhysPage(pages + k) = pages + k
  BY <1>2 DEF PhysPage
<1> QED
  BY <1>5, <1>6, <1>7 DEF Mapped

(* The asserts on pages[] hold.                                            *)
LEMMA CheckKernPgdirStep ==
  ASSUME MemInv, mm.status = "run", check_kern_pgdir
  PROVE  MemInv'
<1>1. /\ machine \in Layouts /\ mm \in MMType /\ nextfree = FirstFree
      /\ pages = machine.end + 1 /\ Mapping(mm, 4, 0) /\ pc = "check_kern_pgdir"
  BY DEF MemInv, check_kern_pgdir
<1>2. \A k \in 0 .. PagesSize - 1 : Mapped(UPAGES, k) = pages + k
  BY <1>1, PagesMapped
<1>3. /\ machine' = machine /\ nextfree' = nextfree /\ pages' = pages
      /\ pc' = "check_envs" /\ touched' = {} /\ mm' = mm
  BY <1>2 DEF check_kern_pgdir
<1>4. Mapping(mm, 4, 0)'
  BY <1>1, <1>3
     DEF Mapping, Counted, InUse, IsTable, IsFree, ChainOK, LowTop, IsLow, Missing, Done, Want
<1> QED
  BY <1>1, <1>3, <1>4 DEF MemInv, PCs, WritesOnlyMapped, FirstFree

(* envs is NULL: the boot ends here.                                       *)
LEMMA CheckEnvsStep ==
  ASSUME MemInv, mm.status = "run", check_envs
  PROVE  MemInv'
<1>1. /\ machine \in Layouts /\ mm \in MMType /\ nextfree = FirstFree
      /\ pages = machine.end + 1 /\ Mapping(mm, 4, 0)
  BY DEF MemInv, check_envs
<1>2. /\ machine' = machine /\ nextfree' = nextfree /\ pages' = pages
      /\ pc' = "check_phys_mem" /\ touched' = {} /\ mm' = [mm EXCEPT !.status = "panic"]
  BY DEF check_envs, envs
<1>3. PICK t : t = [mm EXCEPT !.status = "panic"]
  OBVIOUS
<1>4. /\ t \in MMType /\ t.pgdir = mm.pgdir /\ t.mem = mm.mem /\ t.pp_ref = mm.pp_ref
      /\ t.free = mm.free /\ t.pp_link = mm.pp_link /\ t.page_free_list = mm.page_free_list
  BY <1>1, <1>3 DEF MMType
<1>5. Mapping(t, 4, 0)
  <2>1. Counted(t) /\ LowTop(t, Cardinality(Missing(t))) /\ Tables(t, 4, 0)
    <3>1. /\ Counted(mm) /\ LowTop(mm, Cardinality(Missing(mm))) /\ Tables(mm, 4, 0)
      BY <1>1, MappingParts
    <3>2. Missing(t) = Missing(mm)
      BY <1>4 DEF Missing
    <3>3. \A m : LowTop(mm, m) => LowTop(t, m)
      BY <1>4 DEF LowTop
    <3>4. Counted(t)
      BY <1>4, <3>1 DEF Counted, IsFree, IsTable
    <3>5. Tables(t, 4, 0)
      BY <1>4, <3>1 DEF Tables
    <3> QED
      BY <3>1, <3>2, <3>3, <3>4, <3>5
  <2>2. ChainOK(t)
    BY <1>1, <1>4, SameChain, MappingParts
  <2> QED
    BY <2>1, <2>2, MappingParts
<1>6. Mapping(t, 4, 0)'
  BY <1>2, <1>5
     DEF Mapping, Counted, InUse, IsTable, IsFree, ChainOK, LowTop, IsLow, Missing, Done, Want
<1> QED
  BY <1>1, <1>2, <1>3, <1>4, <1>6 DEF MemInv, PCs, WritesOnlyMapped, FirstFree

-----------------------------------------------------------------------------
(* The theorems.                                                           *)

LEMMA PageInit ==
  ASSUME MemInv, mm.status = "run", page_init
  PROVE  MemInv'
<1>1. CASE MorePages(at)
  BY <1>1, PageInitStep
<1>2. CASE ~MorePages(at)
  BY <1>2, PageInitEnd
<1> QED
  BY <1>1, <1>2

LEMMA NextStep ==
  ASSUME MemInv, [Next]_vars
  PROVE  MemInv'
<1>1. CASE UNCHANGED vars
  <2>1. /\ mm' = mm /\ machine' = machine /\ pc' = pc /\ at' = at /\ nextfree' = nextfree
        /\ pages' = pages /\ tp' = tp /\ pp' = pp /\ fl' = fl /\ touched' = touched
    BY <1>1 DEF vars
  <2>2. FirstFree' = FirstFree /\ (OnlySelf(mm) => OnlySelf(mm)')
    BY <2>1 DEF FirstFree, OnlySelf
  <2>3. /\ \A i : FreePage(i)' = FreePage(i) /\ Listed(i)' = Listed(i) /\ InUse(i)' = InUse(i)
        /\ Lows' = Lows
    BY <2>1 DEF FirstFree, FreePage, Listed, InUse, Lows, IsLow
  <2>4. Counted(mm) => Counted(mm)'
    BY <2>1 DEF Counted, InUse, IsTable, IsFree
  <2>5. (ChainOK(mm) => ChainOK(mm)') /\ \A n : Ascending(mm, n) => Ascending(mm, n)'
    BY <2>1, <2>3 DEF ChainOK, Ascending
  <2>6. Steady(mm) => Steady(mm)'
    BY <2>1, <2>2, <2>4, <2>5 DEF Steady, LowTop, IsLow
  <2>7. Building => Building'
    BY <2>1, <2>2, <2>3, <2>5 DEF Building
  <2>8. Reordering => Reordering'
    BY <2>1, <2>2, <2>3, <2>4, <2>5 DEF Reordering, Walked
  <2>9. ThreePages => ThreePages'
    BY <2>1, <2>3 DEF ThreePages, Taken, IsLow
  <2>10. Before(mm, at) => Before(mm, at)'
    <3>1. \A s, f, r, k, T : CheckState(s, f, r, k, T) => CheckState(s, f, r, k, T)'
      <4>1. Taken' = Taken /\ \A k : KernDir(k)' = KernDir(k)
        BY <2>1 DEF Taken, KernDir
      <4> QED
        BY <2>1, <2>3, <4>1
           DEF CheckState, IsFree, GiveBack, ChainOK, LowTop, IsLow
    <3>2. /\ \A i, j, k : Refs3(i, j, k)' = Refs3(i, j, k)
          /\ \A i, perm : EntryFor(i, perm)' = EntryFor(i, perm)
      BY <2>1 DEF Refs3, Taken, EntryFor
    <3>3. PICK s, k, p : s = mm /\ k = at /\ p = pp
      OBVIOUS
    <3>4. Before(s, k) => Before(s, k)'
      BY <2>1, <3>1, <3>2 DEF Before
    <3> QED
      BY <2>1, <3>3, <3>4
  <2>11. \A j, k : Mapping(mm, j, k) => Mapping(mm, j, k)'
    BY <2>1
       DEF Mapping, Counted, InUse, IsTable, IsFree, ChainOK, LowTop, IsLow, Missing, Done, Want
  <2>12. MappingAt => MappingAt'
    BY <2>1, <2>11 DEF MappingAt, Size
  <2> QED
    BY <2>1, <2>2, <2>6, <2>7, <2>8, <2>9, <2>10, <2>11, <2>12
       DEF MemInv, WritesOnlyMapped
<1>2. ASSUME Next PROVE MemInv'
  <2>1. mm.status = "run"
    BY <1>2 DEF Next
  <2>2. CASE AllocKernPgdir
    BY <2>1, <2>2, AllocKernPgdirStep
  <2>3. CASE AllocPages
    BY <2>1, <2>3, AllocPagesStep
  <2>4. CASE page_init
    BY <2>1, <2>4, PageInit
  <2>5. CASE Move
    BY <2>1, <2>5, MoveStep
  <2>6. CASE Join
    BY <2>1, <2>6, JoinStep
  <2>7. CASE Fill
    BY <2>1, <2>7, FillStep
  <2>8. CASE CheckFreeList
    BY <2>1, <2>8, CheckFreeListStep
  <2>9. CASE check_page_alloc
    BY <2>1, <2>9, CheckPageAllocStep
  <2>10. CASE check_page
    BY <2>1, <2>10, CheckPageStep
  <2>11. CASE check_page_calls
    BY <2>1, <2>11, CheckPageCallsStep
  <2>12. CASE GiveBackAll
    BY <2>1, <2>12, GiveBackAllStep
  <2>13. CASE boot_map_region
    BY <2>1, <2>13, BootMapRegionStep
  <2>14. CASE check_kern_pgdir
    BY <2>1, <2>14, CheckKernPgdirStep
  <2>15. CASE check_envs
    BY <2>1, <2>15, CheckEnvsStep
  <2> QED
    BY <1>2, <2>2, <2>3, <2>4, <2>5, <2>6, <2>7, <2>8, <2>9, <2>10, <2>11, <2>12, <2>13, <2>14,
       <2>15 DEF Next
<1> QED
  BY <1>1, <1>2

(* At every step of mem_init, the free list, the reference counts and the  *)
(* page tables are what the calls made so far leave.                       *)
THEOREM MemInvHolds == Spec => []MemInv
<1>1. Init => MemInv
  BY InitInv
<1>2. MemInv /\ [Next]_vars => MemInv'
  BY NextStep
<1> QED
  BY <1>1, <1>2, PTL DEF Spec

(* page_init and the relinking of check_page_free_list leave a proper list *)
(* of the free pages, ended by NULL, and so do the checks behind them.     *)
THEOREM ListRelinked == Spec => []FreeListRelinked
<1>1. MemInv => FreeListRelinked
  BY DEF MemInv, FreeListRelinked, ListBuilt, Checking, PCs, Steady, MappingAt, Mapping
<1> QED
  BY <1>1, MemInvHolds, PTL

LEMMA CountedPages ==
  ASSUME Counted(mm), NEW p \in Page
  PROVE  /\ IsFree(mm, p) => ~InUse(p)
         /\ IsFree(mm, p) <=> mm.pp_ref[p] = 0
         /\ mm.pp_ref[p] = 1 <=> InUse(p) \/ IsTable(mm, p)
BY DEF Counted

(* No page page_init skips is ever on the free list.                       *)
LEMMA FreeUnused ==
  ASSUME MemInv, NEW p \in Page, IsFree(mm, p)
  PROVE  nextfree = FirstFree /\ ~InUse(p)
<1>1. pc \notin {"kern_pgdir", "pages"}
  BY DEF MemInv, IsFree
<1>2. /\ machine \in Layouts /\ nextfree = FirstFree
  BY <1>1 DEF MemInv
<1>3. CASE pc = "page_init"
  <2>1. at \in Nat /\ Ascending(mm, Listed(at))
    BY <1>2, <1>3, MachineFacts DEF MemInv, Building
  <2>2. PICK i \in 1 .. Listed(at) : p = FreePage(i)
    BY <2>1 DEF IsFree, Ascending
  <2> QED
    BY <1>2, <2>1, <2>2, ListedFacts
<1>4. CASE pc = "check_page_calls"
  <2>1. ThreePages /\ Before(mm, at)
    BY <1>4 DEF MemInv
  <2>2. p \in Taken
    BY <2>1 DEF Before, CheckState
  <2> QED
    BY <1>2, <2>1, <2>2 DEF ThreePages
<1>5. CASE pc \notin {"page_init", "check_page_calls"}
  <2>1. Counted(mm)
    BY <1>1, <1>5 DEF MemInv, PCs, Reordering, Steady, MappingAt, Mapping
  <2> QED
    BY <1>2, <2>1, CountedPages
<1> QED
  BY <1>3, <1>4, <1>5

(* Page 0, the hole, the kernel, its page directory and pages[] are never  *)
(* free; a page is free or counted once, for what boot uses it for.        *)
THEOREM AllAccounted == Spec => []PagesAccounted
<1>1. ASSUME MemInv PROVE PagesAccounted
  <2>1. ASSUME NEW p \in Page, IsFree(mm, p)
        PROVE  /\ p # 0 /\ ~(machine.io <= p /\ p < machine.ext)
               /\ (p >= machine.ext => p >= nextfree)
    <3>1. nextfree = FirstFree /\ ~InUse(p) /\ machine \in Layouts
      BY <1>1, <2>1, FreeUnused DEF MemInv
    <3>2. /\ machine.io \in Nat /\ machine.ext \in Nat /\ FirstFree \in Nat
          /\ machine.io < machine.ext /\ machine.ext < FirstFree /\ p \in Nat
      <4>1. npages \in Nat /\ machine.end \in Nat /\ KSTK \in Nat
            /\ machine.ext + KSTK <= machine.end
        BY <3>1, MachineFacts
      <4> QED
        BY <3>1, <4>1, MachineFacts DEF Page
    <3> QED
      BY <3>1, <3>2 DEF InUse
  <2>2. ASSUME ListBuilt, ~Checking, NEW p \in Page
        PROVE  /\ IsFree(mm, p) <=> mm.pp_ref[p] = 0
               /\ mm.pp_ref[p] = 1 <=> InUse(p) \/ IsTable(mm, p)
    <3>1. Counted(mm)
      BY <1>1, <2>2 DEF MemInv, PCs, ListBuilt, Checking, Steady, MappingAt, Mapping
    <3> QED
      BY <3>1, CountedPages
  <2> QED
    BY <2>1, <2>2 DEF PagesAccounted
<1> QED
  BY <1>1, MemInvHolds, PTL

(* Until kern_pgdir is loaded, boot writes only to pages that entry_pgdir  *)
(* maps: boot_alloc's memory, and the tables and pages taken from the list *)
(* check_page_free_list put in order.                                      *)
THEOREM OnlyMappedWritten == Spec => []WritesOnlyMapped
<1>1. MemInv => WritesOnlyMapped
  BY DEF MemInv
<1> QED
  BY <1>1, MemInvHolds, PTL

(* Every assert of check_page_free_list, check_page_alloc and check_page   *)
(* holds, and no table is missing to boot_map_region, on every machine     *)
(* whose kernel does not end on a page boundary: there memset clears       *)
(* kern_pgdir itself.                                                      *)
THEOREM ChecksPass ==
  ASSUME \A m \in Layouts : m.vars # m.end
  PROVE  Spec => []SelfChecksPass
<1>1. MemInv => SelfChecksPass
  BY DEF MemInv, SelfChecksPass
<1> QED
  BY <1>1, MemInvHolds, PTL

(* When kern_pgdir is complete, pages[] is mapped at UPAGES, the stack     *)
(* below KSTACKTOP with an unmapped guard under it, and every page of      *)
(* memory at KERNBASE.                                                     *)
THEOREM MapsMemory == Spec => []KernelMapsMemory
<1>1. ASSUME MemInv, pc = "check_kern_pgdir" PROVE KernelMapsMemory
  <2>1. machine \in Layouts /\ pages = machine.end + 1 /\ Tables(mm, 4, 0)
    BY <1>1, MappingParts DEF MemInv
  <2>2. /\ NPT \in Nat /\ KSTK \in Nat /\ PagesSize \in Nat /\ npages \in Nat /\ KernTables \in Nat
        /\ machine.ext \in Nat /\ machine.end \in Nat /\ pages \in Nat
        /\ machine.ext + KSTK <= machine.end /\ pages + PagesSize <= NPT
        /\ pages + PagesSize < npages /\ npages <= KernTables * NPT /\ KSTK <= NPT
        /\ KernTables * NPT \in Nat /\ KSTACK \in Nat /\ PTX = 0 .. NPT - 1
        /\ machine.ext + KSTK < npages
    <3>1. NPT \in Nat /\ KSTK \in 1 .. NPT /\ npages <= KernTables * NPT /\ KSTACK \in Nat
      BY KernFacts, BootAssumption
    <3>2. /\ PagesSize \in Nat /\ npages \in Nat /\ KernTables \in Nat
          /\ machine.ext \in Nat /\ machine.end \in Nat /\ machine.ext + KSTK <= machine.end
          /\ FirstFree <= NPT /\ FirstFree + 1 < npages /\ FirstFree = machine.end + 1 + PagesSize
      BY <2>1, MachineFacts DEF FirstFree
    <3>3. KernTables * NPT \in Nat /\ PTX = 0 .. NPT - 1
      BY <3>1, <3>2, KernFacts
    <3>4. /\ pages \in Nat /\ pages + PagesSize <= NPT /\ pages + PagesSize < npages
          /\ KSTK \in Nat /\ KSTK <= NPT
      BY <2>1, <3>1, <3>2
    <3>5. machine.ext + KSTK < npages
      BY <3>2, <3>4
    <3> QED
      BY <3>1, <3>2, <3>3, <3>4, <3>5
  <2>3. \A k \in 0 .. PagesSize - 1 : Mapped(UPAGES, k) = pages + k
    BY <1>1, PagesMapped
  <2>4. ASSUME NEW k \in 0 .. KernTables * NPT - 1 PROVE Mapped(KERNBASE, k) = PhysPage(k)
    <3>1. k \in 0 .. Size(3) - 1 /\ k \in Nat
      BY <2>2 DEF Size
    <3>2. Regions[3].va + k = KERNBASE * NPT + k /\ Regions[3].pa + k = k
      BY <3>1, RegionFields
    <3>3. PICK v : v = VirtPage(KERNBASE * NPT + k)
      OBVIOUS
    <3>4. IsMapped(mm, Kern, v) /\ Pte(mm, Kern, v).addr = PhysPage(k)
      BY <1>1, <3>1, <3>2, <3>3, FindsMapping
    <3> QED
      BY <3>3, <3>4 DEF Mapped
  <2>5. ASSUME NEW k \in 0 .. NPT - KSTK - 1 PROVE Mapped(KSTACK, k) = NULL
    <3>1. k \in PTX /\ ~(k >= NPT - KSTK)
      BY <2>2
    <3>2. VirtPage(KSTACK * NPT + k) = <<KSTACK, k>>
      BY <2>2, <3>1, PageIndex
    <3>3. KSTACK \in PDX \ {UVPT} /\ KSTACK # UPAGES /\ KSTACK \notin KernIndex
      BY KernFacts
    <3>4. ~Done(4, 0, KSTACK, k)
      BY <3>1, <3>3 DEF Done
    <3>5. mm.pgdir[Kern][KSTACK] # NULL => mm.mem[mm.pgdir[Kern][KSTACK]][k] = ZeroPte
      BY <2>1, <3>1, <3>3, <3>4 DEF Tables
    <3>6. PICK v : v = VirtPage(KSTACK * NPT + k)
      OBVIOUS
    <3>7. ~IsMapped(mm, Kern, v)
      <4>1. v[1] = KSTACK /\ v[2] = k
        BY <3>2, <3>6
      <4>2. "P" \notin ZeroPte.perm
        BY DEF ZeroPte
      <4>3. PICK b, f : b = mm.pgdir[Kern][KSTACK] /\ f = mm.mem[b][k]
        OBVIOUS
      <4>4. b # NULL => f = ZeroPte
        BY <3>5, <4>3
      <4>5. IsMapped(mm, Kern, v) <=> b # NULL /\ "P" \in f.perm
        BY <4>1, <4>3 DEF IsMapped, HasTable, Pte, Present
      <4> QED
        BY <4>2, <4>4, <4>5
    <3> QED
      BY <3>6, <3>7 DEF Mapped
  <2>6. ASSUME NEW k \in 0 .. KSTK - 1 PROVE Mapped(KSTACK, NPT - KSTK + k) = machine.ext + k
    <3>1. k \in 0 .. Size(2) - 1
      BY DEF Size
    <3>2. Regions[2].va + k = KSTACK * NPT + (NPT - KSTK + k)
      <4>1. (KSTACK + 1) * NPT = KSTACK * NPT + NPT /\ KSTACK * NPT \in Nat
        BY <2>2
      <4> QED
        BY <2>2, <4>1, RegionFields
    <3>3. Regions[2].pa + k = machine.ext + k
      BY RegionFields
    <3>4. PICK v : v = VirtPage(KSTACK * NPT + (NPT - KSTK + k))
      OBVIOUS
    <3>5. IsMapped(mm, Kern, v) /\ Pte(mm, Kern, v).addr = PhysPage(machine.ext + k)
      BY <1>1, <3>1, <3>2, <3>3, <3>4, FindsMapping
    <3>6. PhysPage(machine.ext + k) = machine.ext + k
      BY <2>2 DEF PhysPage
    <3> QED
      BY <3>4, <3>5, <3>6 DEF Mapped
  <2>7. ASSUME NEW x \in PDX
        PROVE  mm.pgdir[Kern][x] # NULL <=> x \in {UVPT, UPAGES, KSTACK} \cup KernIndex
    <3>1. mm.pgdir[Kern][x] # NULL <=> x = UVPT \/ \E y \in PTX : Done(4, 0, x, y)
      BY <1>1 DEF MemInv, Mapping
    <3>2. NPT - 1 \in PTX /\ NPT - 1 >= NPT - KSTK
      <4>1. NPT \in Nat /\ KSTK \in 1 .. NPT
        BY BootAssumption
      <4> QED
        BY <2>2, <4>1
    <3>3. (\E y \in PTX : Done(4, 0, x, y)) <=> x \in {UPAGES, KSTACK} \cup KernIndex
      BY <3>2 DEF Done
    <3> QED
      BY <3>1, <3>3
  <2> QED
    BY <2>3, <2>4, <2>5, <2>6, <2>7 DEF KernelMapsMemory, KernIndex
<1>2. MemInv => KernelMapsMemory
  BY <1>1 DEF KernelMapsMemory
<1> QED
  BY <1>2, MemInvHolds, PTL

-----------------------------------------------------------------------------
(* The boot loader: the invariant                                          *)

(* What bootmain reads: the headers, and then each segment.                *)
Headers   == [p_pa |-> ELFHDR, p_offset |-> 0,
              filesz |-> HDRSECTS * SECTSIZE, memsz |-> HDRSECTS * SECTSIZE]
Target(i) == IF i = 0 THEN Headers ELSE kernel.ph[i]

(* What of the file belongs at an address.                                 *)
Linked(p, a) == p.p_offset + (a - p.p_pa)

EndOf(p)   == p.p_pa + p.memsz
Holds(p)   == p.memsz > 0
InPlace(m, p) == \A a \in p.p_pa .. EndOf(p) - 1 : m[a] = Linked(p, a)

InBootSector == eip \in {"seta20.1", "seta20.2", "lgdt"}
InBootmain   == eip \in {"command", "data"}
InEntry      == eip \in {"entry", "paging", "relocated"}

LoaderTyping ==
  /\ kernel \in Kernels /\ ph \in 0 .. Len(kernel.ph)
  /\ mem = [a \in Address |-> mem[a]]
  /\ eip \in {"seta20.1", "seta20.2", "lgdt", "command", "data", "bad",
              "entry", "paging", "relocated", "kernel"}
  /\ a20 \in {0, 1} /\ kbc \in [full : {0, 1}, port : Nat, byte : Nat, awaits : {0, 1}]
  /\ seg \in [pa : Nat, end_pa : Nat, offset : Nat]
  /\ disk \in [busy : {0, 1}, lba : Nat, buffer : Nat]

(* The 8042 is told to open line 20, and does so before the disk has the   *)
(* first sector.                                                           *)
Open == kbc.full = 0 /\ a20 = 1
Line20 ==
  /\ eip = "seta20.1" /\ kbc.full = 1 => kbc.port = 100 /\ kbc.byte = 0
  /\ eip = "seta20.2" => IF kbc.full = 1 THEN kbc.port = 100 /\ kbc.byte = 209
                         ELSE kbc.awaits = 1
  /\ eip \notin {"seta20.1", "seta20.2"} =>
       IF kbc.full = 1 THEN kbc.port = 96 /\ kbc.byte = 223 /\ kbc.awaits = 1 ELSE a20 = 1
  /\ InBootSector => ph = 0 /\ seg = readseg(ELFHDR, HDRSECTS * SECTSIZE, 0)
  /\ InBootmain /\ (ph > 0 \/ seg.pa # ELFHDR) => Open
  /\ InEntry \/ eip = "kernel" => Open

(* The disk has, or will have, the sector that was asked for.              *)
Asked ==
  eip = "data" => /\ disk.lba = seg.offset /\ seg.pa < seg.end_pa
                  /\ disk.busy = 0 => disk.buffer = seg.offset /\ Open

(* The sectors of p below g.pa are read, the next one is that of g.offset. *)
Progress(m, g, p) ==
  /\ g.end_pa = EndOf(p) /\ g.offset > 0
  /\ g.pa % SECTSIZE = 0 /\ g.pa >= RoundDown(p.p_pa) /\ g.pa < g.end_pa + SECTSIZE
  /\ Holds(p) => (g.offset - 1) * SECTSIZE = Linked(p, g.pa)
  /\ \A a \in Address : RoundDown(p.p_pa) <= a /\ a < g.pa => m[a] = Linked(p, a)
Reading == InBootSector \/ InBootmain => Progress(mem, seg, Target(ph))

(* The headers and the segments that were read are in their places.        *)
Read ==
  /\ InBootSector \/ InBootmain => \A i \in 0 .. ph - 1 : InPlace(mem, Target(i))
  /\ InEntry => \A i \in 0 .. Len(kernel.ph) : InPlace(mem, Target(i))

InHeaders(a)  == a \in ELFHDR .. ELFHDR + HDRSECTS * SECTSIZE - 1
InSegments(a) == a \in UNION {Reach(s) : s \in Segments}
NoneElse ==
  \A a \in Address : \/ mem[a] = Untouched \/ InHeaders(a) \/ InSegments(a)
                     \/ eip = "kernel" /\ a \in Bss

(* Nothing but a kernel is entered, with paging, and its bss is cleared.   *)
OnItsWay ==
  /\ ph > 0 \/ InEntry \/ eip = "kernel" => kernel.magic
  /\ eip = "bad" => ~kernel.magic
  /\ eip \in {"paging", "relocated"} => "PG" \in cr0
  /\ eip = "kernel" =>
       /\ \A a \in Bss : mem[a] = Zero
       /\ \A s \in Segments : \A a \in InFile(s) \ Bss : mem[a] = s.p_offset + (a - s.p_pa)

LoaderInv == LoaderTyping /\ Line20 /\ Asked /\ Reading /\ Read /\ NoneElse /\ OnItsWay

-----------------------------------------------------------------------------
(* Sectors                                                                 *)

LEMMA SectorSize == SECTSIZE \in Nat /\ SECTSIZE > 0
BY BootLoaderAssumption

LEMMA InMemory ==
  /\ Top \in Nat
  /\ \A a : a \in Address <=> a \in Nat /\ a <= Top
BY BootLoaderAssumption DEF Address

LEMMA Rounded ==
  ASSUME NEW p \in Nat
  PROVE  /\ RoundDown(p) \in Nat /\ RoundDown(p) <= p /\ p < RoundDown(p) + SECTSIZE
         /\ RoundDown(p) % SECTSIZE = 0 /\ (p \div SECTSIZE) * SECTSIZE = RoundDown(p)
<1>1. SECTSIZE \in Nat \ {0}
  BY BootLoaderAssumption
<1>2. p % SECTSIZE \in 0 .. SECTSIZE - 1 /\ p - (p % SECTSIZE) \in Nat
  BY <1>1
<1>3. (p \div SECTSIZE) * SECTSIZE = p - (p % SECTSIZE)
  BY <1>1
<1>4. p \div SECTSIZE \in Nat
  BY <1>1
<1>5. ((p \div SECTSIZE) * SECTSIZE) % SECTSIZE = 0
  BY <1>1, <1>4
<1> QED
  BY <1>1, <1>2, <1>3, <1>5 DEF RoundDown

LEMMA NextSector ==
  ASSUME NEW x \in Nat, x % SECTSIZE = 0
  PROVE  /\ (x + SECTSIZE) % SECTSIZE = 0
         /\ \A a \in x .. x + SECTSIZE - 1 : a - (a % SECTSIZE) = x
<1>1. SECTSIZE \in Nat \ {0}
  BY BootLoaderAssumption
<1>2. PICK k \in Nat : x = k * SECTSIZE
  BY <1>1
<1>3. (x + SECTSIZE) % SECTSIZE = 0
  BY <1>1, <1>2
<1>4. ASSUME NEW a \in x .. x + SECTSIZE - 1 PROVE a - (a % SECTSIZE) = x
  <2>1. PICK y \in 0 .. SECTSIZE - 1 : a = k * SECTSIZE + y
    BY <1>1, <1>2
  <2>2. (k * SECTSIZE + y) % SECTSIZE = y
    BY <1>1, <1>2
  <2> QED
    BY <1>1, <1>2, <2>1, <2>2
<1> QED
  BY <1>3, <1>4

-----------------------------------------------------------------------------
(* Kernels                                                                 *)

LEMMA HeaderSize ==
  /\ HDRSECTS * SECTSIZE \in Nat /\ HDRSECTS * SECTSIZE >= SECTSIZE
  /\ HDRSECTS * SECTSIZE > 0 /\ SECTSIZE \in Nat /\ SECTSIZE > 0
<1>1. SECTSIZE \in Nat \ {0} /\ HDRSECTS \in Nat \ {0}
  BY BootLoaderAssumption
<1> QED
  BY <1>1

LEMMA KernelTyped ==
  ASSUME kernel \in Kernels
  PROVE  /\ kernel \in Elf /\ WellLinked(kernel)
         /\ Len(kernel.ph) \in Nat
         /\ \A i \in 1 .. Len(kernel.ph) : kernel.ph[i] \in Proghdr
<1>1. kernel \in Elf /\ WellLinked(kernel)
  BY BootLoaderAssumption
<1>2. kernel.ph \in Seq(Proghdr)
  BY <1>1 DEF Elf
<1> QED
  BY <1>1, <1>2, LenProperties, ElementOfSeq

(* The headers and the segments alike: where each is, and that reading one *)
(* leaves those before it in place.                                        *)
Begins(p) == /\ p.p_pa % SECTSIZE = p.p_offset % SECTSIZE
             /\ EndOf(p) + SECTSIZE <= Top
SameFile(p, q) == p.p_pa - p.p_offset = q.p_pa - q.p_offset

LEMMA SegmentLinked ==
  ASSUME kernel \in Kernels, NEW i \in 1 .. Len(kernel.ph)
  PROVE  /\ kernel.ph[i].filesz <= kernel.ph[i].memsz
         /\ ~Holds(kernel.ph[i]) => kernel.ph[i].p_pa = 0
         /\ Holds(kernel.ph[i]) =>
              /\ Begins(kernel.ph[i]) /\ EndOf(kernel.ph[i]) <= EntryLimit
              /\ RoundDown(kernel.ph[i].p_pa) >= EndOf(Headers)
<1> DEFINE p == kernel.ph[i]
<1>1. p \in Proghdr /\ WellLinked(kernel)
  BY KernelTyped
<1>2. p.p_pa \in Nat /\ p.memsz \in Nat
  BY <1>1 DEF Proghdr
<1>3. (p.p_pa \div SECTSIZE) * SECTSIZE = RoundDown(p.p_pa)
  BY <1>2, Rounded
<1>4. p.filesz <= p.memsz /\ (p.memsz = 0 => p.p_pa = 0)
  BY <1>1 DEF WellLinked
<1>5. ASSUME p.memsz > 0
      PROVE  /\ p.p_pa % SECTSIZE = p.p_offset % SECTSIZE
             /\ (p.p_pa \div SECTSIZE) * SECTSIZE >= ELFHDR + HDRSECTS * SECTSIZE
             /\ p.p_pa + p.memsz + SECTSIZE <= Top /\ p.p_pa + p.memsz <= EntryLimit
  BY <1>1, <1>5 DEF WellLinked
<1>6. EndOf(Headers) = ELFHDR + HDRSECTS * SECTSIZE
  BY DEF EndOf, Headers
<1> QED
  BY <1>2, <1>3, <1>4, <1>5, <1>6 DEF Holds, Begins, EndOf

LEMMA SegmentsApart ==
  ASSUME kernel \in Kernels, NEW i \in 1 .. Len(kernel.ph), NEW j \in 1 .. Len(kernel.ph),
         i < j, Holds(kernel.ph[i]), Holds(kernel.ph[j])
  PROVE  \/ EndOf(kernel.ph[i]) <= RoundDown(kernel.ph[j].p_pa)
         \/ SameFile(kernel.ph[i], kernel.ph[j])
<1>1. kernel.ph[j] \in Proghdr /\ WellLinked(kernel)
  BY KernelTyped
<1>2. (kernel.ph[j].p_pa \div SECTSIZE) * SECTSIZE = RoundDown(kernel.ph[j].p_pa)
  BY <1>1, Rounded DEF Proghdr
<1>3. \/ kernel.ph[i].p_pa + kernel.ph[i].memsz <= (kernel.ph[j].p_pa \div SECTSIZE) * SECTSIZE
      \/ kernel.ph[i].p_pa - kernel.ph[i].p_offset = kernel.ph[j].p_pa - kernel.ph[j].p_offset
  BY <1>1 DEF WellLinked, Holds
<1> QED
  BY <1>2, <1>3 DEF EndOf, SameFile

LEMMA EntryInSegment ==
  ASSUME kernel \in Kernels, NEW a \in {kernel.entry, kernel.entry_pgdir}
  PROVE  /\ a \in Nat
         /\ \E i \in 1 .. Len(kernel.ph) :
              /\ Holds(kernel.ph[i])
              /\ a \in kernel.ph[i].p_pa .. kernel.ph[i].p_pa + kernel.ph[i].filesz - 1
<1>1. kernel \in Elf /\ WellLinked(kernel)
  BY KernelTyped
<1>2. a \in Nat
  BY <1>1 DEF Elf
<1> QED
  BY <1>1, <1>2 DEF WellLinked, Holds

LEMMA TargetTyped ==
  ASSUME kernel \in Kernels, NEW i \in 0 .. Len(kernel.ph)
  PROVE  /\ Target(i).p_pa \in Nat /\ Target(i).p_offset \in Nat /\ Target(i).memsz \in Nat
         /\ EndOf(Target(i)) \in Nat
<1>1. Len(kernel.ph) \in Nat
  BY KernelTyped
<1>2. Target(i) \in Proghdr
  <2>1. CASE i = 0
    BY <2>1, HeaderSize, BootLoaderAssumption DEF Target, Headers, Proghdr
  <2>2. CASE i # 0
    <3>1. i \in 1 .. Len(kernel.ph)
      BY <1>1, <2>2
    <3> QED
      BY <2>2, <3>1, KernelTyped DEF Target
  <2> QED
    BY <2>1, <2>2
<1> QED
  BY <1>2 DEF Proghdr, EndOf

LEMMA TargetLinked ==
  ASSUME kernel \in Kernels, NEW i \in 0 .. Len(kernel.ph)
  PROVE  /\ ~Holds(Target(i)) => Target(i).p_pa = 0
         /\ Holds(Target(i)) => Begins(Target(i))
<1>1. Len(kernel.ph) \in Nat
  BY KernelTyped
<1>2. CASE i # 0
  <2>1. i \in 1 .. Len(kernel.ph) /\ Target(i) = kernel.ph[i]
    BY <1>1, <1>2 DEF Target
  <2> QED
    BY <2>1, SegmentLinked
<1>3. CASE i = 0
  <2>1. Target(i) = Headers
    BY <1>3 DEF Target
  <2>2. PICK s \in 1 .. Len(kernel.ph) : Holds(kernel.ph[s])
    BY EntryInSegment
  <2>3. /\ EndOf(Headers) <= RoundDown(kernel.ph[s].p_pa)
        /\ EndOf(kernel.ph[s]) + SECTSIZE <= Top
    BY <2>2, SegmentLinked DEF Begins
  <2>4. kernel.ph[s].p_pa \in Nat /\ kernel.ph[s].memsz \in Nat
    BY <2>2, KernelTyped DEF Proghdr
  <2>5. RoundDown(kernel.ph[s].p_pa) \in Nat /\ RoundDown(kernel.ph[s].p_pa) <= kernel.ph[s].p_pa
    BY <2>4, Rounded
  <2>6. EndOf(Headers) \in Nat /\ Top \in Nat
    BY HeaderSize, BootLoaderAssumption DEF EndOf, Headers
  <2>7. EndOf(Headers) + SECTSIZE <= Top
    BY SMTT(30), <2>3, <2>4, <2>5, <2>6, HeaderSize DEF EndOf
  <2>8. ELFHDR % SECTSIZE = 0 % SECTSIZE
    BY HeaderSize, BootLoaderAssumption
  <2> QED
    BY <2>1, <2>7, <2>8, HeaderSize DEF Holds, Begins, Headers
<1> QED
  BY <1>2, <1>3

LEMMA TargetsApart ==
  ASSUME kernel \in Kernels, NEW i \in 0 .. Len(kernel.ph), NEW j \in 0 .. Len(kernel.ph),
         i < j, Holds(Target(i)), Holds(Target(j))
  PROVE  EndOf(Target(i)) <= RoundDown(Target(j).p_pa) \/ SameFile(Target(i), Target(j))
<1>1. Len(kernel.ph) \in Nat
  BY KernelTyped
<1>2. j \in 1 .. Len(kernel.ph) /\ Target(j) = kernel.ph[j]
  BY <1>1 DEF Target
<1>3. CASE i = 0
  BY <1>2, <1>3, SegmentLinked DEF Target
<1>4. CASE i # 0
  <2>1. i \in 1 .. Len(kernel.ph) /\ Target(i) = kernel.ph[i]
    BY <1>1, <1>4 DEF Target
  <2> QED
    BY <1>2, <2>1, SegmentsApart
<1> QED
  BY <1>3, <1>4

-----------------------------------------------------------------------------
(* Reading                                                                 *)

LEMMA Starts ==
  ASSUME NEW p, p.p_pa \in Nat, p.p_offset \in Nat, p.memsz \in Nat,
         ~Holds(p) => p.p_pa = 0, Holds(p) => Begins(p),
         NEW m, NEW g, g = readseg(p.p_pa, p.memsz, p.p_offset)
  PROVE  Progress(m, g, p) /\ g \in [pa : Nat, end_pa : Nat, offset : Nat]
<1>1. /\ RoundDown(p.p_pa) \in Nat /\ RoundDown(p.p_pa) <= p.p_pa
      /\ RoundDown(p.p_pa) % SECTSIZE = 0
      /\ (p.p_offset \div SECTSIZE) * SECTSIZE = RoundDown(p.p_offset)
  BY Rounded
<1>2. p.p_offset \div SECTSIZE \in Nat
  BY SectorSize
<1>3. /\ g.pa = RoundDown(p.p_pa) /\ g.end_pa = EndOf(p)
      /\ g.offset = p.p_offset \div SECTSIZE + 1
  BY DEF readseg, EndOf
<1>4. g \in [pa : Nat, end_pa : Nat, offset : Nat]
  BY <1>1, <1>2 DEF readseg
<1>5. g.offset > 0 /\ g.offset - 1 = p.p_offset \div SECTSIZE
  BY <1>2, <1>3
<1>6. EndOf(p) \in Nat /\ p.p_pa <= EndOf(p)
  BY DEF EndOf
<1>7. g.pa >= RoundDown(p.p_pa) /\ g.pa < g.end_pa + SECTSIZE
  BY <1>1, <1>3, <1>6, SectorSize
<1>8. ASSUME Holds(p) PROVE (g.offset - 1) * SECTSIZE = Linked(p, g.pa)
  <2>1. p.p_pa % SECTSIZE = p.p_offset % SECTSIZE
    BY <1>8 DEF Begins
  <2>2. p.p_pa % SECTSIZE \in Nat
    BY SectorSize
  <2>3. (g.offset - 1) * SECTSIZE = p.p_offset - (p.p_offset % SECTSIZE)
    BY <1>1, <1>5 DEF RoundDown
  <2>4. g.pa = p.p_pa - (p.p_pa % SECTSIZE)
    BY <1>3 DEF RoundDown
  <2>5. Linked(p, g.pa) = p.p_offset - (p.p_pa % SECTSIZE)
    BY <2>2, <2>4 DEF Linked
  <2> QED
    BY <2>1, <2>3, <2>5
<1>9. \A a \in Address : ~(RoundDown(p.p_pa) <= a /\ a < g.pa)
  BY <1>1, <1>3, InMemory
<1> QED
  BY <1>1, <1>3, <1>4, <1>5, <1>7, <1>8, <1>9 DEF Progress

(* One more sector, with line 20 open.                                     *)
Sector(x) == x .. x + SECTSIZE - 1
WithSector(m, g) ==
  [a \in Address |-> IF a \in Sector(g.pa) THEN (g.offset - 1) * SECTSIZE + (a - g.pa) ELSE m[a]]
NextOffset(g) == [g EXCEPT !.pa = @ + SECTSIZE, !.offset = @ + 1]
Gains(p, x, m, m2) ==
  \A a \in Address : IF a \in Sector(x) THEN m2[a] = Linked(p, a) ELSE m2[a] = m[a]

LEMMA SectorRead ==
  ASSUME NEW p, p.p_pa \in Nat, p.p_offset \in Nat, p.memsz \in Nat,
         ~Holds(p) => p.p_pa = 0, Holds(p) => Begins(p),
         NEW m, NEW g \in [pa : Nat, end_pa : Nat, offset : Nat],
         Progress(m, g, p), g.pa < g.end_pa,
         NEW m2, m2 = WithSector(m, g), NEW g2, g2 = NextOffset(g)
  PROVE  /\ Progress(m2, g2, p) /\ g2 \in [pa : Nat, end_pa : Nat, offset : Nat]
         /\ Holds(p) /\ g.pa >= RoundDown(p.p_pa) /\ Gains(p, g.pa, m, m2)
<1>1. /\ RoundDown(p.p_pa) \in Nat /\ RoundDown(p.p_pa) <= p.p_pa
      /\ RoundDown(p.p_pa) % SECTSIZE = 0
  BY Rounded
<1>2. /\ g.pa \in Nat /\ g.end_pa \in Nat /\ g.offset \in Nat /\ g.offset > 0
      /\ g.end_pa = EndOf(p) /\ g.pa % SECTSIZE = 0 /\ g.pa >= RoundDown(p.p_pa)
      /\ \A a \in Address : RoundDown(p.p_pa) <= a /\ a < g.pa => m[a] = Linked(p, a)
  BY DEF Progress
<1>3. Holds(p)
  BY <1>2 DEF Holds, EndOf
<1>4. (g.offset - 1) * SECTSIZE = Linked(p, g.pa) /\ Linked(p, g.pa) \in Int
  BY <1>2, <1>3 DEF Progress, Linked
<1>5. /\ g2 \in [pa : Nat, end_pa : Nat, offset : Nat]
      /\ g2.pa = g.pa + SECTSIZE /\ g2.offset = g.offset + 1 /\ g2.end_pa = g.end_pa
  <2>1. g.pa + SECTSIZE \in Nat /\ g.offset + 1 \in Nat
    BY <1>2, SectorSize
  <2>2. g2 = [pa |-> g.pa + SECTSIZE, end_pa |-> g.end_pa, offset |-> g.offset + 1]
    BY DEF NextOffset
  <2> QED
    BY <1>2, <2>1, <2>2
<1>6. (g2.offset - 1) * SECTSIZE = Linked(p, g2.pa)
  <2>1. g2.offset - 1 = (g.offset - 1) + 1
    BY <1>2, <1>5
  <2>2. ((g.offset - 1) + 1) * SECTSIZE = (g.offset - 1) * SECTSIZE + SECTSIZE
    BY <1>2, SectorSize
  <2>3. Linked(p, g2.pa) = Linked(p, g.pa) + SECTSIZE
    <3>1. PICK x, y, z : x = g.pa /\ y = p.p_pa /\ z = p.p_offset
      OBVIOUS
    <3>2. x \in Int /\ y \in Int /\ z \in Int /\ g2.pa = x + SECTSIZE
      BY <1>2, <1>5, <3>1
    <3>3. z + ((x + SECTSIZE) - y) = (z + (x - y)) + SECTSIZE
      BY <3>2, SectorSize
    <3> QED
      BY <3>1, <3>2, <3>3 DEF Linked
  <2> QED
    BY <1>4, <2>1, <2>2, <2>3
<1>7. ASSUME NEW a \in Address
      PROVE  IF a \in Sector(g.pa) THEN m2[a] = Linked(p, a) ELSE m2[a] = m[a]
  <2>1. a \in Int
    BY InMemory
  <2>2. ASSUME a \in Sector(g.pa) PROVE m2[a] = Linked(p, a)
    <3>1. m2[a] = (g.offset - 1) * SECTSIZE + (a - g.pa)
      BY <2>2 DEF WithSector
    <3> QED
      BY <1>2, <1>4, <2>1, <3>1 DEF Linked
  <2> QED
    BY <2>2 DEF WithSector
<1>8. ASSUME NEW a \in Address, RoundDown(p.p_pa) <= a, a < g2.pa
      PROVE  m2[a] = Linked(p, a)
  <2>1. a \in Nat
    BY InMemory
  <2>3. a < g.pa \/ a \in Sector(g.pa)
    BY <1>2, <1>5, <1>8, <2>1, SectorSize DEF Sector
  <2>2. a < g.pa => m[a] = Linked(p, a)
    BY <1>2, <1>8
  <2> QED
    BY <1>7, <2>2, <2>3
<1>9. g2.pa % SECTSIZE = 0
  BY <1>2, <1>5, NextSector
<1>10. /\ g2.pa >= RoundDown(p.p_pa) /\ g2.pa < g2.end_pa + SECTSIZE
       /\ g2.end_pa = EndOf(p) /\ g2.offset > 0
  BY <1>1, <1>2, <1>5, SectorSize
<1>11. Progress(m2, g2, p)
  BY <1>6, <1>8, <1>9, <1>10 DEF Progress
<1> QED
  BY <1>2, <1>3, <1>5, <1>7, <1>11 DEF Gains

(* A target that is read to its end is in place.                           *)
LEMMA Complete ==
  ASSUME NEW p, p.p_pa \in Nat, p.p_offset \in Nat, p.memsz \in Nat,
         Holds(p) => Begins(p),
         NEW m, NEW g \in [pa : Nat, end_pa : Nat, offset : Nat],
         Progress(m, g, p), g.pa >= g.end_pa
  PROVE  InPlace(m, p)
<1>1. SUFFICES ASSUME NEW a \in p.p_pa .. EndOf(p) - 1 PROVE m[a] = Linked(p, a)
  BY DEF InPlace
<1>2. EndOf(p) \in Nat /\ a \in Nat /\ a < EndOf(p) /\ p.p_pa <= a
  BY DEF EndOf
<1>3. Holds(p)
  BY <1>2 DEF Holds, EndOf
<1>4. a \in Address
  BY <1>2, <1>3, SectorSize, InMemory DEF Begins
<1>5. RoundDown(p.p_pa) \in Nat /\ RoundDown(p.p_pa) <= p.p_pa
  BY Rounded
<1>6. g.end_pa = EndOf(p) /\ g.pa \in Nat
  BY DEF Progress
<1> QED
  BY <1>2, <1>4, <1>5, <1>6 DEF Progress

(* What was in place stays there while a later target is read.             *)
LEMMA StaysInPlace ==
  ASSUME kernel \in Kernels, NEW i \in 0 .. Len(kernel.ph), NEW j \in 0 .. Len(kernel.ph),
         i < j, Holds(Target(j)), NEW x \in Nat, x >= RoundDown(Target(j).p_pa),
         NEW m, NEW m2,
         Gains(Target(j), x, m, m2),
         InPlace(m, Target(i))
  PROVE  InPlace(m2, Target(i))
<1>1. PICK p, q : p = Target(i) /\ q = Target(j)
  OBVIOUS
<1>2. /\ p.p_pa \in Nat /\ p.p_offset \in Nat /\ p.memsz \in Nat /\ EndOf(p) \in Nat
      /\ q.p_pa \in Nat /\ q.p_offset \in Nat
  BY <1>1, TargetTyped
<1>3. (Holds(p) => Begins(p)) /\ (Holds(p) => EndOf(p) <= RoundDown(q.p_pa) \/ SameFile(p, q))
  BY <1>1, TargetLinked, TargetsApart
<1>4. InPlace(m, p) /\ x >= RoundDown(q.p_pa)
  BY <1>1
<1>5. SUFFICES ASSUME NEW a \in p.p_pa .. EndOf(p) - 1 PROVE m2[a] = Linked(p, a)
  BY <1>1 DEF InPlace
<1>6. a \in Nat /\ a < EndOf(p) /\ p.p_pa <= a
  BY <1>2
<1>7. Holds(p)
  BY <1>2, <1>6 DEF Holds, EndOf
<1>8. a \in Address
  <2>1. a <= Top
    BY <1>2, <1>3, <1>6, <1>7, SectorSize, InMemory DEF Begins
  <2> QED
    BY <1>6, <2>1, InMemory
<1>9. m[a] = Linked(p, a)
  BY <1>4 DEF InPlace
<1>10. CASE a \notin Sector(x)
  BY <1>1, <1>8, <1>9, <1>10 DEF Gains
<1>11. CASE a \in Sector(x)
  <2>1. m2[a] = Linked(q, a)
    BY <1>1, <1>8, <1>11 DEF Gains
  <2>2. RoundDown(q.p_pa) \in Nat
    BY <1>2, Rounded
  <2>3. x <= a
    BY <1>6, <1>11, SectorSize DEF Sector
  <2>4. SameFile(p, q)
    BY <1>2, <1>3, <1>4, <1>6, <1>7, <2>2, <2>3
  <2>5. Linked(p, a) = Linked(q, a)
    <3>1. PICK u, v, y, z : u = p.p_pa /\ v = p.p_offset /\ y = q.p_pa /\ z = q.p_offset
      OBVIOUS
    <3>2. u - v = y - z
      BY <2>4, <3>1 DEF SameFile
    <3>3. u \in Int /\ v \in Int /\ y \in Int /\ z \in Int
      BY <1>2, <3>1
    <3>4. v + (a - u) = z + (a - y)
      BY <1>6, <3>2, <3>3
    <3> QED
      BY <3>1, <3>4 DEF Linked
  <2> QED
    BY <2>1, <2>5
<1> QED
  BY <1>10, <1>11

-----------------------------------------------------------------------------
(* The invariant holds at first, and every step keeps it                   *)

Loading == InBootSector \/ InBootmain

LEMMA PoweredOn ==
  ASSUME PowerOn
  PROVE  LoaderInv
<1>1. kernel \in Kernels /\ eip = "seta20.1" /\ ph = 0
  BY DEF PowerOn
<1>2. /\ Len(kernel.ph) \in Nat /\ 0 \in 0 .. Len(kernel.ph)
  BY <1>1, KernelTyped
<1>3. Target(0) = Headers
  BY DEF Target
<1>4. PICK p : p = Headers
  OBVIOUS
<1>5. /\ p.p_pa \in Nat /\ p.p_offset \in Nat /\ p.memsz \in Nat
      /\ (~Holds(p) => p.p_pa = 0) /\ (Holds(p) => Begins(p))
  BY <1>1, <1>2, <1>3, <1>4, TargetTyped, TargetLinked
<1>6. seg = readseg(p.p_pa, p.memsz, p.p_offset)
  BY <1>4 DEF PowerOn, Headers
<1>7. Progress(mem, seg, p) /\ seg \in [pa : Nat, end_pa : Nat, offset : Nat]
  BY <1>5, <1>6, Starts
<1>8. LoaderTyping
  BY <1>1, <1>2, <1>7 DEF PowerOn, LoaderTyping
<1>9. Line20
  BY <1>1 DEF PowerOn, Line20, InBootSector, InBootmain, InEntry
<1>10. Asked
  BY <1>1 DEF Asked
<1>11. Reading
  BY <1>1, <1>3, <1>4, <1>7 DEF Reading
<1>12. Read
  BY <1>1 DEF Read, InEntry
<1>13. NoneElse
  BY DEF PowerOn, NoneElse
<1>14. OnItsWay
  BY <1>1 DEF OnItsWay, InEntry
<1> QED
  BY <1>8, <1>9, <1>10, <1>11, <1>12, <1>13, <1>14 DEF LoaderInv

(* Steps of the boot sector, the 8042 and the disk move nothing in memory. *)
LEMMA Unmoved ==
  ASSUME LoaderInv, UNCHANGED <<kernel, ph, seg, mem>>, cr0 \subseteq cr0',
         eip' = eip \/ (Loading /\ Loading')
  PROVE  Reading' /\ Read' /\ NoneElse' /\ OnItsWay'
<1>1. /\ Target(ph)' = Target(ph) /\ (\A i : Target(i)' = Target(i))
      /\ (\A a : InHeaders(a)' = InHeaders(a)) /\ (\A a : InSegments(a)' = InSegments(a))
  BY DEF Target, InHeaders, InSegments, Segments, Reach
<1>2. Reading /\ Read /\ NoneElse /\ OnItsWay
  BY DEF LoaderInv
<1>3. Loading' => Loading
  BY DEF Loading, InBootSector, InBootmain
<1>4. Reading'
  BY <1>1, <1>2, <1>3 DEF Reading, Loading
<1>5. Read'
  <2>1. ASSUME Loading' PROVE \A i \in 0 .. ph - 1 : InPlace(mem', Target(i)')
    BY <1>1, <1>2, <1>3, <2>1 DEF Read, Loading
  <2>2. ASSUME InEntry' PROVE \A i \in 0 .. Len(kernel.ph) : InPlace(mem', Target(i)')
    <3>1. InEntry
      BY <2>2 DEF InEntry, Loading, InBootSector, InBootmain
    <3> QED
      BY <1>1, <1>2, <3>1 DEF Read
  <2> QED
    BY <2>1, <2>2 DEF Read, Loading
<1>6. NoneElse'
  <2>1. (eip' = "kernel") = (eip = "kernel")
    BY DEF Loading, InBootSector, InBootmain
  <2> QED
    BY <1>1, <1>2, <2>1 DEF NoneElse, Bss
<1>7. OnItsWay'
  <2>1. CASE eip' = eip
    BY <1>2, <2>1 DEF OnItsWay, InEntry, Bss, Segments, InFile
  <2>2. CASE Loading /\ Loading'
    BY <1>2, <2>2 DEF OnItsWay, InEntry, Loading, InBootSector, InBootmain
  <2> QED
    BY <2>1, <2>2
<1> QED
  BY <1>4, <1>5, <1>6, <1>7

LEMMA BootSectorStep ==
  ASSUME LoaderInv, seta20_1 \/ seta20_2 \/ protcseg
  PROVE  LoaderInv'
<1>1. LoaderTyping /\ Line20 /\ Asked
  BY DEF LoaderInv
<1>2. /\ UNCHANGED <<kernel, ph, seg, mem, a20, disk>> /\ cr0 \subseteq cr0'
      /\ InBootSector /\ eip' \in {"seta20.2", "lgdt", "command"}
  BY DEF seta20_1, seta20_2, protcseg, boot, InBootSector
<1>3. Loading /\ Loading'
  BY <1>2 DEF Loading, InBootSector, InBootmain
<1>4. Reading' /\ Read' /\ NoneElse' /\ OnItsWay'
  BY <1>2, <1>3, Unmoved
<1>5. ph = 0 /\ seg = readseg(ELFHDR, HDRSECTS * SECTSIZE, 0)
  BY <1>1, <1>2 DEF Line20
<1>6. seg.pa = ELFHDR
  <2>1. ELFHDR \in Nat /\ ELFHDR - (ELFHDR % SECTSIZE) = ELFHDR
    BY BootLoaderAssumption
  <2> QED
    BY <1>5, <2>1 DEF readseg, RoundDown
<1>7. Asked'
  BY <1>2 DEF Asked
<1>8. kbc' \in [full : {0, 1}, port : Nat, byte : Nat, awaits : {0, 1}]
  <2>1. kbc \in [full : {0, 1}, port : Nat, byte : Nat, awaits : {0, 1}]
    BY <1>1 DEF LoaderTyping
  <2>2. kbc' = kbc \/ \E byte \in {209, 223}, port \in {96, 100} : outb(byte, port)
    BY DEF seta20_1, seta20_2, protcseg
  <2>3. ASSUME NEW byte \in Nat, NEW port \in Nat, outb(byte, port)
        PROVE  kbc' \in [full : {0, 1}, port : Nat, byte : Nat, awaits : {0, 1}]
    BY <2>1, <2>3 DEF outb
  <2> QED
    BY <2>1, <2>2, <2>3
<1>9. LoaderTyping'
  BY <1>1, <1>2, <1>8 DEF LoaderTyping
<1>10. Line20'
  <2>1. CASE seta20_1
    BY <1>1, <1>2, <1>5, <2>1
       DEF seta20_1, outb, Line20, LoaderTyping, InBootSector, InBootmain, InEntry
  <2>2. CASE seta20_2
    BY <1>1, <1>2, <1>5, <2>2
       DEF seta20_2, outb, NotBusy, Line20, LoaderTyping, InBootSector, InBootmain, InEntry
  <2>3. CASE protcseg
    BY <1>1, <1>2, <1>5, <1>6, <2>3
       DEF protcseg, Line20, LoaderTyping, InBootSector, InBootmain, InEntry
  <2> QED
    BY <2>1, <2>2, <2>3
<1> QED
  BY <1>4, <1>7, <1>9, <1>10 DEF LoaderInv

(* The 8042 takes a byte: with 0xdf, line 20 opens.                        *)
LEMMA ControllerStep ==
  ASSUME LoaderInv, Controller
  PROVE  LoaderInv'
<1>1. LoaderTyping /\ Line20 /\ Asked
  BY DEF LoaderInv
<1>2. UNCHANGED <<kernel, ph, seg, mem, eip, disk>> /\ cr0 \subseteq cr0' /\ kbc.full = 1
  BY DEF Controller, boot
<1>3. Reading' /\ Read' /\ NoneElse' /\ OnItsWay'
  BY <1>2, Unmoved
<1>4. /\ kbc'.full = 0 /\ kbc' \in [full : {0, 1}, port : Nat, byte : Nat, awaits : {0, 1}]
      /\ kbc'.awaits = IF kbc.port = 100 /\ kbc.byte = 209 THEN 1 ELSE 0
      /\ a20' = IF kbc.port = 96 /\ kbc.awaits = 1 THEN (kbc.byte \div 2) % 2 ELSE a20
  BY <1>1 DEF Controller, LoaderTyping
<1>5. (223 \div 2) % 2 = 1
  OBVIOUS
<1>6. a20' \in {0, 1}
  <2>1. (kbc.byte \div 2) % 2 \in {0, 1}
    <3>1. kbc.byte \in Nat
      BY <1>1 DEF LoaderTyping
    <3> QED
      BY <3>1
  <2> QED
    BY <1>1, <1>4, <2>1 DEF LoaderTyping
<1>7. LoaderTyping'
  BY <1>1, <1>2, <1>4, <1>6 DEF LoaderTyping
<1>8. ~Open
  BY <1>2 DEF Open
<1>9. Line20'
  <2>1. eip \notin {"seta20.1", "seta20.2"} => a20' = 1
    BY <1>1, <1>2, <1>4, <1>5 DEF Line20
  <2>2. eip = "seta20.2" => kbc'.awaits = 1
    BY <1>1, <1>2, <1>4 DEF Line20
  <2> QED
    BY <1>1, <1>2, <1>4, <1>8, <2>1, <2>2 DEF Line20, InBootSector, InBootmain, InEntry
<1>10. Asked'
  BY <1>1, <1>2, <1>8 DEF Asked
<1> QED
  BY <1>3, <1>7, <1>9, <1>10 DEF LoaderInv

LEMMA DiskStep ==
  ASSUME LoaderInv, Command \/ DiskReads
  PROVE  LoaderInv'
<1>1. LoaderTyping /\ Line20 /\ Asked
  BY DEF LoaderInv
<1>2. UNCHANGED <<kernel, ph, seg, mem, cr0, a20, kbc>>
  BY DEF Command, DiskReads, boot, cpu
<1>3. \/ eip' = eip /\ disk.busy = 1 /\ kbc.full = 0
      \/ eip = "command" /\ eip' = "data"
  BY DEF Command, DiskReads
<1>4. Reading' /\ Read' /\ NoneElse' /\ OnItsWay'
  <2>1. eip' = eip \/ (Loading /\ Loading')
    BY <1>3 DEF Loading, InBootmain
  <2> QED
    BY <1>2, <2>1, Unmoved
<1>5. LoaderTyping'
  <2>1. disk' \in [busy : {0, 1}, lba : Nat, buffer : Nat]
    BY <1>1 DEF LoaderTyping, Command, DiskReads
  <2> QED
    BY <1>1, <1>2, <1>3, <2>1 DEF LoaderTyping
<1>6. Line20'
  <2>1. Open' = Open
    BY <1>2 DEF Open
  <2> QED
    BY <1>1, <1>2, <1>3, <2>1 DEF Line20, InBootSector, InBootmain, InEntry
<1>7. Asked'
  <2>1. CASE Command
    <3>1. /\ seg' = seg /\ seg.pa < seg.end_pa /\ disk'.busy = 1 /\ disk'.lba = seg.offset
      BY <1>1, <2>1 DEF Command, LoaderTyping, boot
    <3> QED
      BY <3>1 DEF Asked
  <2>2. CASE DiskReads
    <3>1. /\ eip' = eip /\ seg' = seg /\ kbc' = kbc /\ a20' = a20 /\ kbc.full = 0
          /\ disk'.lba = disk.lba /\ disk'.buffer = disk.lba
      BY <1>1, <2>2 DEF DiskReads, LoaderTyping, boot, cpu
    <3>2. ASSUME eip = "data" PROVE disk.lba = seg.offset /\ a20 = 1 /\ seg.pa < seg.end_pa
      BY <1>1, <3>1, <3>2 DEF Asked, Line20
    <3> QED
      BY <3>1, <3>2 DEF Asked, Open
  <2> QED
    BY <2>1, <2>2
<1> QED
  BY <1>4, <1>5, <1>6, <1>7 DEF LoaderInv

LEMMA SameMultiples ==
  ASSUME NEW x \in Nat, NEW y \in Nat, x % SECTSIZE = 0, y % SECTSIZE = 0, x < y
  PROVE  x + SECTSIZE <= y
<1>1. SECTSIZE \in Nat /\ SECTSIZE > 0
  BY SectorSize
<1>2. PICK j \in Nat : x = j * SECTSIZE
  BY <1>1
<1>3. PICK k \in Nat : y = k * SECTSIZE
  BY <1>1
<1>6. j < k
  BY <1>1, <1>2, <1>3
<1>4. (j + 1) * SECTSIZE <= k * SECTSIZE
  BY <1>1, <1>6
<1>5. (j + 1) * SECTSIZE = j * SECTSIZE + SECTSIZE
  BY <1>1
<1> QED
  BY <1>2, <1>3, <1>4, <1>5

LEMMA HeadersAligned ==
  /\ ELFHDR \in Nat /\ RoundDown(ELFHDR) = ELFHDR
  /\ EndOf(Headers) \in Nat /\ EndOf(Headers) % SECTSIZE = 0
<1>1. ELFHDR \in Nat /\ ELFHDR % SECTSIZE = 0 /\ HDRSECTS \in Nat /\ SECTSIZE \in Nat \ {0}
  BY BootLoaderAssumption
<1>2. PICK k \in Nat : ELFHDR = k * SECTSIZE
  BY <1>1
<1>3. EndOf(Headers) = (k + HDRSECTS) * SECTSIZE
  BY <1>1, <1>2 DEF EndOf, Headers
<1>4. (k + HDRSECTS) * SECTSIZE \in Nat /\ ((k + HDRSECTS) * SECTSIZE) % SECTSIZE = 0
  BY <1>1
<1> QED
  BY <1>1, <1>3, <1>4 DEF RoundDown

(* A sector that is read is of the headers or of a segment.                *)
LEMMA SectorOfTarget ==
  ASSUME kernel \in Kernels, NEW i \in 0 .. Len(kernel.ph), NEW x \in Nat, x % SECTSIZE = 0,
         x >= RoundDown(Target(i).p_pa), x < EndOf(Target(i)),
         NEW a \in Address, a \in Sector(x)
  PROVE  InHeaders(a) \/ InSegments(a)
<1>1. Len(kernel.ph) \in Nat /\ a \in Nat /\ x <= a /\ a < x + SECTSIZE
  BY KernelTyped, InMemory, SectorSize DEF Sector
<1>2. CASE i = 0
  <2>1. x >= ELFHDR /\ x + SECTSIZE <= EndOf(Headers)
    BY <1>2, HeadersAligned, SameMultiples DEF Target, Headers
  <2>2. a >= ELFHDR /\ a < EndOf(Headers)
    BY <1>1, <2>1, HeadersAligned, SectorSize
  <2> QED
    BY <1>1, <2>2, HeaderSize, HeadersAligned DEF InHeaders, EndOf, Headers
<1>3. CASE i # 0
  <2>1. i \in 1 .. Len(kernel.ph) /\ Target(i) = kernel.ph[i]
    BY <1>1, <1>3 DEF Target
  <2>2. PICK p : p = kernel.ph[i]
    OBVIOUS
  <2>3. p \in Segments /\ p.p_pa \in Nat /\ p.memsz \in Nat
    BY <2>1, <2>2, KernelTyped DEF Segments, Proghdr
  <2>4. (p.p_pa \div SECTSIZE) * SECTSIZE = RoundDown(p.p_pa) /\ RoundDown(p.p_pa) \in Nat
    BY <2>3, Rounded
  <2>5. RoundDown(p.p_pa) <= a /\ a - (a % SECTSIZE) < p.p_pa + p.memsz
    <3>1. x >= RoundDown(p.p_pa) /\ x < EndOf(p)
      BY <2>1, <2>2
    <3>2. a - (a % SECTSIZE) = x
      BY NextSector DEF Sector
    <3> QED
      BY <1>1, <2>4, <3>1, <3>2 DEF EndOf
  <2>6. a \in Reach(p)
    BY <2>4, <2>5 DEF Reach
  <2> QED
    BY <2>3, <2>6 DEF InSegments
<1> QED
  BY <1>2, <1>3

LEMMA DataStep ==
  ASSUME LoaderInv, Data
  PROVE  LoaderInv'
<1>1. LoaderTyping /\ Line20 /\ Asked /\ Reading /\ Read /\ NoneElse /\ OnItsWay
  BY DEF LoaderInv
<1>2. /\ eip = "data" /\ eip' = "command" /\ disk.busy = 0
      /\ UNCHANGED <<kernel, ph, cr0, a20, kbc, disk>>
  BY DEF Data, waitdisk, cpu
<1>3. Open /\ disk.buffer = seg.offset /\ seg.pa < seg.end_pa
  BY <1>1, <1>2 DEF Asked
<1>4. PICK p : p = Target(ph)
  OBVIOUS
<1>5. kernel \in Kernels /\ ph \in 0 .. Len(kernel.ph)
  BY <1>1 DEF LoaderTyping
<1>6. /\ p.p_pa \in Nat /\ p.p_offset \in Nat /\ p.memsz \in Nat
      /\ (~Holds(p) => p.p_pa = 0) /\ (Holds(p) => Begins(p))
  BY <1>4, <1>5, TargetTyped, TargetLinked
<1>7. seg \in [pa : Nat, end_pa : Nat, offset : Nat]
  BY <1>1 DEF LoaderTyping
<1>8. Progress(mem, seg, p)
  BY <1>1, <1>2, <1>4 DEF Reading, InBootmain
<1>9. mem' = WithSector(mem, seg)
  BY <1>3 DEF Data, Bus, Open, Sector, WithSector
<1>10. seg' = NextOffset(seg)
  BY DEF Data, NextOffset
<1>11. /\ Progress(mem', seg', p) /\ seg' \in [pa : Nat, end_pa : Nat, offset : Nat]
       /\ Holds(p) /\ seg.pa >= RoundDown(p.p_pa) /\ Gains(p, seg.pa, mem, mem')
  <2>1. PICK m, g, m2, g2 : m = mem /\ g = seg /\ m2 = mem' /\ g2 = seg'
    OBVIOUS
  <2>2. /\ g \in [pa : Nat, end_pa : Nat, offset : Nat] /\ Progress(m, g, p)
        /\ g.pa < g.end_pa /\ g2 = NextOffset(g) /\ m2 = WithSector(m, g)
    BY <1>3, <1>7, <1>8, <1>9, <1>10, <2>1
  <2>3. /\ Progress(m2, g2, p) /\ g2 \in [pa : Nat, end_pa : Nat, offset : Nat]
        /\ Holds(p) /\ g.pa >= RoundDown(p.p_pa) /\ Gains(p, g.pa, m, m2)
    BY <1>6, <2>2, SectorRead
  <2> QED
    BY <2>1, <2>3
<1>12. \A i : Target(i)' = Target(i)
  BY <1>2 DEF Target
<1>13. LoaderTyping'
  BY <1>1, <1>2, <1>9, <1>11 DEF LoaderTyping, WithSector
<1>14. Line20'
  BY <1>1, <1>2, <1>3 DEF Line20, Open, InBootSector, InBootmain, InEntry
<1>15. Asked'
  BY <1>2 DEF Asked
<1>16. Reading'
  BY <1>2, <1>4, <1>11, <1>12 DEF Reading
<1>17. Read'
  <2>1. ASSUME NEW i \in 0 .. ph - 1 PROVE InPlace(mem', Target(i))
    <3>1. i \in 0 .. Len(kernel.ph) /\ i < ph
      BY <1>5, KernelTyped
    <3>2. InPlace(mem, Target(i))
      BY <1>1, <1>2 DEF Read, InBootmain
    <3>3. seg.pa \in Nat
      BY <1>7
    <3> QED
      BY <1>4, <1>5, <1>11, <3>1, <3>2, <3>3, StaysInPlace
  <2> QED
    BY <1>2, <1>12, <2>1 DEF Read, InEntry
<1>18. NoneElse'
  <2>1. /\ \A a : InHeaders(a)' = InHeaders(a)
        /\ \A a : InSegments(a)' = InSegments(a)
    BY <1>2 DEF InHeaders, InSegments, Segments, Reach
  <2>2. ASSUME NEW a \in Address, a \in Sector(seg.pa) PROVE InHeaders(a) \/ InSegments(a)
    <3>1. /\ seg.pa \in Nat /\ seg.pa % SECTSIZE = 0 /\ seg.pa >= RoundDown(p.p_pa)
          /\ seg.pa < EndOf(p)
      BY <1>3, <1>7, <1>8 DEF Progress
    <3> QED
      BY <1>4, <1>5, <2>2, <3>1, SectorOfTarget
  <2>3. ASSUME NEW a \in Address, a \notin Sector(seg.pa)
        PROVE  mem'[a] = Untouched \/ InHeaders(a) \/ InSegments(a)
    BY <1>1, <1>2, <1>11, <2>3 DEF NoneElse, Gains
  <2> QED
    BY <2>1, <2>2, <2>3 DEF NoneElse
<1>19. OnItsWay'
  BY <1>1, <1>2 DEF OnItsWay, InEntry
<1> QED
  BY <1>13, <1>14, <1>15, <1>16, <1>17, <1>18, <1>19 DEF LoaderInv

-----------------------------------------------------------------------------
(* bootmain, when a target is read to its end                              *)

LEMMA BusOpen ==
  ASSUME Open, NEW a
  PROVE  Bus(a) = a
BY DEF Open, Bus

(* Every target up to this one is in place, and line 20 is open.           *)
LEMMA TargetRead ==
  ASSUME LoaderInv, ReadDone
  PROVE  Open /\ \A i \in 0 .. ph : InPlace(mem, Target(i))
<1>1. /\ LoaderTyping /\ Line20 /\ Reading /\ Read /\ InBootmain
      /\ eip = "command" /\ seg.pa >= seg.end_pa
  BY DEF LoaderInv, ReadDone, InBootmain
<1>2. kernel \in Kernels /\ ph \in 0 .. Len(kernel.ph) /\ Len(kernel.ph) \in Nat
  BY <1>1, KernelTyped DEF LoaderTyping
<1>3. PICK p : p = Target(ph)
  OBVIOUS
<1>4. /\ p.p_pa \in Nat /\ p.p_offset \in Nat /\ p.memsz \in Nat /\ (Holds(p) => Begins(p))
  BY <1>2, <1>3, TargetTyped, TargetLinked
<1>5. PICK m, g : m = mem /\ g = seg
  OBVIOUS
<1>6. /\ g \in [pa : Nat, end_pa : Nat, offset : Nat] /\ Progress(m, g, p) /\ g.pa >= g.end_pa
  BY <1>1, <1>3, <1>5 DEF LoaderTyping, Reading
<1>7. InPlace(m, p)
  BY <1>4, <1>6, Complete
<1>8. \A i \in 0 .. ph : InPlace(mem, Target(i))
  <2>1. \A i \in 0 .. ph : i = ph \/ i \in 0 .. ph - 1
    BY <1>2
  <2> QED
    BY <1>1, <1>3, <1>5, <1>7, <2>1 DEF Read
<1>9. Open
  <2>1. ASSUME ph = 0 PROVE seg.pa # ELFHDR
    <3>1. p = Headers
      BY <1>3, <2>1 DEF Target
    <3>2. g.end_pa = ELFHDR + HDRSECTS * SECTSIZE
      BY <1>6, <3>1 DEF Progress, EndOf, Headers
    <3>3. g.end_pa > ELFHDR
      BY <3>2, HeaderSize, BootLoaderAssumption
    <3> QED
      BY <1>5, <1>6, <3>3, BootLoaderAssumption
  <2> QED
    BY <1>1, <1>2, <2>1 DEF Line20
<1> QED
  BY <1>8, <1>9

(* The headers in memory are those of the file.                            *)
LEMMA HeadersInMemory ==
  ASSUME kernel \in Kernels, Open, InPlace(mem, Headers)
  PROVE  /\ HeaderOK <=> kernel.magic
         /\ \A i \in 1 .. Len(kernel.ph) : Phdr(i) = kernel.ph[i]
<1>1. \A a \in ELFHDR .. EndOf(Headers) - 1 : mem[a] = a - ELFHDR
  <2>1. ASSUME NEW a \in ELFHDR .. EndOf(Headers) - 1 PROVE mem[a] = a - ELFHDR
    <3>1. mem[a] = 0 + (a - ELFHDR)
      BY DEF InPlace, Headers, Linked
    <3> QED
      BY <3>1, HeadersAligned
  <2> QED
    BY <2>1
<1>2. EndOf(Headers) = ELFHDR + HDRSECTS * SECTSIZE /\ ELFHDR \in Nat
  BY BootLoaderAssumption DEF EndOf, Headers
<1>3. PICK size \in Nat : size = HDRSECTS * SECTSIZE /\ size > 0
  BY HeaderSize
<1>4. mem[ELFHDR] = 0
  BY <1>1, <1>2, <1>3
<1>5. HeaderOK <=> kernel.magic
  BY <1>4, BusOpen DEF HeaderOK
<1>6. ASSUME NEW i \in 1 .. Len(kernel.ph) PROVE Phdr(i) = kernel.ph[i]
  <2>1. kernel \in Elf /\ WellLinked(kernel) /\ Len(kernel.ph) \in Nat
    BY KernelTyped
  <2>2. kernel.phoff \in Nat /\ kernel.phoff > 0 /\ kernel.phoff + Len(kernel.ph) <= size
    BY <1>3, <2>1 DEF Elf, WellLinked
  <2>3. PICK a : a = ELFHDR + kernel.phoff + i - 1
    OBVIOUS
  <2>4. a \in ELFHDR .. ELFHDR + size - 1 /\ a - ELFHDR = kernel.phoff + i - 1
    BY SMTT(30), <1>2, <2>1, <2>2, <2>3
  <2>5. mem[a] = kernel.phoff + i - 1
    BY <1>1, <1>2, <1>3, <2>4
  <2> QED
    BY <2>3, <2>5, BusOpen DEF Phdr
<1> QED
  BY <1>5, <1>6

(* Where bootmain goes when the headers or a segment are read.             *)
LEMMA BootmainStep ==
  ASSUME LoaderInv, Bad \/ NextSegment \/ Enter
  PROVE  LoaderInv'
<1>1. LoaderTyping /\ Line20 /\ Asked /\ Reading /\ Read /\ NoneElse /\ OnItsWay
  BY DEF LoaderInv
<1>2. /\ UNCHANGED <<kernel, mem, cr0, a20, kbc, disk>> /\ ReadDone /\ eip = "command"
  BY DEF Bad, NextSegment, Enter, ReadDone, boot, cpu
<1>3. kernel \in Kernels /\ ph \in 0 .. Len(kernel.ph) /\ Len(kernel.ph) \in Nat
  BY <1>1, KernelTyped DEF LoaderTyping
<1>4. Open /\ \A i \in 0 .. ph : InPlace(mem, Target(i))
  BY <1>2, TargetRead
<1>5. InPlace(mem, Headers)
  <2>1. 0 \in 0 .. ph
    BY <1>3
  <2> QED
    BY <1>4, <2>1 DEF Target
<1>6. /\ HeaderOK <=> kernel.magic
      /\ \A i \in 1 .. Len(kernel.ph) : Phdr(i) = kernel.ph[i]
  BY <1>3, <1>4, <1>5, HeadersInMemory
<1>7. Open' /\ (\A i : Target(i)' = Target(i))
  BY <1>2, <1>4 DEF Open, Target
<1>8. NoneElse'
  <2>1. /\ \A a : InHeaders(a)' = InHeaders(a)
        /\ \A a : InSegments(a)' = InSegments(a)
    BY <1>2 DEF InHeaders, InSegments, Segments, Reach
  <2>2. \A a \in Address : mem[a] = Untouched \/ InHeaders(a) \/ InSegments(a)
    BY <1>1, <1>2 DEF NoneElse
  <2> QED
    BY <1>2, <2>1, <2>2 DEF NoneElse
<1>9. CASE Bad
  <2>1. eip' = "bad" /\ ph' = ph /\ seg' = seg /\ ph = 0 /\ ~kernel.magic
    BY <1>6, <1>9 DEF Bad, boot
  <2>2. LoaderTyping'
    BY <1>1, <1>2, <2>1 DEF LoaderTyping
  <2>3. Line20' /\ Asked' /\ Reading' /\ Read'
    BY <1>1, <1>2, <1>4, <2>1
       DEF Line20, Open, Asked, Reading, Read, InBootSector, InBootmain, InEntry
  <2>4. OnItsWay'
    BY <1>2, <2>1 DEF OnItsWay, InEntry
  <2> QED
    BY <1>8, <2>2, <2>3, <2>4 DEF LoaderInv
<1>10. CASE NextSegment
  <2>1. /\ eip' = "command" /\ ph' = ph + 1 /\ ph + 1 \in 1 .. Len(kernel.ph)
        /\ seg' = readseg(Phdr(ph + 1).p_pa, Phdr(ph + 1).memsz, Phdr(ph + 1).p_offset)
    BY <1>2, <1>3, <1>10 DEF NextSegment
  <2>2. kernel.magic
    BY <1>1, <1>3, <1>6, <1>10 DEF NextSegment, OnItsWay
  <2>3. PICK p : p = Target(ph + 1)
    OBVIOUS
  <2>4. p = Phdr(ph + 1)
    BY <1>3, <1>6, <2>1, <2>3 DEF Target
  <2>5. /\ p.p_pa \in Nat /\ p.p_offset \in Nat /\ p.memsz \in Nat
        /\ (~Holds(p) => p.p_pa = 0) /\ (Holds(p) => Begins(p))
    <3>1. ph + 1 \in 0 .. Len(kernel.ph)
      BY <1>3, <2>1
    <3> QED
      BY <1>3, <2>3, <3>1, TargetTyped, TargetLinked
  <2>6. Progress(mem, seg', p) /\ seg' \in [pa : Nat, end_pa : Nat, offset : Nat]
    <3>1. PICK m, g : m = mem /\ g = seg'
      OBVIOUS
    <3>2. g = readseg(p.p_pa, p.memsz, p.p_offset)
      BY <2>1, <2>4, <3>1
    <3>3. Progress(m, g, p) /\ g \in [pa : Nat, end_pa : Nat, offset : Nat]
      BY <2>5, <3>2, Starts
    <3> QED
      BY <3>1, <3>3
  <2>7. LoaderTyping'
    BY <1>1, <1>2, <1>3, <2>1, <2>6 DEF LoaderTyping
  <2>8. Line20' /\ Asked'
    BY <1>1, <1>2, <1>4, <1>7, <2>1
       DEF Line20, Asked, InBootSector, InBootmain, InEntry
  <2>9. Reading'
    BY <1>2, <1>7, <2>1, <2>3, <2>6 DEF Reading
  <2>10. Read'
    <3>1. \A i \in 0 .. ph' - 1 : i \in 0 .. ph
      BY <1>3, <2>1
    <3> QED
      BY <1>2, <1>4, <1>7, <2>1, <3>1 DEF Read, InEntry
  <2>11. OnItsWay'
    BY <1>2, <2>1, <2>2 DEF OnItsWay, InEntry
  <2> QED
    BY <1>8, <2>7, <2>8, <2>9, <2>10, <2>11 DEF LoaderInv
<1>11. CASE Enter
  <2>1. eip' = "entry" /\ ph' = ph /\ seg' = seg /\ ph = Len(kernel.ph)
    BY <1>11 DEF Enter, boot
  <2>2. kernel.magic
    BY <1>1, <1>3, <1>6, <1>11 DEF Enter, OnItsWay
  <2>3. LoaderTyping'
    BY <1>1, <1>2, <2>1 DEF LoaderTyping
  <2>4. Line20' /\ Asked' /\ Reading'
    BY <1>1, <1>2, <1>4, <1>7, <2>1
       DEF Line20, Open, Asked, Reading, InBootSector, InBootmain, InEntry
  <2>5. Read'
    BY <1>2, <1>4, <1>7, <2>1 DEF Read, InBootSector, InBootmain
  <2>6. OnItsWay'
    BY <1>2, <2>1, <2>2 DEF OnItsWay, InEntry
  <2> QED
    BY <1>8, <2>3, <2>4, <2>5, <2>6 DEF LoaderInv
<1> QED
  BY <1>9, <1>10, <1>11

-----------------------------------------------------------------------------
(* entry.S and i386_init                                                   *)

(* The entry point and entry_pgdir were read, and are mapped.              *)
LEMMA EntryLoaded ==
  ASSUME kernel \in Kernels, Open, \A i \in 0 .. Len(kernel.ph) : InPlace(mem, Target(i)),
         NEW a \in {kernel.entry, kernel.entry_pgdir}
  PROVE  IsLoaded(a) /\ a < EntryLimit
<1>1. Len(kernel.ph) \in Nat /\ a \in Nat
  BY KernelTyped, EntryInSegment
<1>2. PICK i \in 1 .. Len(kernel.ph) :
        /\ Holds(kernel.ph[i])
        /\ a \in kernel.ph[i].p_pa .. kernel.ph[i].p_pa + kernel.ph[i].filesz - 1
  BY EntryInSegment
<1>3. PICK p : p = kernel.ph[i]
  OBVIOUS
<1>4. p \in Proghdr /\ p.filesz <= p.memsz /\ EndOf(p) <= EntryLimit
  BY <1>2, <1>3, KernelTyped, SegmentLinked
<1>5. /\ p.p_pa \in Nat /\ p.filesz \in Nat /\ p.memsz \in Nat /\ EntryLimit \in Nat
      /\ EndOf(p) = p.p_pa + p.memsz
  BY <1>4, BootLoaderAssumption DEF Proghdr, EndOf
<1>6. a \in p.p_pa .. p.p_pa + p.filesz - 1
  BY <1>2, <1>3
<1>7. a \in p.p_pa .. EndOf(p) - 1 /\ a < EntryLimit
  BY <1>1, <1>4, <1>5, <1>6
<1>8. InPlace(mem, p)
  <2>1. i \in 0 .. Len(kernel.ph) /\ Target(i) = p
    BY <1>1, <1>3 DEF Target
  <2> QED
    BY <2>1
<1>9. mem[Bus(a)] = p.p_offset + (a - p.p_pa)
  BY <1>7, <1>8, BusOpen DEF InPlace, Linked
<1> QED
  BY <1>3, <1>6, <1>7, <1>9 DEF IsLoaded

(* With paging, both slots of entry_pgdir map all there is.                *)
LEMMA EntryMapped ==
  ASSUME IsLoaded(kernel.entry_pgdir), "PG" \in cr0, NEW a, a < EntryLimit
  PROVE  /\ Translates("0", a, "P") /\ Translates("KERNBASE", a, "P")
         /\ Translates("KERNBASE", a, "W")
BY DEF Translates, entry_pgdir

LEMMA EntryStep ==
  ASSUME LoaderInv, entry \/ jump
  PROVE  LoaderInv'
<1>1. LoaderTyping /\ Line20 /\ Asked /\ Reading /\ Read /\ NoneElse /\ OnItsWay
  BY DEF LoaderInv
<1>2. UNCHANGED <<kernel, ph, seg, mem, a20, kbc, disk>> /\ InEntry
  BY DEF entry, jump, boot, cpu, InEntry
<1>3. kernel \in Kernels /\ Open /\ \A i \in 0 .. Len(kernel.ph) : InPlace(mem, Target(i))
  BY <1>1, <1>2 DEF LoaderTyping, Line20, Read
<1>4. /\ IsLoaded(kernel.entry) /\ IsLoaded(kernel.entry_pgdir) /\ kernel.entry < EntryLimit
  BY <1>3, EntryLoaded
<1>5. eip' \in {"paging", "relocated"} /\ "PG" \in cr0'
  <2>1. CASE entry
    BY <1>4, <2>1 DEF entry
  <2>2. CASE jump
    <3>1. "PG" \in cr0 /\ cr0' = cr0
      BY <1>1, <2>2 DEF jump, OnItsWay, cpu
    <3> QED
      BY <1>4, <2>2, <3>1, EntryMapped DEF jump
  <2> QED
    BY <2>1, <2>2
<1>6. /\ Open' /\ (\A i : Target(i)' = Target(i))
      /\ (\A a : InHeaders(a)' = InHeaders(a)) /\ (\A a : InSegments(a)' = InSegments(a))
  BY <1>2, <1>3 DEF Open, Target, InHeaders, InSegments, Segments, Reach
<1>7. LoaderTyping'
  BY <1>1, <1>2, <1>5 DEF LoaderTyping
<1>8. Line20'
  <2>1. a20' = 1 /\ kbc'.full = 0
    BY <1>6 DEF Open
  <2> QED
    BY <1>5, <1>6, <2>1 DEF Line20, InBootSector, InBootmain, InEntry
<1>9. Asked' /\ Reading'
  BY <1>5 DEF Asked, Reading, InBootSector, InBootmain
<1>10. Read'
  BY <1>2, <1>3, <1>5, <1>6 DEF Read, InBootSector, InBootmain
<1>11. NoneElse'
  <2>1. \A a \in Address : mem[a] = Untouched \/ InHeaders(a) \/ InSegments(a)
    BY <1>1, <1>2 DEF NoneElse, InEntry
  <2> QED
    BY <1>2, <1>6, <2>1 DEF NoneElse
<1>12. OnItsWay'
  <2>1. kernel.magic
    BY <1>1, <1>2 DEF OnItsWay
  <2> QED
    BY <1>2, <1>5, <2>1 DEF OnItsWay
<1> QED
  BY <1>7, <1>8, <1>9, <1>10, <1>11, <1>12 DEF LoaderInv

(* The bss is mapped and is cleared, and nothing else is written.          *)
LEMMA InitStep ==
  ASSUME LoaderInv, i386_init
  PROVE  LoaderInv'
<1>1. LoaderTyping /\ Line20 /\ Asked /\ Reading /\ Read /\ NoneElse /\ OnItsWay
  BY DEF LoaderInv
<1>2. UNCHANGED <<kernel, ph, seg, cr0, a20, kbc, disk>> /\ InEntry /\ eip = "relocated"
  BY DEF i386_init, boot, cpu, InEntry
<1>3. kernel \in Kernels /\ Open /\ \A i \in 0 .. Len(kernel.ph) : InPlace(mem, Target(i))
  BY <1>1, <1>2 DEF LoaderTyping, Line20, Read
<1>4. IsLoaded(kernel.entry_pgdir) /\ "PG" \in cr0 /\ kernel.magic
  BY <1>1, <1>2, <1>3, EntryLoaded DEF OnItsWay
<1>5. /\ kernel \in Elf /\ kernel.end <= EntryLimit /\ kernel.end <= Top
      /\ kernel.edata \in Nat /\ kernel.end \in Nat /\ EntryLimit \in Nat
  BY <1>3, KernelTyped, BootLoaderAssumption DEF WellLinked, Elf
<1>6. \A a \in Bss : a \in Nat /\ a < EntryLimit /\ a <= Top
  <2>1. PICK x \in Nat, y \in Nat : x = kernel.edata /\ y = kernel.end
    BY <1>5
  <2>2. \A a \in x .. y - 1 : a \in Nat /\ a < EntryLimit /\ a <= Top
    BY <1>5, <2>1, InMemory
  <2> QED
    BY <2>1, <2>2 DEF Bss
<1>7. \A a \in Bss : Translates("KERNBASE", a, "W")
  BY <1>4, <1>6, EntryMapped
<1>8. /\ eip' = "kernel"
      /\ mem' = [a \in Address |-> IF a \in Bss THEN Zero ELSE mem[a]]
  BY <1>7 DEF i386_init, Bss
<1>9. \A a \in Address : mem'[a] = IF a \in Bss THEN Zero ELSE mem[a]
  BY <1>8
<1>10. LoaderTyping'
  BY <1>1, <1>2, <1>8 DEF LoaderTyping
<1>11. Line20' /\ Asked' /\ Reading' /\ Read'
  <2>1. Open' /\ a20' = 1 /\ kbc'.full = 0
    BY <1>2, <1>3 DEF Open
  <2> QED
    BY <1>8, <2>1 DEF Line20, Asked, Reading, Read, InBootSector, InBootmain, InEntry
<1>12. NoneElse'
  <2>1. /\ \A a : InHeaders(a)' = InHeaders(a)
        /\ \A a : InSegments(a)' = InSegments(a)
        /\ Bss' = Bss
    BY <1>2 DEF InHeaders, InSegments, Segments, Reach, Bss
  <2>2. \A a \in Address : mem[a] = Untouched \/ InHeaders(a) \/ InSegments(a)
    BY <1>1, <1>2 DEF NoneElse
  <2> QED
    BY <1>8, <1>9, <2>1, <2>2 DEF NoneElse
<1>13. \A a \in Bss : mem'[a] = Zero
  BY <1>6, <1>9, InMemory
<1>14. ASSUME NEW s \in Segments, NEW a \in InFile(s) \ Bss
       PROVE  mem'[a] = s.p_offset + (a - s.p_pa)
  <2>1. PICK i \in 1 .. Len(kernel.ph) : s = kernel.ph[i]
    BY DEF Segments
  <2>2. i \in 0 .. Len(kernel.ph) /\ Target(i) = s
    BY <1>3, <2>1, KernelTyped DEF Target
  <2>3. /\ s \in Proghdr /\ s.filesz <= s.memsz /\ (Holds(s) => Begins(s))
        /\ InPlace(mem, s)
    BY <1>3, <2>1, <2>2, KernelTyped, SegmentLinked
  <2>4. s.p_pa \in Nat /\ s.filesz \in Nat /\ s.memsz \in Nat /\ EndOf(s) = s.p_pa + s.memsz
    BY <2>3 DEF Proghdr, EndOf
  <2>5. a \in s.p_pa .. EndOf(s) - 1 /\ a \in Nat
    BY <2>3, <2>4 DEF InFile
  <2>6. Holds(s)
    BY <2>4, <2>5 DEF Holds
  <2>7. a <= Top
    BY <2>3, <2>4, <2>5, <2>6, SectorSize, InMemory DEF Begins
  <2>8. a \in Address
    BY <2>5, <2>7, InMemory
  <2>9. mem[a] = Linked(s, a)
    BY <2>3, <2>5 DEF InPlace
  <2> QED
    BY <1>9, <2>8, <2>9 DEF Linked
<1>15. OnItsWay'
  <2>1. Bss' = Bss /\ Segments' = Segments /\ (\A s : InFile(s)' = InFile(s))
    BY <1>2 DEF Bss, Segments, InFile
  <2> QED
    BY <1>2, <1>4, <1>8, <1>13, <1>14, <2>1 DEF OnItsWay
<1> QED
  BY <1>10, <1>11, <1>12, <1>15 DEF LoaderInv

LEMMA MachineIdle ==
  ASSUME LoaderInv, UNCHANGED boot_vars
  PROVE  LoaderInv'
<1>1. LoaderTyping /\ Line20 /\ Asked
  BY DEF LoaderInv
<1>2. UNCHANGED <<kernel, ph, seg, mem, eip, cr0, a20, kbc, disk>>
  BY DEF boot_vars, boot, cpu
<1>3. Reading' /\ Read' /\ NoneElse' /\ OnItsWay'
  BY <1>2, Unmoved
<1>4. LoaderTyping' /\ Line20' /\ Asked'
  BY <1>1, <1>2
     DEF LoaderTyping, Line20, Asked, Open, InBootSector, InBootmain, InEntry
<1> QED
  BY <1>3, <1>4 DEF LoaderInv

(* However line 20, the 8042 and the disk delay the processor, the sectors *)
(* read so far are where the loader believes them to be.                   *)
THEOREM LoaderInvHolds == BootSpec => []LoaderInv
<1>1. PowerOn => LoaderInv
  BY PoweredOn
<1>2. LoaderInv /\ [BootNext]_boot_vars => LoaderInv'
  <2> SUFFICES ASSUME LoaderInv, [BootNext]_boot_vars PROVE LoaderInv'
    OBVIOUS
  <2> QED
    BY BootSectorStep, ControllerStep, DiskStep, DataStep, BootmainStep, EntryStep, InitStep,
       MachineIdle DEF BootNext, Processor
<1> QED
  BY <1>1, <1>2, PTL DEF BootSpec

-----------------------------------------------------------------------------
(* The theorems                                                            *)

(* For every kernel that is linked as kernel.ld does, with segments that   *)
(* begin and end anywhere in a sector: whole sectors are read over the     *)
(* ends of the segments, and yet every one is in memory as the file has    *)
(* it, and the bss is zero.                                                *)
THEOREM KernelLoaded == BootSpec => []KernelAsLinked
<1>1. LoaderInv => KernelAsLinked
  BY DEF LoaderInv, OnItsWay, NoneElse, KernelAsLinked, InHeaders, InSegments
<1> QED
  BY <1>1, LoaderInvHolds, PTL

(* What Boots promises but for its end: nothing faults between the first   *)
(* instruction and the C code, whenever line 20 opens, and only a file     *)
(* without the magic number is refused.                                    *)
OnlyKernelEntered ==
  /\ eip # "fault" /\ (eip = "bad" => ~kernel.magic)
  /\ InEntry \/ eip = "kernel" => kernel.magic /\ a20 = 1
THEOREM NeverFaults == BootSpec => []OnlyKernelEntered
<1>1. LoaderInv => OnlyKernelEntered
  BY DEF LoaderInv, LoaderTyping, Line20, Open, OnItsWay, OnlyKernelEntered
<1> QED
  BY <1>1, LoaderInvHolds, PTL
=============================================================================
