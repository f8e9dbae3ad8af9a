------------------------------ MODULE MemInit -------------------------------
(***************************************************************************)
(* mem_init of kern/pmap.c: the boot sequence that builds the free list    *)
(* and the kernel's page tables, up to the check at which this kernel      *)
(* stops.                                                                  *)
(*                                                                         *)
(* The sequence runs on one processor with no interrupts and no other      *)
(* process; what can go wrong is its own order: memory taken by boot_alloc *)
(* after the free list was built, a page touched before it is mapped, a    *)
(* list relinked while it is walked.  Each loop iteration is a step.       *)
(*                                                                         *)
(* Addresses are page numbers: a kernel address is its physical page, a    *)
(* virtual page k is <<k \div NPT, k % NPT>>.                              *)
(***************************************************************************)
EXTENDS PmapOps

CONSTANTS
  NPT,         \* entries of a page table (NPTENTRIES); entry_pgdir maps NPT pages
  PGSIZE,      \* bytes of a page
  EXT16,       \* the page at 16 MB
  Layouts,     \* the machines and kernels: io and ext bound the hole below the
               \* kernel, end is the page ROUNDUP(end) begins, vars the page of
               \* the variables kern_pgdir, npages and pages; basemem, extmem and
               \* ext16mem are the pages the CMOS reports
  PagesSize,   \* pages that hold the array pages[]
  KSTK,        \* pages of the kernel stack
  UPAGES, KSTACK, UVPT,  \* directory indices of the regions above UTOP
  KERNBASE,    \* directory index of the first of the tables that map all memory
  KernTables,  \* their number
  Kern         \* kern_pgdir, the one member of Pgdirs

ASSUME BootAssumption ==
  /\ NPT \in Nat \ {0} /\ PTX = 0 .. NPT - 1
  /\ Pgdirs = {Kern}
  /\ PDX \subseteq Nat /\ {KERNBASE, KernTables, PagesSize} \subseteq Nat
  /\ {UPAGES, KSTACK, UVPT} \cup (KERNBASE .. KERNBASE + KernTables - 1) \subseteq PDX
  /\ {UPAGES, KSTACK, UVPT} \cap (KERNBASE .. KERNBASE + KernTables - 1) = {}
  /\ UPAGES # KSTACK /\ UPAGES # UVPT /\ KSTACK # UVPT
  /\ {0, 1} \subseteq PDX /\ UPAGES > 1 /\ KSTACK > 1 /\ UVPT > 1 /\ KERNBASE > 1
  /\ KSTK \in 1 .. NPT /\ npages <= KernTables * NPT
  /\ PGSIZE \in Nat /\ PGSIZE > 1
  /\ RefMod > 2

(* Base memory has more pages than mem_init makes tables.  The kernel, with *)
(* its stack, is behind the hole; what boot_alloc takes behind the kernel   *)
(* is in the memory entry_pgdir maps, and memory goes on behind that.       *)
ASSUME LayoutAssumption ==
  \A m \in Layouts :
    /\ {m.io, m.ext, m.end} \subseteq Nat
    /\ KernTables + 2 < m.io /\ m.io < m.ext /\ m.ext + KSTK <= m.end
    /\ m.end + 1 + PagesSize <= NPT /\ m.end + 1 + PagesSize + 1 < npages

VARIABLES
  mm,         \* pages[], the free list, the page tables (see PmapOps)
  machine,    \* the member of Layouts the kernel runs on
  pc,         \* the call mem_init is in
  at,         \* the variable of the loop it is in
  nextfree,   \* boot_alloc's nextfree
  kern_pgdir, pages,  \* the pages boot_alloc gave
  tp,         \* pp1, pp2 and tp[2] of check_page_free_list
  pp, fl,     \* check_page's pp0, pp1, pp2 and the free list it stole
  touched     \* auxiliary: the pages the last step wrote through KERNBASE
vars == <<mm, machine, pc, at, nextfree, kern_pgdir, pages, tp, pp, fl, touched>>

(* The addresses of the local variables pp1 and pp2.                       *)
PP1 == -1
PP2 == -2

VirtPage(k) == <<k \div NPT, k % NPT>>

-----------------------------------------------------------------------------
(* The pages of a machine.  Base memory counts only where there is no      *)
(* other, and page_init does not ask how much there is.                    *)
i386_detect_memory(m) ==
  IF m.ext16mem # 0 THEN EXT16 + m.ext16mem
  ELSE IF m.extmem # 0 THEN m.ext + m.extmem
  ELSE m.basemem

(* Memory holds anything before it is cleared.                             *)
Init ==
  /\ machine \in Layouts /\ npages = i386_detect_memory(machine)
  /\ mm = [ pp_ref         |-> [p \in Page |-> RefMod - 1],
            pp_link        |-> [p \in Page |-> p],
            page_free_list |-> NULL,
            pgdir          |-> [d \in Pgdirs |-> [x \in PDX |-> 0]],
            mem            |-> [p \in Page |-> Scribbled],
            cr3            |-> Kern,
            tlb            |-> [v \in VA |-> NULL],
            status         |-> "run",
            free           |-> <<>> ]
  /\ pc = "kern_pgdir" /\ at = 0
  /\ nextfree = machine.end
  /\ kern_pgdir = NULL /\ pages = NULL
  /\ tp = [pp1 |-> NULL, pp2 |-> NULL, low |-> PP1, high |-> PP2]
  /\ pp = NULL /\ fl = NULL
  /\ touched = {}

(* boot_alloc(n) returns the old nextfree; nothing bounds the new one.     *)
boot_alloc(n) == nextfree' = nextfree + n

(* memset clears the page.  kernel.ld has no place for the COMMON symbols, *)
(* so that the linker puts kern_pgdir behind end: when end is the start of *)
(* a page, memset clears kern_pgdir and PADDR of NULL panics.              *)
AllocKernPgdir ==
  /\ pc = "kern_pgdir"
  /\ boot_alloc(1)
  /\ touched' = {nextfree}
  /\ IF machine.vars = nextfree
     THEN /\ kern_pgdir' = NULL
          /\ mm' = [mm EXCEPT !.status = "panic"]
     ELSE /\ kern_pgdir' = nextfree
          /\ mm' = [mm EXCEPT !.pgdir[Kern] =
                                [x \in PDX |-> IF x = UVPT THEN nextfree ELSE NULL]]
  /\ pc' = "pages"
  /\ UNCHANGED <<machine, at, pages, tp, pp, fl>>

AllocPages ==
  /\ pc = "pages"
  /\ pages' = nextfree
  /\ boot_alloc(PagesSize)
  /\ touched' = nextfree .. nextfree + PagesSize - 1
  /\ mm' = [mm EXCEPT !.pp_ref = [p \in Page |-> 0], !.pp_link = [p \in Page |-> NULL]]
  /\ pc' = "page_init" /\ at' = 0
  /\ UNCHANGED <<machine, kern_pgdir, tp, pp, fl>>

-----------------------------------------------------------------------------
(* page_init: one page per step, pushed on the list or counted once.       *)

InUse(i) == i = 0 \/ (machine.io <= i /\ i <= nextfree)

MorePages(i) == i < npages

page_init ==
  /\ pc = "page_init"
  /\ IF MorePages(at)
     THEN /\ mm' = IF InUse(at)
                   THEN [mm EXCEPT !.pp_ref[at] = 1]
                   ELSE [mm EXCEPT !.pp_ref[at]     = 0,
                                   !.pp_link[at]    = mm.page_free_list,
                                   !.page_free_list = at,
                                   !.free           = Append(@, at)]
          /\ at' = at + 1 /\ pc' = pc
     ELSE /\ mm' = IF mm.page_free_list = NULL
                   THEN [mm EXCEPT !.status = "panic"] ELSE mm
          /\ at' = mm.page_free_list /\ pc' = "reorder"
  /\ touched' = {}
  /\ UNCHANGED <<machine, nextfree, kern_pgdir, pages, tp, pp, fl>>

-----------------------------------------------------------------------------
(* check_page_free_list(1) moves the pages entry_pgdir maps to the front,  *)
(* relinking the list behind the page it looks at.  tp.low and tp.high are *)
(* the pointers to write next: a local variable or the link of a page.     *)

(* Mutant: the limit of the mapped pages is off by one.                    *)
IsLowInclusive(p) == p <= NPT

IsLow(p) == p < NPT

WriteLink(cell, value) ==
  /\ mm' = IF cell \in Page THEN [mm EXCEPT !.pp_link[cell] = value] ELSE mm
  /\ tp' = [pp1 |-> IF cell = PP1 THEN value ELSE tp.pp1,
            pp2 |-> IF cell = PP2 THEN value ELSE tp.pp2,
            low  |-> IF IsLow(value) THEN value ELSE tp.low,
            high |-> IF IsLow(value) THEN tp.high ELSE value]

Move ==
  /\ pc = "reorder" /\ at # NULL
  /\ WriteLink(IF IsLow(at) THEN tp.low ELSE tp.high, at)
  /\ at' = mm.pp_link[at]
  /\ touched' = {}
  /\ UNCHANGED <<machine, pc, nextfree, kern_pgdir, pages, pp, fl>>

(* The link *cell is set to value, in pages[] or in the local variables.   *)
SetLink(link, cell, value) ==
  IF cell \in Page THEN [link EXCEPT ![cell] = value] ELSE link

(* The list page_init built has its low pages, in ascending order, at the  *)
(* tail; now they are at the head.                                         *)
LowLast(free) ==
  LET low == Cardinality({i \in 1 .. Len(free) : IsLow(free[i])})
  IN  SubSeq(free, low + 1, Len(free)) \o SubSeq(free, 1, low)

(* Mutant: the list of high pages is not ended (line 602 missing).         *)
JoinUnended ==
  /\ pc = "reorder" /\ at = NULL
  /\ LET pp1 == IF tp.low = PP1 THEN tp.pp2 ELSE tp.pp1 IN
     /\ mm' = [mm EXCEPT !.pp_link = SetLink(mm.pp_link, tp.low, tp.pp2),
                         !.page_free_list = pp1, !.free = LowLast(@)]
     /\ at' = pp1
  /\ pc' = "fill"
  /\ touched' = {}
  /\ UNCHANGED <<machine, nextfree, kern_pgdir, pages, tp, pp, fl>>

(* *tp[1] = 0; *tp[0] = pp2; page_free_list = pp1.                         *)
Join ==
  /\ pc = "reorder" /\ at = NULL
  /\ LET pp2 == IF tp.high = PP2 THEN NULL ELSE tp.pp2
         pp1 == IF tp.low = PP1 THEN pp2 ELSE tp.pp1
     IN /\ mm' = [mm EXCEPT
                    !.pp_link = SetLink(SetLink(mm.pp_link, tp.high, NULL), tp.low, pp2),
                    !.page_free_list = pp1, !.free = LowLast(@)]
        /\ at' = pp1
  /\ pc' = "fill"
  /\ touched' = {}
  /\ UNCHANGED <<machine, nextfree, kern_pgdir, pages, tp, pp, fl>>

(* memset(page2kva(pp), 0x97, 128), of each low page on the list.          *)
Scribble(s, p) == [s EXCEPT !.mem[p] = Scribbled]

Fill ==
  /\ pc = "fill"
  /\ IF at # NULL
     THEN /\ mm' = IF IsLow(at) THEN Scribble(mm, at) ELSE mm
          /\ touched' = IF IsLow(at) THEN {at} ELSE {}
          /\ at' = mm.pp_link[at] /\ pc' = pc
     ELSE /\ touched' = {} /\ at' = mm.page_free_list /\ pc' = "check"
          /\ UNCHANGED mm
  /\ UNCHANGED <<machine, nextfree, kern_pgdir, pages, tp, pp, fl>>

(* The asserts on the pages of the list and on their number.               *)
CheckFreeList ==
  /\ pc = "check"
  /\ LET ok == /\ \A p \in Page : IsFree(mm, p) =>
                    /\ p \notin {0, machine.io, machine.ext - 1, machine.ext}
                    /\ p < machine.ext \/ p >= nextfree
               /\ \E p \in Page : IsFree(mm, p) /\ p < machine.ext
               /\ \E p \in Page : IsFree(mm, p) /\ p >= machine.ext
     IN mm' = IF ok THEN mm ELSE [mm EXCEPT !.status = "panic"]
  /\ pc' = "check_page_alloc" /\ touched' = {}
  /\ UNCHANGED <<machine, at, nextfree, kern_pgdir, pages, tp, pp, fl>>
-----------------------------------------------------------------------------
(* check_page_alloc and check_page use the interface and give back what    *)
(* they took.                                                              *)

Steal(s)      == [s EXCEPT !.page_free_list = NULL, !.free = <<>>]
GiveBack(s, t) == [s EXCEPT !.page_free_list = t.page_free_list, !.free = t.free]
Free3(s, p, q, r) == page_free(page_free(page_free(s, p), q), r)

(* The number of pages a walk along the links meets.                       *)
nfree(list, link) ==
  LET visit[i \in 0 .. npages] ==
        IF i = 0 THEN list ELSE IF visit[i - 1] = NULL THEN NULL ELSE link[visit[i - 1]]
  IN  Cardinality({i \in 0 .. npages : visit[i] # NULL})

check_page_alloc ==
  /\ pc = "check_page_alloc"
  /\ LET a0 == page_alloc(mm, 0)
         a1 == page_alloc(a0.st, 0)
         a2 == page_alloc(a1.st, 0)
         b0 == page_alloc(Free3(Steal(a2.st), a0.pp, a1.pp, a2.pp), 0)
         b1 == page_alloc(b0.st, 0)
         b2 == page_alloc(b1.st, 0)
         z  == page_alloc(page_free(Scribble(b2.st, b0.pp), b0.pp), 1)
         t  == Free3(GiveBack(z.st, a2.st), b0.pp, b1.pp, b2.pp)
         ok == /\ pages # NULL
               /\ {a0.pp, a1.pp, a2.pp} \subseteq Page
               /\ Cardinality({a0.pp, a1.pp, a2.pp}) = 3
               /\ page_alloc(Steal(a2.st), 0).pp = NULL
               /\ {b0.pp, b1.pp, b2.pp} = {a0.pp, a1.pp, a2.pp}
               /\ page_alloc(b2.st, 0).pp = NULL
               /\ z.pp = b0.pp /\ z.st.mem[z.pp] = [y \in PTX |-> ZeroPte]
               /\ nfree(t.page_free_list, t.pp_link) = nfree(mm.page_free_list, mm.pp_link)
     IN IF ok
        THEN mm' = t /\ touched' = {b0.pp}
        ELSE /\ mm' = [mm EXCEPT !.status = "panic"]
             /\ touched' = {}
  /\ pc' = "check_page"
  /\ UNCHANGED <<machine, at, nextfree, kern_pgdir, pages, tp, pp, fl>>

(* check_page, with the addresses 0, PGSIZE, PTSIZE and PGSIZE *           *)
(* NPDENTRIES + PGSIZE.  It steals the free list, makes do with its three  *)
(* pages, takes the page of the table back by force, and twice more to see *)
(* that pgdir_walk indexes and clears a new table.                         *)
V0 == <<0, 0>>
V1 == <<0, 1>>
W0 == <<1, 0>>
W1 == <<1, 1>>

check_page ==
  /\ pc = "check_page"
  /\ LET a0 == page_alloc(mm, 0)
         a1 == page_alloc(a0.st, 0)
         a2 == page_alloc(a1.st, 0)
     IN /\ mm' = IF /\ NULL \notin {a0.pp, a1.pp, a2.pp}
                    /\ Cardinality({a0.pp, a1.pp, a2.pp}) = 3
                 THEN Steal(a2.st) ELSE [mm EXCEPT !.status = "panic"]
        /\ pp' = <<a0.pp, a1.pp, a2.pp>>
        /\ fl' = [page_free_list |-> a2.st.page_free_list, free |-> a2.st.free]
  /\ pc' = "check_page_calls" /\ at' = 1
  /\ touched' = {}
  /\ UNCHANGED <<machine, nextfree, kern_pgdir, pages, tp>>

insert(s, p, v, perm) == page_insert(s, Kern, p, v, perm)
walk(s, v)            == pgdir_walk(s, Kern, v, TRUE)
find(s, v)            == pgdir_walk(s, Kern, v, FALSE)
Maps(s, v, p)         == IsMapped(s, Kern, v) /\ Pte(s, Kern, v).addr = p
NextIs(s, p)          == page_alloc(s, 0).pp = p

(* The permissions of a directory entry: mem_init writes that of UVPT,     *)
(* pgdir_walk the others, and nothing changes them.                        *)
PdePerm(s, x) ==
  IF s.pgdir[Kern][x] = NULL THEN {} ELSE IF x = UVPT THEN {"P", "U"} ELSE TablePerm
TakeTable(s, x)       == [s EXCEPT !.pgdir[Kern][x] = NULL, !.pp_ref[pp[1]] = 0]

(* The k-th call leaves s, and the asserts behind it are ok.               *)
Call(k, s, ok) ==
  /\ pc = "check_page_calls" /\ at = k
  /\ mm' = IF ok THEN s ELSE [mm EXCEPT !.status = "panic"]
  /\ touched' = {p \in Page : s.mem[p] # mm.mem[p]}
  /\ at' = k + 1
  /\ UNCHANGED <<machine, pc, nextfree, kern_pgdir, pages, tp, pp, fl>>

check_page_calls ==
  \/ LET i == insert(mm, pp[2], V0, {"W"}) IN  \* no memory for a table
     Call(1, i.st, NextIs(mm, NULL) /\ page_lookup(mm, Kern, V0).pp = NULL /\ i.ret # "OK")
  \/ LET i == insert(page_free(mm, pp[1]), pp[2], V0, {"W"}) IN
     Call(2, i.st, /\ i.ret = "OK" /\ i.st.pgdir[Kern][0] = pp[1]
                   /\ Maps(i.st, V0, pp[2])
                   /\ i.st.pp_ref[pp[2]] = 1 /\ i.st.pp_ref[pp[1]] = 1)
  \/ \E k \in {3, 4} :  \* the same page at the same address again
       LET i == insert(mm, pp[3], V1, {"W"}) IN
       Call(k, i.st, /\ i.ret = "OK" /\ Maps(i.st, V1, pp[3])
                     /\ i.st.pp_ref[pp[3]] = 1 /\ NextIs(i.st, NULL))
  \/ LET i == insert(mm, pp[3], V1, {"W", "U"}) IN
     Call(5, i.st, /\ find(mm, V1).pte = <<mm.pgdir[Kern][0], 1>>
                   /\ i.ret = "OK" /\ Maps(i.st, V1, pp[3]) /\ i.st.pp_ref[pp[3]] = 1
                   /\ "U" \in Pte(i.st, Kern, V1).perm /\ "U" \in PdePerm(i.st, 0))
  \/ LET i == insert(mm, pp[3], V1, {"W"}) IN
     Call(6, i.st, /\ i.ret = "OK" /\ "W" \in Pte(i.st, Kern, V1).perm
                   /\ "U" \notin Pte(i.st, Kern, V1).perm)
  \/ LET i == insert(mm, pp[1], W0, {"W"}) IN Call(7, i.st, i.ret # "OK")
  \/ LET i == insert(mm, pp[2], V1, {"W"}) IN
     Call(8, i.st, /\ i.ret = "OK" /\ "U" \notin Pte(i.st, Kern, V1).perm
                   /\ Maps(i.st, V0, pp[2]) /\ Maps(i.st, V1, pp[2])
                   /\ i.st.pp_ref[pp[2]] = 2 /\ i.st.pp_ref[pp[3]] = 0)
  \/ LET a == page_alloc(mm, 0)
         r == page_remove(a.st, Kern, V0) IN
     Call(9, r, /\ a.pp = pp[3] /\ ~IsMapped(r, Kern, V0) /\ Maps(r, V1, pp[2])
                /\ r.pp_ref[pp[2]] = 1 /\ r.pp_ref[pp[3]] = 0)
  \/ LET i == insert(mm, pp[2], V1, {}) IN
     Call(10, i.st, i.ret = "OK" /\ i.st.pp_ref[pp[2]] # 0 /\ i.st.pp_link[pp[2]] = NULL)
  \/ LET r == page_remove(mm, Kern, V1) IN
     Call(11, r, /\ ~IsMapped(r, Kern, V0) /\ ~IsMapped(r, Kern, V1)
                 /\ r.pp_ref[pp[2]] = 0 /\ r.pp_ref[pp[3]] = 0)
  \/ LET a == page_alloc(mm, 0) IN
     Call(12, TakeTable(a.st, 0), /\ a.pp = pp[2] /\ NextIs(a.st, NULL)
                                  /\ a.st.pgdir[Kern][0] = pp[1] /\ a.st.pp_ref[pp[1]] = 1)
  \/ LET w == walk(page_free(mm, pp[1]), W1) IN
     Call(13, TakeTable(w.st, 1), w.pte = <<w.st.pgdir[Kern][1], 1>>)
  \/ LET w == walk(page_free(Scribble(mm, pp[1]), pp[1]), V0).st IN
     Call(14, TakeTable(w, 0), \A y \in PTX : ~Present(w.mem[pp[1]][y]))

(* The pages and the free list are given back.                             *)
GiveBackAll ==
  /\ pc = "check_page_calls" /\ at = 15
  /\ mm' = Free3(GiveBack(mm, fl), pp[1], pp[2], pp[3])
  /\ pc' = "boot_map_region" /\ at' = <<1, 0>>
  /\ touched' = {}
  /\ UNCHANGED <<machine, nextfree, kern_pgdir, pages, tp, pp, fl>>

-----------------------------------------------------------------------------
(* The three calls of boot_map_region, with their sizes in bytes: PTSIZE,  *)
(* KSTKSIZE and 0xffffffff - KERNBASE, one byte less than what is there.   *)

Regions ==
  << [va |-> UPAGES * NPT, size |-> NPT * PGSIZE, pa |-> pages, perm |-> {"U"}],
     [va |-> (KSTACK + 1) * NPT - KSTK, size |-> KSTK * PGSIZE, pa |-> machine.ext,
      perm |-> {"W"}],
     [va |-> KERNBASE * NPT, size |-> KernTables * NPT * PGSIZE - 1, pa |-> 0,
      perm |-> {"W"}] >>

(* Mutant: the part of a page at the end is forgotten (line 412 missing).  *)
numpage_down(size) == size \div PGSIZE

numpage(size) == size \div PGSIZE + (IF size % PGSIZE # 0 THEN 1 ELSE 0)

(* The address of a page; every address beyond memory is the same.         *)
PhysPage(pa) == IF pa < npages THEN pa ELSE npages

(* Mutant: the mapping is counted, as page_insert does.                    *)
MapOneCounted(r, k) ==
  LET w == pgdir_walk(mm, Kern, VirtPage(r.va + k), TRUE)
      e == [addr |-> PhysPage(r.pa + k), perm |-> r.perm \cup {"P"}]
  IN  IF w.pte = NULL THEN [w.st EXCEPT !.status = "panic"]
      ELSE IF e.addr \in Page THEN page_incref(store(w.st, w.pte, e), e.addr)
      ELSE store(w.st, w.pte, e)

(* One iteration: the k-th page of region r.                               *)
MapOne(r, k) ==
  LET w == pgdir_walk(mm, Kern, VirtPage(r.va + k), TRUE)
      e == [addr |-> PhysPage(r.pa + k), perm |-> r.perm \cup {"P"}]
  IN  IF w.pte = NULL THEN [w.st EXCEPT !.status = "panic"] ELSE store(w.st, w.pte, e)

boot_map_region ==
  /\ pc = "boot_map_region"
  /\ IF at[1] > Len(Regions)
     THEN /\ pc' = "check_kern_pgdir" /\ touched' = {}
          /\ UNCHANGED <<mm, at>>
     ELSE LET r == Regions[at[1]] IN
          IF at[2] = numpage(r.size)
          THEN /\ at' = <<at[1] + 1, 0>> /\ touched' = {}
               /\ UNCHANGED <<mm, pc>>
          ELSE /\ mm' = MapOne(r, at[2])
               /\ at' = <<at[1], at[2] + 1>>
               /\ touched' = {mm'.pgdir[Kern][VirtPage(r.va + at[2])[1]]} \ {NULL}
               /\ UNCHANGED pc
  /\ UNCHANGED <<machine, nextfree, kern_pgdir, pages, tp, pp, fl>>

(* check_va2pa of the k-th page above region base, NULL for ~0.          *)
Mapped(x, k) ==
  LET v == VirtPage(x * NPT + k) IN
  IF IsMapped(mm, Kern, v) THEN Pte(mm, Kern, v).addr ELSE NULL

(* check_kern_pgdir asserts that pages[] is mapped, then that envs[] is.   *)
(* env.c:15 defines envs as NULL, nothing assigns it, and PADDR of NULL    *)
(* panics: the asserts behind that are not reached.                        *)
check_kern_pgdir ==
  /\ pc = "check_kern_pgdir"
  /\ mm' = IF \A k \in 0 .. PagesSize - 1 : Mapped(UPAGES, k) = pages + k
           THEN mm ELSE [mm EXCEPT !.status = "panic"]
  /\ pc' = "check_envs" /\ touched' = {}
  /\ UNCHANGED <<machine, at, nextfree, kern_pgdir, pages, tp, pp, fl>>

envs == NULL
check_envs ==
  /\ pc = "check_envs"
  /\ mm' = IF envs = NULL THEN [mm EXCEPT !.status = "panic"] ELSE mm
  /\ pc' = "check_phys_mem" /\ touched' = {}
  /\ UNCHANGED <<machine, at, nextfree, kern_pgdir, pages, tp, pp, fl>>

Next ==
  /\ mm.status = "run"
  /\ \/ AllocKernPgdir \/ AllocPages \/ page_init
     \/ Move \/ Join \/ Fill \/ CheckFreeList
     \/ check_page_alloc \/ check_page \/ check_page_calls \/ GiveBackAll
     \/ boot_map_region \/ check_kern_pgdir \/ check_envs

Spec == Init /\ [][Next]_vars

-----------------------------------------------------------------------------
(* Properties.                                                             *)

ListBuilt == pc \notin {"kern_pgdir", "pages", "page_init", "reorder"}

(* check_page steals the free list and holds pages without counting them.  *)
Checking == pc = "check_page_calls"

(* page_init and the relinking of check_page_free_list leave a proper      *)
(* list: the pages entry_pgdir maps, then the others, each kind in the     *)
(* order page_init gave it, ended by NULL; and check_page leaves it so.    *)
FreeListRelinked == ListBuilt /\ ~Checking => ChainOK(mm)

(* No page the machine or the kernel uses is ever free: page 0, the hole,  *)
(* the kernel, its page directory, pages[].  A page is free, or counted    *)
(* once for what boot did with it: the static mappings of boot_map_region  *)
(* change no reference count, and the checks give back all they took.      *)
PagesAccounted ==
  /\ \A p \in Page : IsFree(mm, p) =>
       p # 0 /\ ~(machine.io <= p /\ p < machine.ext)
             /\ (p >= machine.ext => p >= nextfree)
  /\ ListBuilt /\ ~Checking =>
       \A p \in Page : /\ IsFree(mm, p) <=> mm.pp_ref[p] = 0
                       /\ mm.pp_ref[p] = 1 <=> InUse(p) \/ IsTable(mm, p)

(* Until kern_pgdir is loaded the processor uses entry_pgdir, which maps   *)
(* NPT pages: nothing else is written, so boot takes no page fault.        *)
WritesOnlyMapped == \A p \in touched : p < NPT

(* The asserts of boot hold, those on pages[] in check_kern_pgdir too: the *)
(* first and only panic is that at the address of envs, behind them.       *)
SelfChecksPass == mm.status = "panic" => pc = "check_phys_mem"

(* When kern_pgdir is complete, pages[] is at UPAGES, the stack below the  *)
(* end of its region and nothing under it, and at KERNBASE there is every  *)
(* address up to the last page of the address space, which boot_map_region *)
(* is asked for but for its last byte; no other table is there.            *)
KernelMapsMemory ==
  pc = "check_kern_pgdir" =>
    /\ \A k \in 0 .. PagesSize - 1 : Mapped(UPAGES, k) = pages + k
    /\ \A k \in 0 .. KernTables * NPT - 1 : Mapped(KERNBASE, k) = PhysPage(k)
    /\ \A k \in 0 .. NPT - KSTK - 1 : Mapped(KSTACK, k) = NULL
    /\ \A k \in 0 .. KSTK - 1 : Mapped(KSTACK, NPT - KSTK + k) = machine.ext + k
    /\ \A x \in PDX : mm.pgdir[Kern][x] # NULL <=>
         x \in {UVPT, UPAGES, KSTACK} \cup (KERNBASE .. KERNBASE + KernTables - 1)

-----------------------------------------------------------------------------
(* A statement of a comment that the code does not keep.                   *)

(* pmap.c:94, boot_alloc: the memory it gives begins at "the first virtual *)
(* address that the linker did *not* assign to any kernel code or global   *)
(* variables", so that boot writes over no variable.                       *)
VariablesKept == machine.vars \notin touched
=============================================================================
