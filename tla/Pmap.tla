-------------------------------- MODULE Pmap --------------------------------
(***************************************************************************)
(* A kernel that uses the interface of kern/pmap.c as its comments ask:    *)
(* the calls it may make, and what the allocator and the page tables       *)
(* promise in every sequence of them.                                      *)
(*                                                                         *)
(* The kernel runs with interrupts disabled on one processor, so a call of *)
(* the C interface is one step.  The part of a page directory modelled is  *)
(* the part page_insert and page_remove work on: the static mappings of    *)
(* mem_init above UTOP are not in it.                                      *)
(***************************************************************************)
EXTENDS PmapState

VARIABLES
  mm,    \* the memory manager: the fields listed in MMType
  held   \* pages got from page_alloc, neither mapped nor given back yet
vars == <<mm, held>>

(* A translation is never taken for the absence of one (see Spaces).       *)
ASSUME TranslationAssumption ==
  NULL \notin [page : Page, perm : SUBSET {"W", "U"}]

-----------------------------------------------------------------------------
Init ==
  /\ mm = Boot
  /\ held = {}

(* Mutant: the caller does not test the page for NULL.                     *)
AllocUntested(flags) ==
  LET r == page_alloc(mm, flags) IN
  /\ mm' = r.st
  /\ held' = held \cup {r.pp}

(* struct PageInfo * = page_alloc(flags), which may fail.                  *)
Alloc(flags) ==
  LET r == page_alloc(mm, flags) IN
  /\ mm' = r.st
  /\ held' = held \cup ({r.pp} \ {NULL})

(* page_free of a page that was never mapped.                              *)
Free(p) ==
  /\ p \in held
  /\ mm' = page_free(mm, p)
  /\ held' = held \ {p}

(* page_insert of a new page, or of one that is mapped already.            *)
Insert(d, p, v, perm) ==
  /\ p \in held \/ IsData(mm, p)
  /\ LET r == page_insert(mm, d, p, v, perm) IN
     /\ mm' = r.st
     /\ held' = IF r.ret = "OK" THEN held \ {p} ELSE held

(* page_remove of a page that is mapped.                                   *)
Remove(d, v) ==
  /\ IsMapped(mm, d, v)
  /\ mm' = page_remove(mm, d, v)
  /\ UNCHANGED held

(* pgdir_walk with create, as boot_map_region and check_page call it.      *)
Walk(d, v) ==
  /\ mm' = pgdir_walk(mm, d, v, TRUE).st
  /\ UNCHANGED held

(* The kernel writes a page it holds through its alias above KERNBASE.     *)
WriteHeld(p) ==
  /\ p \in held
  /\ mm' = [mm EXCEPT !.mem[p] = Scribbled]
  /\ UNCHANGED held

(* The processor caches the translation of v.                              *)
TlbFill(v) ==
  /\ IsMapped(mm, mm.cr3, v)
  /\ mm' = Translate(mm, v)
  /\ UNCHANGED held

(* A store through v with a cached translation (CR0_WP is set).            *)
Store(v) ==
  /\ mm.tlb[v] # NULL
  /\ "W" \in mm.tlb[v].perm
  /\ mm.tlb[v].addr \in Page
  /\ mm' = [mm EXCEPT !.mem[mm.tlb[v].addr] = Scribbled]
  /\ UNCHANGED held

Lcr3(d) ==
  /\ mm' = lcr3(mm, d)
  /\ UNCHANGED held

OtherCall ==
  \/ \E flags \in {0, 1} : Alloc(flags)
  \/ \E p \in Page : Free(p) \/ WriteHeld(p)
  \/ \E d \in Pgdirs, v \in VA : Remove(d, v) \/ Walk(d, v)
  \/ \E v \in VA : TlbFill(v) \/ Store(v)
  \/ \E d \in Pgdirs : Lcr3(d)

Next ==
  /\ mm.status = "run"
  /\ \/ OtherCall
     \/ \E d \in Pgdirs, p \in Page, v \in VA, perm \in Perms :
          RefFits(mm, p) /\ Insert(d, p, v, perm)

Spec == Init /\ [][Next]_vars

(* The same kernel without the bound on the mappings of a page.            *)
NextManyMappings ==
  /\ mm.status = "run"
  /\ \/ OtherCall
     \/ \E d \in Pgdirs, p \in Page, v \in VA, perm \in Perms :
          Insert(d, p, v, perm)

SpecManyMappings == Init /\ [][NextManyMappings]_vars

-----------------------------------------------------------------------------
(* Properties.                                                             *)

(* The state is well formed: every link, entry and count is in its range,  *)
(* a client holds pages only.                                              *)
TypeOK == mm \in MMType /\ held \subseteq Page

(* The free list is what page_init made it, whatever page_alloc and        *)
(* page_free did since: it loses no page, is never cut nor closed to a     *)
(* cycle (see ChainOK in PmapOps).                                         *)
FreeListIsChain == ChainOK(mm)

(* The count of every page is exact: page_free is called exactly when the  *)
(* last mapping of a page goes.                                            *)
RefCountExact == RefsOK(mm, {})

(* Each page has exactly one use: reserved, free, held by the client, a    *)
(* page table, or data that some entry maps.  A free page is never mapped, *)
(* a table is never mapped as data, and no page is lost.                   *)
PagesPartitioned == Disjoint(mm, held) /\ Covered(mm, held)

(* Editing one address space never edits another, and the garbage a free   *)
(* page held is never taken for entries when it becomes a table.           *)
TablesWellFormed == Private(mm) /\ Clean(mm)

(* A cached translation is the one in the current directory's tables, so   *)
(* no store reaches a page after page_remove or page_insert took it away.  *)
TlbCoherent == Coherent(mm)

(* A caller that respects the interface never meets the panic of page_free *)
(* ("This page is being used!") or of pa2page.                             *)
NoPanic == mm.status = "run"

(* What VirtMem sees of the memory manager: the translations, the pages    *)
(* that hold the tables, the pages page_alloc can hand out.                *)
Spaces(s) ==
  [m \in Pgdirs \X VA |->
     IF IsMapped(s, m[1], m[2])
     THEN [page |-> Pte(s, m[1], m[2]).addr, perm |-> Pte(s, m[1], m[2]).perm \ {"P"}]
     ELSE NULL]
Tables(s) == [t \in Pgdirs \X PDX |-> s.pgdir[t[1]][t[2]]]
Pool(s)   == {p \in Page : IsFree(s, p)}

VM == INSTANCE VirtMem WITH
        vm <- Spaces(mm), tables <- Tables(mm), pool <- Pool(mm)

(* Every call does to the address spaces and the pool what VirtMem says it *)
(* does: at most one translation changes, and a page returns to the pool   *)
(* exactly when its last mapping goes.                                     *)
ImplementsVirtMem == VM!Spec

-----------------------------------------------------------------------------
(* A statement of the comments of pmap.c that the code does not keep.      *)

(* pmap.c:490, page_remove: "If there is no physical page at that address, *)
(* silently does nothing."                                                 *)
RemoveOfUnmappedDoesNothing ==
  \A d \in Pgdirs, v \in VA :
    ~IsMapped(mm, d, v) => LET s == page_remove(mm, d, v) IN
                           s.pp_ref = mm.pp_ref /\ s.free = mm.free
=============================================================================
