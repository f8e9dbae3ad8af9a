----------------------------- MODULE PmapState ------------------------------
(***************************************************************************)
(* The memory manager as page_init leaves it, and what pmap.c keeps true   *)
(* of it.  The kernels that call the functions of PmapOps, in Pmap and in  *)
(* Env, start from this state and are checked against these conditions.    *)
(***************************************************************************)
EXTENDS PmapOps

CONSTANTS
  Reserved,    \* the pages page_init leaves off the free list
  FreeOrder,   \* the initial free list, the page handed out first at the end
  KernPgdir,   \* kern_pgdir, the directory loaded by mem_init
  Perms        \* the permissions a caller of page_insert passes

ASSUME ReservedAssumption == Reserved \subseteq Page
ASSUME FreeOrderAssumption ==
  /\ FreeOrder \in Seq(Page \ Reserved)
  /\ \A i, j \in 1 .. Len(FreeOrder) : FreeOrder[i] = FreeOrder[j] => i = j
  /\ \A p \in Page \ Reserved : \E i \in 1 .. Len(FreeOrder) : FreeOrder[i] = p
ASSUME ClientAssumption ==
  KernPgdir \in Pgdirs /\ Perms \subseteq SUBSET {"W", "U"}

Boot ==
  [ pp_ref         |-> [p \in Page |-> IF p \in Reserved THEN 1 ELSE 0],
    pp_link        |-> [p \in Page |->
                          IF \E i \in 2 .. Len(FreeOrder) : FreeOrder[i] = p
                          THEN FreeOrder[(CHOOSE i \in 2 .. Len(FreeOrder) :
                                            FreeOrder[i] = p) - 1]
                          ELSE NULL],
    page_free_list |-> IF FreeOrder = <<>> THEN NULL
                       ELSE FreeOrder[Len(FreeOrder)],
    pgdir          |-> [d \in Pgdirs |-> [x \in PDX |-> NULL]],
    mem            |-> [p \in Page |-> Scribbled],
    cr3            |-> KernPgdir,
    tlb            |-> [v \in VA |-> NULL],
    status         |-> "run",
    free           |-> FreeOrder ]

(* Loading cr3 drops every cached translation.                             *)
lcr3(s, d) == [s EXCEPT !.cr3 = d, !.tlb = [v \in VA |-> NULL]]

(* The processor caches the translation of v.                              *)
Translate(s, v) == [s EXCEPT !.tlb[v] = Pte(s, s.cr3, v)]

(* The width of pp_ref: no page has RefMod mappings.                       *)
RefFits(s, p) == Cardinality(Mappings(s, p)) + 1 < RefMod

-----------------------------------------------------------------------------
(* "pp_ref is the count of pointers to this page" (struct PageInfo): the   *)
(* entries that map it, or the directory slot that names it as a table.    *)
(* X is the set of pages counted once more: the one page_insert has        *)
(* counted and not mapped yet, the directories of environments.            *)
RefsOK(s, X) ==
  \A p \in Page \ Reserved :
    s.pp_ref[p] = IF IsTable(s, p) THEN 1
                  ELSE Cardinality(Mappings(s, p)) + (IF p \in X THEN 1 ELSE 0)

(* Each page has at most one use: reserved, in the set H that the kernel   *)
(* keeps for itself, free, a page table, or data that some entry maps.     *)
Disjoint(s, H) ==
  \A p \in Page :
    /\ p \in Reserved => p \notin H /\ ~IsFree(s, p) /\ ~IsTable(s, p) /\ ~IsData(s, p)
    /\ IsFree(s, p) => p \notin H /\ ~IsTable(s, p) /\ ~IsData(s, p)
    /\ p \in H => ~IsTable(s, p) /\ ~IsData(s, p)
    /\ IsTable(s, p) => ~IsData(s, p)

(* Each page has at least one.                                             *)
Covered(s, H) ==
  \A p \in Page : p \in Reserved \/ p \in H \/ IsFree(s, p) \/ IsTable(s, p) \/ IsData(s, p)

(* No two directory slots share a page table.                              *)
Private(s) ==
  \A d, e \in Pgdirs, x, y \in PDX :
    s.pgdir[d][x] # NULL /\ s.pgdir[d][x] = s.pgdir[e][y] => d = e /\ x = y

(* Every entry of a page table is zero or maps a page of memory.           *)
Clean(s) ==
  \A d \in Pgdirs, v \in VA :
    HasTable(s, d, v) =>
      \/ Pte(s, d, v) = ZeroPte
      \/ Present(Pte(s, d, v)) /\ Pte(s, d, v).addr \in Page

(* A cached translation is the one in the current directory's tables.      *)
Coherent(s) ==
  \A v \in VA :
    s.tlb[v] # NULL => IsMapped(s, s.cr3, v) /\ s.tlb[v] = Pte(s, s.cr3, v)
=============================================================================
