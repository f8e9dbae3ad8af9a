------------------------------ MODULE PmapOps -------------------------------
(***************************************************************************)
(* The functions of kern/pmap.c: the physical page allocator and the       *)
(* two-level page tables, with the TLB of the processor they run on.       *)
(*                                                                         *)
(* Each C function is an operator from the state before the call to the    *)
(* state after it (and its result), so that page_insert composes           *)
(* pgdir_walk, page_remove, page_decref and page_free in exactly the order *)
(* of the C statements.  The modules that call them are Pmap, the kernel   *)
(* that uses the interface, and MemInit, the boot sequence.                *)
(*                                                                         *)
(* A physical page is its index in the array pages[]; a virtual page is a  *)
(* pair of a directory index and a table index.                            *)
(***************************************************************************)
EXTENDS Integers, Sequences, FiniteSets

CONSTANTS
  npages,      \* number of physical pages (npages in the code)
  Pgdirs,      \* the page directories
  PDX, PTX,    \* the directory and the table indices of a virtual page
  RefMod,      \* pp_ref counts modulo RefMod: 2^16 for a uint16_t
  NULL         \* the null pointer

Page == 0 .. npages - 1
VA   == PDX \X PTX

ASSUME PagesAssumption ==
  /\ npages \in Nat
  /\ NULL \notin Page /\ NULL \notin Page \X PTX
ASSUME TablesAssumption ==
  IsFiniteSet(Pgdirs) /\ IsFiniteSet(PDX) /\ IsFiniteSet(PTX)
ASSUME RefModAssumption == RefMod \in Nat /\ RefMod > 1

(***************************************************************************)
(* Page table entries: a page number and permission bits, of which "P" is  *)
(* PTE_P.  A zeroed entry names page 0.  npages stands for every physical  *)
(* address beyond the last page.  Junk is the entry a scribbled page seems *)
(* to hold: 0x97979797 for the fill of check_page_free_list is present and *)
(* beyond memory.                                                          *)
(***************************************************************************)
Entry    == [addr : 0 .. npages, perm : SUBSET {"P", "W", "U"}]
ZeroPte  == [addr |-> 0, perm |-> {}]
Junk     == [addr |-> npages, perm |-> {"P", "W", "U"}]
Present(pte) == "P" \in pte.perm

Scribbled == [y \in PTX |-> Junk]

(* The state of the memory manager and of the processor.                   *)
MMType ==
  [ pp_ref         : [Page -> 0 .. RefMod - 1],
    pp_link        : [Page -> Page \cup {NULL}],
    page_free_list : Page \cup {NULL},
    pgdir          : [Pgdirs -> [PDX -> Page \cup {NULL}]],
    mem            : [Page -> [PTX -> Entry]],       \* every page, read as a table
    cr3            : Pgdirs,
    tlb            : [VA -> Entry \cup {NULL}],
    status         : {"run", "panic"},
    free           : Seq(Page) ]  \* auxiliary: the free list, its head at the end

-----------------------------------------------------------------------------
(* The page allocator.                                                     *)

(* Mutant: the page taken keeps its link (line 310 missing).               *)
page_alloc_keeps_link(s, alloc_flags) ==
  LET pp == s.page_free_list IN
  IF pp = NULL
  THEN [st |-> s, pp |-> NULL]
  ELSE [st |-> [s EXCEPT !.page_free_list = s.pp_link[pp],
                         !.mem[pp]  = [y \in PTX |-> ZeroPte],
                         !.free     = SubSeq(@, 1, Len(@) - 1)],
        pp |-> pp]

(* Mutant: the head of the list does not move (line 309 missing).          *)
page_alloc_keeps_head(s, alloc_flags) ==
  LET pp == s.page_free_list IN
  IF pp = NULL
  THEN [st |-> s, pp |-> NULL]
  ELSE [st |-> [s EXCEPT !.pp_link[pp] = NULL,
                         !.mem[pp] = [y \in PTX |-> ZeroPte]],
        pp |-> pp]

(* page_alloc tests alloc_flags && ALLOC_ZERO: any flag zeroes the page.   *)
page_alloc(s, alloc_flags) ==
  LET pp == s.page_free_list IN
  IF pp = NULL
  THEN [st |-> s, pp |-> NULL]
  ELSE [st |-> [s EXCEPT
                  !.page_free_list = s.pp_link[pp],
                  !.pp_link[pp]    = NULL,
                  !.mem[pp]        = IF alloc_flags # 0
                                     THEN [y \in PTX |-> ZeroPte] ELSE @,
                  !.free           = SubSeq(@, 1, Len(@) - 1)],
        pp |-> pp]

page_free(s, pp) ==
  IF s.pp_ref[pp] = 0 /\ s.pp_link[pp] = NULL
  THEN [s EXCEPT !.pp_link[pp]    = s.page_free_list,
                 !.page_free_list = pp,
                 !.free           = Append(@, pp)]
  ELSE [s EXCEPT !.status = "panic"]

page_decref(s, pp) ==
  LET t == [s EXCEPT !.pp_ref[pp] = (@ - 1) % RefMod] IN
  IF t.pp_ref[pp] = 0 THEN page_free(t, pp) ELSE t

page_incref(s, pp) == [s EXCEPT !.pp_ref[pp] = (@ + 1) % RefMod]

-----------------------------------------------------------------------------
(* The page tables.  A pointer to a table entry is the pair of the page    *)
(* that holds the table and the index in it.                               *)

(* Mutant: the new table is not cleared (page_alloc(0)).                   *)
pgdir_walk_dirty(s, d, v, create) ==
  LET pde == s.pgdir[d][v[1]] IN
  IF pde # NULL
  THEN [st |-> s, pte |-> <<pde, v[2]>>]
  ELSE LET a == page_alloc(s, 0) IN
       IF ~create \/ a.pp = NULL
       THEN [st |-> s, pte |-> NULL]
       ELSE [st  |-> [page_incref(a.st, a.pp) EXCEPT !.pgdir[d][v[1]] = a.pp],
             pte |-> <<a.pp, v[2]>>]

(* PTE_P|PTE_W|PTE_U, in the directory entry of a table pgdir_walk makes.   *)
TablePerm == {"P", "W", "U"}

pgdir_walk(s, d, v, create) ==
  LET pde == s.pgdir[d][v[1]] IN
  IF pde # NULL
  THEN [st |-> s, pte |-> <<pde, v[2]>>]
  ELSE LET a == page_alloc(s, 1) IN
       IF ~create \/ a.pp = NULL
       THEN [st |-> s, pte |-> NULL]
       ELSE [st  |-> [page_incref(a.st, a.pp) EXCEPT !.pgdir[d][v[1]] = a.pp],
             pte |-> <<a.pp, v[2]>>]

load(s, pte)     == s.mem[pte[1]][pte[2]]
store(s, pte, e) == [s EXCEPT !.mem[pte[1]][pte[2]] = e]

(* page_lookup does not test PTE_P: it resolves whatever address the entry *)
(* holds, and pa2page panics on one beyond memory.                         *)
page_lookup(s, d, v) ==
  LET w == pgdir_walk(s, d, v, FALSE) IN
  IF w.pte = NULL
  THEN [st |-> s, pp |-> NULL, pte |-> NULL]
  ELSE LET a == load(s, w.pte).addr IN
       IF a \in Page
       THEN [st |-> s, pp |-> a, pte |-> w.pte]
       ELSE [st |-> [s EXCEPT !.status = "panic"], pp |-> NULL, pte |-> w.pte]

(* invlpg acts on the translations of the current directory, whichever     *)
(* directory was edited.                                                   *)
tlb_invalidate(s, v) == [s EXCEPT !.tlb[v] = NULL]

(* Mutant: the TLB keeps the translation (line 512 missing).               *)
page_remove_no_flush(s, d, v) ==
  LET l == page_lookup(s, d, v) IN
  IF l.pp = NULL THEN l.st ELSE store(page_decref(s, l.pp), l.pte, ZeroPte)

(* Mutant: the page is never given back (line 510 missing).                *)
page_remove_no_decref(s, d, v) ==
  LET l == page_lookup(s, d, v) IN
  IF l.pp = NULL THEN l.st ELSE tlb_invalidate(store(s, l.pte, ZeroPte), v)

page_remove(s, d, v) ==
  LET l == page_lookup(s, d, v) IN
  IF l.pp = NULL
  THEN l.st
  ELSE tlb_invalidate(store(page_decref(s, l.pp), l.pte, ZeroPte), v)

(* Mutant: the reference is taken after page_remove, the trap of the       *)
(* corner-case hint at line 436.                                           *)
page_insert_late_ref(s, d, pp, v, perm) ==
  LET w == pgdir_walk(s, d, v, TRUE) IN
  IF w.pte = NULL
  THEN [st |-> w.st, ret |-> "E_NO_MEM"]
  ELSE LET u == page_incref(IF Present(load(w.st, w.pte))
                            THEN page_remove(w.st, d, v) ELSE w.st, pp)
       IN  [st  |-> store(u, w.pte, [addr |-> pp, perm |-> perm \cup {"P"}]),
            ret |-> "OK"]

(* Mutant: the page mapped before is overwritten, not removed.             *)
page_insert_overwrites(s, d, pp, v, perm) ==
  LET w == pgdir_walk(s, d, v, TRUE) IN
  IF w.pte = NULL
  THEN [st |-> w.st, ret |-> "E_NO_MEM"]
  ELSE [st  |-> store(page_incref(w.st, pp), w.pte,
                      [addr |-> pp, perm |-> perm \cup {"P"}]),
        ret |-> "OK"]

page_insert(s, d, pp, v, perm) ==
  LET w == pgdir_walk(s, d, v, TRUE) IN
  IF w.pte = NULL
  THEN [st |-> w.st, ret |-> "E_NO_MEM"]
  ELSE LET t == page_incref(w.st, pp)
           u == IF Present(load(t, w.pte)) THEN page_remove(t, d, v) ELSE t
       IN  [st  |-> store(u, w.pte, [addr |-> pp, perm |-> perm \cup {"P"}]),
            ret |-> "OK"]

-----------------------------------------------------------------------------
(* What the tables say.                                                    *)

(* The page that holds the table of v, and the entry for v.                *)
HasTable(s, d, v) == s.pgdir[d][v[1]] # NULL
Pte(s, d, v)      == s.mem[s.pgdir[d][v[1]]][v[2]]
IsMapped(s, d, v) == HasTable(s, d, v) /\ Present(Pte(s, d, v))

Mappings(s, p) ==
  {m \in Pgdirs \X VA : IsMapped(s, m[1], m[2]) /\ Pte(s, m[1], m[2]).addr = p}
IsTable(s, p)  == \E d \in Pgdirs, x \in PDX : s.pgdir[d][x] = p
IsData(s, p)   == \E m \in Pgdirs \X VA :
                    IsMapped(s, m[1], m[2]) /\ Pte(s, m[1], m[2]).addr = p
IsFree(s, p)   == \E i \in 1 .. Len(s.free) : s.free[i] = p

(* The links from page_free_list visit the free pages, each once, and end  *)
(* with NULL, and no other page has a link: page_alloc and page_free never *)
(* lose a page, cut the list or close it to a cycle.                       *)
ChainOK(s) ==
  LET n == Len(s.free) IN
  /\ s.page_free_list = IF n = 0 THEN NULL ELSE s.free[n]
  /\ \A i \in 1 .. n :
       s.pp_link[s.free[i]] = IF i = 1 THEN NULL ELSE s.free[i - 1]
  /\ \A i, j \in 1 .. n : s.free[i] = s.free[j] => i = j
  /\ \A p \in Page : ~IsFree(s, p) => s.pp_link[p] = NULL
=============================================================================
