------------------------------ MODULE VirtMem -------------------------------
(***************************************************************************)
(* What kern/pmap.c promises its callers: address spaces that are partial  *)
(* maps from virtual to physical pages, and a pool of physical pages to    *)
(* which a page returns exactly when its last mapping goes.  There are no  *)
(* reference counts, no list links and no table contents here.             *)
(***************************************************************************)
EXTENDS Integers, FiniteSets

CONSTANTS Page, Reserved, Pgdirs, PDX, PTX, Perms, NULL

VA   == PDX \X PTX
Slot == Pgdirs \X VA

VARIABLES
  vm,      \* the page and the permissions each address space has at each page
  tables,  \* the page that holds the table of each directory slot
  pool,    \* the free pages
  held     \* pages the caller owns and has not mapped
vars == <<vm, tables, pool, held>>

Mapped(f) == {f[m].page : m \in {n \in Slot : f[n] # NULL}}

Init ==
  /\ vm = [m \in Slot |-> NULL]
  /\ tables = [t \in Pgdirs \X PDX |-> NULL]
  /\ pool = Page \ Reserved
  /\ held = {}

Alloc ==
  \E p \in pool :
    /\ pool' = pool \ {p}
    /\ held' = held \cup {p}
    /\ UNCHANGED <<vm, tables>>

Free ==
  \E p \in held :
    /\ held' = held \ {p}
    /\ pool' = pool \cup {p}
    /\ UNCHANGED <<vm, tables>>

(* The page that becomes the table of a slot comes from the pool.          *)
NewTable(d, x, T) ==
  IF tables[<<d, x>>] # NULL
  THEN T = {} /\ UNCHANGED tables
  ELSE \E p \in pool : T = {p} /\ tables' = [tables EXCEPT ![<<d, x>>] = p]

(* Mapping a page replaces what was there, whose page returns to the pool  *)
(* if nothing else maps it.                                                *)
Map ==
  \E d \in Pgdirs, v \in VA, p \in held \cup Mapped(vm), perm \in Perms,
     T \in {{}} \cup {{q} : q \in pool} :
    /\ NewTable(d, v[1], T)
    /\ vm' = [vm EXCEPT ![<<d, v>>] = [page |-> p, perm |-> perm]]
    /\ pool' = (pool \ T) \cup (Mapped(vm) \ Mapped(vm'))
    /\ held' = held \ {p}

Unmap ==
  \E d \in Pgdirs, v \in VA :
    /\ vm[<<d, v>>] # NULL
    /\ vm' = [vm EXCEPT ![<<d, v>>] = NULL]
    /\ pool' = pool \cup (Mapped(vm) \ Mapped(vm'))
    /\ UNCHANGED <<tables, held>>

Table ==
  \E d \in Pgdirs, x \in PDX, p \in pool :
    /\ NewTable(d, x, {p})
    /\ pool' = pool \ {p}
    /\ UNCHANGED <<vm, held>>

Next == Alloc \/ Free \/ Map \/ Unmap \/ Table

Spec == Init /\ [][Next]_vars
=============================================================================
