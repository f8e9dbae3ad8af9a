------------------------------ MODULE EnvProofs ------------------------------
(***************************************************************************)
(* The safety of Env for every number of slots, generations, pages and     *)
(* every shape of the address spaces.                                      *)
(***************************************************************************)
EXTENDS Env, PmapLemmas, WellFoundedInduction

-----------------------------------------------------------------------------
(* Induction over the natural numbers.  It speaks of a set, where that of  *)
(* the library has an operator for its parameter.                          *)

(* A set of natural numbers has a least element, so one that holds 0 and   *)
(* each successor holds them all.                                          *)
LEMMA LeastNat ==
  ASSUME NEW T \in SUBSET Nat, T # {}
  PROVE  \E x \in T : \A y \in T : ~(y < x)
<1> DEFINE R == OpToRel(<, Nat)
<1>1. IsWellFoundedOn(R, Nat)
  BY NatLessThanWellFounded
<1>2. \E x \in T : \A y \in T : ~(<<y, x>> \in R)
  <2> HIDE DEF R
  <2> QED
    BY <1>1, WFMin
<1>3. \A x, y \in Nat : y < x => <<y, x>> \in R
  BY DEF OpToRel
<1> QED
  BY <1>2, <1>3

LEMMA SetInduction ==
  ASSUME NEW S, 0 \in S, \A n \in Nat : n \in S => n + 1 \in S
  PROVE  Nat \subseteq S
<1> DEFINE T == Nat \ S
<1> SUFFICES ASSUME T # {} PROVE FALSE
  OBVIOUS
<1>1. PICK x \in T : \A y \in T : ~(y < x)
  BY LeastNat
<1>2. x # 0 /\ x - 1 \in Nat /\ x - 1 \notin T
  BY <1>1
<1> QED
  BY <1>1, <1>2

-----------------------------------------------------------------------------
(* The inductive invariant, in parts.                                      *)

Statuses == {"FREE", "RUNNABLE", "RUNNING"}
EnvType ==
  [ env_id : Ids \cup {0}, env_parent_id : Ids \cup {0}, env_status : Statuses,
    env_link : Slot \cup {NULL}, env_pgdir : Page \cup {NULL}, env_tf : Ids \cup {0} ]
FreeingType ==
  [ env : Slot, pdeno : 0 .. Cardinality(PDX), then : {"kernel", "trap", "monitor"} ]

TypeOK ==
  /\ mm \in MMType
  /\ envs \in [Slot -> EnvType]
  /\ env_free_list \in Slot \cup {NULL}
  /\ curenv \in Slot \cup {NULL}
  /\ mode \in Modes
  /\ freeing \in FreeingType \cup {NULL}
  /\ old \in [Slot -> Seq(Ids)]
  /\ creator \in [Slot -> [env : Slot \cup {NULL}, age : 0 .. Generations]]

Used(e) == envs[e].env_status # "FREE"

(* Who the kernel works for, and whose directory is loaded.                *)
ForCurenv == mode \in {"user", "trap"} \/ (mode = "free" /\ freeing.then = "trap")
Control ==
  /\ mode = "free" <=> freeing # NULL
  /\ mode = "free" =>
       /\ Used(freeing.env) /\ mm.cr3 # freeing.env
       /\ freeing.then = "trap" => freeing.env # curenv
  /\ ForCurenv => curenv \in Slot /\ envs[curenv].env_status = "RUNNING"
  /\ mm.cr3 # KernPgdir => mm.cr3 = curenv /\ Used(mm.cr3)
  /\ mode = "user" => mm.cr3 = curenv

(* A slot in use has a directory of its own, and no other has tables.      *)
(* env_free is past the tables it has given back.                          *)
Spaces ==
  /\ \A e \in Slot : Used(e) <=> envs[e].env_pgdir # NULL
  /\ \A e, f \in Slot :
       envs[e].env_pgdir # NULL /\ envs[e].env_pgdir = envs[f].env_pgdir => e = f
  /\ \A d \in Pgdirs, x \in PDX :
       mm.pgdir[d][x] # NULL =>
         d \in Slot /\ Used(d) /\ (mode = "free" /\ d = freeing.env => x >= freeing.pdeno)

Memory ==
  /\ mm.status = "run" => Inv(mm, Directories, Directories)
  /\ Coherent(mm)

(* The n slots q[1], ..., q[n] are the free list.                           *)
IsList(n, q) ==
  /\ env_free_list = IF n = 0 THEN NULL ELSE q[1]
  /\ \A i \in 1 .. n : envs[q[i]].env_link = IF i = n THEN NULL ELSE q[i + 1]
  /\ \A i, j \in 1 .. n : q[i] = q[j] => i = j
  /\ \A e \in Slot : ~Used(e) <=> \E i \in 1 .. n : q[i] = e
List == \E n \in 0 .. NENV : \E q \in [1 .. n -> Slot] : IsList(n, q)

(* The generation k steps before g, for k < Generations.                   *)
Back(g, k) == IF k < g THEN g - k ELSE g - k + Generations

(* The ids of a slot are those of consecutive generations, the last g.     *)
History(e, g) ==
  /\ IF g = 0 THEN envs[e].env_id = 0 /\ ~Used(e) /\ old[e] = <<>>
     ELSE envs[e].env_id = Id(g, e)
  /\ \A i \in 1 .. Len(old[e]) :
       LET k == IF Used(e) THEN i ELSE i - 1 IN
       k < Generations => old[e][i] = Id(Back(g, k), e)
Histories == \A e \in Slot : \E g \in 0 .. Generations : History(e, g)

(* The parent of an environment is its creator, as old as it is by now.    *)
Parentage(e, c, k, g) ==
  envs[c].env_id = Id(g, c) /\ envs[e].env_parent_id = Id(Back(g, k), c)
Parents ==
  \A e \in Slot : Used(e) =>
    LET c == creator[e].env
        k == creator[e].age
    IN  /\ c = NULL => envs[e].env_parent_id = 0
        /\ c # NULL /\ k < Generations => \E g \in 1 .. Generations : Parentage(e, c, k, g)

Registers == \A e \in Slot : Used(e) => envs[e].env_tf \in {0, envs[e].env_id}

IInv ==
  /\ TypeOK
  /\ Control
  /\ Spaces
  /\ Memory
  /\ List
  /\ Histories
  /\ Parents
  /\ Registers

-----------------------------------------------------------------------------
(* Ids: the slot and the generation of an id are its own, and the next id  *)
(* of a slot is that of the next generation, also where the generations    *)
(* wrap.                                                                   *)

LEMMA ModAdd ==
  ASSUME NEW m \in Nat \ {0}, NEW r \in 0 .. m - 1, NEW k \in Int
  PROVE  (k * m + r) % m = r
OBVIOUS

LEMMA ModSmall ==
  ASSUME NEW m \in Nat \ {0}, NEW r \in 0 .. m - 1
  PROVE  r % m = r
OBVIOUS

LEMMA ModOnce ==
  ASSUME NEW m \in Nat \ {0}, NEW r \in 0 .. m - 1
  PROVE  (m + r) % m = r
OBVIOUS

LEMMA SlotSmall ==
  ASSUME NEW e \in Slot
  PROVE  e \in 0 .. NENV - 1 /\ e \in 0 .. ENVGEN - 1 /\ NULL # e
<1>1. PICK k \in 1 .. ENVGEN : ENVGEN = k * NENV
  BY EnvAssumption
<1>2. NENV \in Nat \ {0} /\ ENVGEN \in Nat
  BY EnvAssumption
<1>3. ENVGEN >= NENV
  BY <1>1, <1>2
<1> QED
  BY <1>2, <1>3, EnvAssumption DEF Slot

LEMMA IdInt ==
  ASSUME NEW g \in Int, NEW e \in Slot
  PROVE  Id(g, e) \in Int /\ (g > 0 => Id(g, e) > 0)
<1>1. ENVGEN \in Nat \ {0} /\ e \in Nat
  BY SlotSmall, EnvAssumption
<1>2. g > 0 => g * ENVGEN > 0
  BY <1>1
<1> QED
  BY <1>1, <1>2 DEF Id

LEMMA IdInjective ==
  ASSUME NEW g \in Int, NEW h \in Int, NEW e \in Slot, NEW f \in Slot,
         Id(g, e) = Id(h, f)
  PROVE  g = h /\ e = f
<1>1. ENVGEN \in Nat \ {0} /\ e \in 0 .. ENVGEN - 1 /\ f \in 0 .. ENVGEN - 1
  BY SlotSmall, EnvAssumption
<1>2. (g - h) * ENVGEN = f - e
  BY <1>1 DEF Id
<1>3. CASE g > h
  <2>1. (g - h) * ENVGEN >= ENVGEN
    BY <1>1, <1>3
  <2> QED
    BY <1>1, <1>2, <2>1
<1>4. CASE g < h
  <2>1. (h - g) * ENVGEN >= ENVGEN
    BY <1>1, <1>4
  <2>2. (h - g) * ENVGEN = e - f
    BY <1>1, <1>2
  <2> QED
    BY <1>1, <2>1, <2>2
<1>5. CASE g = h
  BY <1>1, <1>2, <1>5
<1> QED
  BY <1>3, <1>4, <1>5

LEMMA SlotOfId ==
  ASSUME NEW g \in Int, NEW e \in Slot
  PROVE  ENVX(Id(g, e)) = e
<1>1. PICK k \in 1 .. ENVGEN : ENVGEN = k * NENV
  BY EnvAssumption
<1>2. NENV \in Nat \ {0} /\ ENVGEN \in Nat /\ e \in 0 .. NENV - 1
  BY SlotSmall, EnvAssumption
<1>3. Id(g, e) = (g * k) * NENV + e
  BY <1>1, <1>2 DEF Id
<1>4. g * k \in Int
  BY <1>1
<1> HIDE DEF Id
<1> QED
  BY <1>2, <1>3, <1>4, ModAdd DEF ENVX

Succ(g) == IF g < Generations THEN g + 1 ELSE 1

LEMMA NewIdIsNext ==
  ASSUME NEW e \in Slot, NEW g \in 0 .. Generations,
         envs[e].env_id = IF g = 0 THEN 0 ELSE Id(g, e)
  PROVE  NewId(e) = Id(Succ(g), e)
<1> DEFINE id  == envs[e].env_id
           sum == Wrap(id + ENVGEN)
<1>1. /\ ENVGEN \in Nat \ {0} /\ Generations \in Nat \ {0}
      /\ e \in 0 .. ENVGEN - 1 /\ 0 \in Slot
  BY SlotSmall, EnvAssumption DEF Slot
<1>2. /\ IdHalf \in Nat \ {0} /\ IdHalf = (Generations + 1) * ENVGEN
      /\ 2 * IdHalf \in Nat \ {0}
  BY <1>1 DEF IdHalf
<1>3. CASE g < Generations
  <2> DEFINE f == IF g = 0 THEN 0 ELSE e
  <2>1. id + ENVGEN = (g + 1) * ENVGEN + f /\ f \in Slot /\ f \in 0 .. ENVGEN - 1
    BY <1>1 DEF Id
  <2>2. (g + 2) * ENVGEN <= (Generations + 1) * ENVGEN
    BY <1>1, <1>3
  <2>3. id + ENVGEN \in 0 .. IdHalf - 1
    BY <1>1, <1>2, <2>1, <2>2
  <2>4. sum = id + ENVGEN
    <3>1. (id + ENVGEN) + IdHalf \in 0 .. 2 * IdHalf - 1
      BY <2>3, <1>2
    <3>2. ((id + ENVGEN) + IdHalf) % (2 * IdHalf) = (id + ENVGEN) + IdHalf
      BY <3>1, <1>2, ModSmall
    <3> QED
      BY <2>3, <3>2, <1>2 DEF Wrap
  <2>5. sum = Id(g + 1, f)
    BY <2>1, <2>4 DEF Id
  <2>6. ENVX(sum) = f
    BY <2>1, <2>5, SlotOfId
  <2>7. sum - ENVX(sum) = (g + 1) * ENVGEN
    BY <1>1, <2>1, <2>4, <2>6
  <2>8. (g + 1) * ENVGEN > 0
    BY <1>1
  <2> HIDE DEF sum, f
  <2>9. NewId(e) = (IF sum - ENVX(sum) <= 0 THEN ENVGEN ELSE sum - ENVX(sum)) + e
    BY DEF NewId, sum
  <2> QED
    BY <1>1, <1>3, <2>7, <2>8, <2>9 DEF Succ, Id
<1>4. CASE g = Generations
  <2>1. id + ENVGEN = IdHalf + e
    BY <1>1, <1>2, <1>4 DEF Id
  <2>2. sum = e - IdHalf
    <3>1. ENVGEN <= IdHalf
      BY <1>1, <1>2
    <3>2. e \in 0 .. 2 * IdHalf - 1
      BY <1>1, <1>2, <3>1
    <3>3. (2 * IdHalf + e) % (2 * IdHalf) = e
      BY <3>2, <1>2, ModOnce
    <3>4. (id + ENVGEN) + IdHalf = 2 * IdHalf + e
      BY <2>1, <1>1, <1>2
    <3> QED
      BY <3>3, <3>4 DEF Wrap
  <2>3. sum = Id(0 - (Generations + 1), e)
    BY <1>1, <1>2, <2>2 DEF Id
  <2>4. ENVX(sum) = e
    BY <1>1, <2>3, SlotOfId
  <2>5. sum - ENVX(sum) = 0 - IdHalf
    BY <1>1, <1>2, <2>2, <2>4
  <2> HIDE DEF sum
  <2>6. NewId(e) = (IF sum - ENVX(sum) <= 0 THEN ENVGEN ELSE sum - ENVX(sum)) + e
    BY DEF NewId, sum
  <2> QED
    BY <1>1, <1>2, <1>4, <2>5, <2>6 DEF Succ, Id
<1> QED
  BY <1>1, <1>3, <1>4

LEMMA SuccRange ==
  ASSUME NEW g \in 0 .. Generations
  PROVE  Succ(g) \in 1 .. Generations
BY EnvAssumption DEF Succ

(* A generation back from the next one is the present one.                 *)
LEMMA BackSucc ==
  ASSUME NEW g \in 1 .. Generations, NEW k \in 0 .. Generations - 1
  PROVE  /\ Back(g, k) \in 1 .. Generations
         /\ Back(Succ(g), k + 1) = Back(g, k)
         /\ Back(g, k) = g <=> k = 0
BY EnvAssumption DEF Back, Succ

-----------------------------------------------------------------------------
(* What the environments do to the memory manager.  D is the set of the    *)
(* pages that hold directories: the kernel keeps them, and each counts     *)
(* once more than it is mapped.                                            *)

LEMMA NullSpace ==
  ASSUME NEW s \in MMType, NEW e \in Pgdirs, \A x \in PDX : s.pgdir[e][x] = NULL
  PROVE  [s.pgdir EXCEPT ![e] = [x \in PDX |-> NULL]] = s.pgdir
<1>1. s.pgdir \in [Pgdirs -> [PDX -> Page \cup {NULL}]]
  BY DEF MMType
<1>2. s.pgdir[e] = [x \in PDX |-> NULL]
  BY <1>1
<1> QED
  BY <1>1, <1>2

LEMMA SetupVmInv ==
  ASSUME NEW s \in MMType, NEW D \in SUBSET Page, Inv(s, D, D), NEW e \in Pgdirs,
         \A x \in PDX : s.pgdir[e][x] = NULL, env_setup_vm(s, e).pgdir # NULL
  PROVE  LET a == env_setup_vm(s, e).pgdir
             t == env_setup_vm(s, e).st
         IN  /\ a \in Page /\ a \notin D
             /\ t \in MMType /\ Inv(t, D \cup {a}, D \cup {a})
             /\ t.pgdir = s.pgdir /\ t.cr3 = s.cr3
<1> DEFINE a == page_alloc(s, 1).pp
           m == page_alloc(s, 1).st
           u == page_incref(m, a)
           w == [u EXCEPT !.mem[a] = Scribbled]
           t == [u EXCEPT !.mem[a] = Scribbled, !.pgdir[e] = [x \in PDX |-> NULL]]
<1>1. a # NULL /\ env_setup_vm(s, e).pgdir = a /\ env_setup_vm(s, e).st = t
  BY DEF env_setup_vm
<1>2. m \in MMType /\ a \in Page
  BY <1>1, AllocType
<1>3. /\ a \notin D /\ ~IsData(s, a) /\ ~IsTable(s, a)
      /\ SameTables(s, m) /\ m.cr3 = s.cr3
      /\ Inv(m, D \cup {a}, D)
  BY <1>1, AllocInv
<1> HIDE DEF m, a
<1>4. ~IsData(m, a) /\ ~IsTable(m, a) /\ m.pgdir = s.pgdir
  BY <1>2, <1>3, SameView DEF SameTables
<1>5. RefFits(m, a)
  <2>1. Cardinality(Mappings(m, a)) = 0
    BY <1>4, MappingsFinite
  <2> QED
    BY <2>1, RefModAssumption DEF RefFits
<1>6. u \in MMType
  BY <1>2, IncrefType
<1>7. /\ Inv(u, D \cup {a}, D \cup {a})
      /\ u.pgdir = m.pgdir /\ u.cr3 = m.cr3 /\ SameTables(m, u)
  BY <1>2, <1>3, <1>5, IncrefInv
<1> HIDE DEF u
<1>8. ~IsTable(u, a)
  BY <1>2, <1>4, <1>7, SameView
<1>9. Inv(w, D \cup {a}, D \cup {a})
  BY <1>2, <1>6, <1>7, <1>8, ScribbleInv
<1>10. w \in MMType
  BY <1>2, <1>6, JunkType DEF Scribbled, MMType
<1>11. /\ t.pp_ref = w.pp_ref /\ t.pp_link = w.pp_link
       /\ t.pgdir = [u.pgdir EXCEPT ![e] = [x \in PDX |-> NULL]] /\ w.pgdir = u.pgdir
       /\ t.page_free_list = w.page_free_list /\ t.free = w.free /\ t.mem = w.mem
       /\ t.tlb = w.tlb /\ t.cr3 = w.cr3 /\ t.status = w.status /\ w.cr3 = u.cr3
  BY <1>6 DEF MMType
<1>12. t.pgdir = w.pgdir /\ w.pgdir = s.pgdir
  BY <1>4, <1>7, <1>11, NullSpace
<1>13. t \in MMType
  BY <1>6, <1>10, <1>11, <1>12 DEF MMType
<1> HIDE DEF w, t
<1>14. Coherent(t)
  <2>1. Coherent(w)
    BY <1>9 DEF Inv
  <2> QED
    BY <2>1, <1>11, <1>12 DEF Coherent, IsMapped, HasTable, Pte
<1>15. Inv(t, D \cup {a}, D \cup {a})
  <2>1. D \cup {a} \in SUBSET Page
    BY <1>2
  <2> QED
    BY <2>1, <1>9, <1>10, <1>11, <1>12, <1>14, TlbInv
<1> QED
  BY <1>1, <1>2, <1>3, <1>7, <1>11, <1>12, <1>13, <1>15

(* Only the address space d gets new tables.                               *)
GrowsOnly(s, t, d) ==
  \A f \in Pgdirs, x \in PDX : t.pgdir[f][x] # NULL => s.pgdir[f][x] # NULL \/ f = d

LEMMA GainsGrows ==
  ASSUME NEW s \in MMType, NEW t, NEW d \in Pgdirs, NEW x \in PDX, GainsTable(s, t, d, x)
  PROVE  GrowsOnly(s, t, d)
BY DEF GainsTable, GrowsOnly, MMType

LEMMA SendInv ==
  ASSUME NEW s \in MMType, NEW D \in SUBSET Page, Inv(s, D, D), NEW d \in Pgdirs,
         NEW p \in Page, p \notin D, IsData(s, p), RefFits(s, p), NEW v \in VA
  PROVE  LET t == page_insert(s, d, p, v, {"W", "U"}).st
         IN  t \in MMType /\ Inv(t, D, D) /\ GrowsOnly(s, t, d) /\ t.cr3 = s.cr3
<1> DEFINE perm == {"W", "U"}
           i == page_insert(s, d, p, v, perm)
           m == pgdir_walk(s, d, v, TRUE).st
<1>1. perm \in SUBSET {"W", "U"} /\ v[1] \in PDX
  BY DEF VA
<1> HIDE DEF perm
<1>2. i.st \in MMType
  BY <1>1, InsertType
<1>3. /\ Inv(i.st, IF i.ret = "OK" THEN D \ {p} ELSE D, D)
      /\ InsertEffect(s, d, p, v, perm, D)
  BY <1>1, InsertInv
<1>6. /\ i.st.cr3 = s.cr3
      /\ i.ret # "OK" => i.st = s
      /\ i.ret = "OK" => GainsTable(s, m, d, v[1]) /\ i.st.pgdir = m.pgdir
  BY <1>3 DEF InsertEffect
<1> HIDE DEF i, m
<1>4. D \ {p} = D
  OBVIOUS
<1>5. GrowsOnly(s, i.st, d)
  <2>1. CASE i.ret = "OK"
    BY <1>1, <1>6, <2>1, GainsGrows DEF GrowsOnly
  <2>2. CASE i.ret # "OK"
    BY <1>6, <2>2 DEF GrowsOnly
  <2> QED
    BY <2>1, <2>2
<1> QED
  BY <1>2, <1>3, <1>4, <1>5, <1>6 DEF i, perm

LEMMA RegionInv ==
  ASSUME NEW s \in MMType, NEW D \in SUBSET Page, Inv(s, D, D), NEW d \in Pgdirs,
         NEW v \in VA, page_alloc(s, 0).pp # NULL,
         page_insert(page_alloc(s, 0).st, d, page_alloc(s, 0).pp, v, {"W", "U"}).ret = "OK"
  PROVE  LET a == page_alloc(s, 0)
             t == [page_insert(a.st, d, a.pp, v, {"W", "U"}).st
                     EXCEPT !.mem[a.pp] = Scribbled]
         IN  t \in MMType /\ Inv(t, D, D) /\ GrowsOnly(s, t, d) /\ t.cr3 = s.cr3
<1> DEFINE a == page_alloc(s, 0).pp
           m == page_alloc(s, 0).st
           perm == {"W", "U"}
           i == page_insert(m, d, a, v, perm)
           w == pgdir_walk(m, d, v, TRUE).st
           e == [addr |-> a, perm |-> perm \cup {"P"}]
           t == [i.st EXCEPT !.mem[a] = Scribbled]
<1>1. perm \in SUBSET {"W", "U"} /\ v[1] \in PDX
  BY DEF VA
<1> HIDE DEF perm
<1>2. m \in MMType /\ a \in Page
  BY AllocType
<1>3. /\ a \notin D /\ ~IsData(s, a)
      /\ SameTables(s, m) /\ m.cr3 = s.cr3
      /\ Inv(m, D \cup {a}, D)
  BY AllocInv
<1> HIDE DEF m, a
<1>4. Cardinality(Mappings(m, a)) = 0 /\ m.pgdir = s.pgdir
  BY <1>2, <1>3, SameView, MappingsFinite DEF SameTables
<1>5. RefFits(m, a)
  BY <1>4, RefModAssumption DEF RefFits
<1>6. i.st \in MMType
  BY <1>1, <1>2, InsertType
<1> DEFINE K == D \cup {a}
<1>7. K \in SUBSET Page /\ a \in K /\ Inv(m, K, D)
  BY <1>2, <1>3
<1> HIDE DEF K
<1>8. /\ Inv(i.st, IF i.ret = "OK" THEN K \ {a} ELSE K, D)
      /\ InsertEffect(m, d, a, v, perm, D)
  BY <1>1, <1>2, <1>3, <1>5, <1>7, InsertInv
<1>17. /\ i.st.cr3 = m.cr3
       /\ i.ret = "OK" => /\ GainsTable(m, w, d, v[1]) /\ i.st.pgdir = w.pgdir
                          /\ IsMapped(i.st, d, v) /\ Pte(i.st, d, v) = e
  BY <1>8 DEF InsertEffect
<1>9. i.ret = "OK"
  BY DEF m, a, perm
<1> HIDE DEF i, w
<1>10. Inv(i.st, D, D)
  <2>1. K \ {a} = D
    BY <1>3 DEF K
  <2> QED
    BY <1>8, <1>9, <2>1
<1>11. ~IsTable(i.st, a)
  <2>1. <<d, v>> \in Mappings(i.st, a)
    BY <1>9, <1>17 DEF Mappings
  <2>2. IsData(i.st, a)
    BY <2>1, MappingsFinite
  <2> QED
    BY <1>2, <1>10, <2>2 DEF Inv, Disjoint
<1>12. Inv(t, D, D)
  BY <1>2, <1>6, <1>10, <1>11, ScribbleInv
<1>13. t \in MMType
  BY <1>2, <1>6, JunkType DEF Scribbled, MMType
<1>14. t.pgdir = i.st.pgdir /\ t.cr3 = i.st.cr3
  BY <1>6 DEF MMType
<1>15. GrowsOnly(m, w, d)
  BY <1>1, <1>2, <1>9, <1>17, GainsGrows
<1>16. GrowsOnly(s, t, d)
  BY <1>4, <1>9, <1>14, <1>15, <1>17 DEF GrowsOnly
<1> QED
  BY <1>3, <1>12, <1>13, <1>14, <1>16, <1>17 DEF t, i, m, a, perm

(* env_free gives a table back: its directory slot, then its page.         *)
LEMMA FreeTableInv ==
  ASSUME NEW s \in MMType, NEW D \in SUBSET Page, Inv(s, D, D), NEW d \in Pgdirs,
         NEW x \in PDX, s.pgdir[d][x] # NULL, \A y \in PTX : ~IsMapped(s, d, <<x, y>>)
  PROVE  LET t == page_decref([s EXCEPT !.pgdir[d][x] = NULL], s.pgdir[d][x])
         IN  /\ t \in MMType /\ Inv(t, D, D) /\ t.cr3 = s.cr3
             /\ t.pgdir = [s.pgdir EXCEPT ![d][x] = NULL]
<1> DEFINE b == s.pgdir[d][x]
           m == [s EXCEPT !.pgdir[d][x] = NULL]
           t == page_decref(m, b)
           E == D \cup {b}
<1>1. m \in MMType
  BY DEF MMType
<1>2. /\ Inv(m, E, E)
      /\ b \in Page /\ b \notin D /\ ~IsData(m, b)
      /\ m.cr3 = s.cr3 /\ m.pgdir = [s.pgdir EXCEPT ![d][x] = NULL]
  BY ZenonT(30), UnlinkInv
<1> HIDE DEF b, m
<1>3. E \in SUBSET Page /\ b \in E /\ E \ {b} = D
  BY <1>2
<1> HIDE DEF E
<1>4. t \in MMType
  BY <1>1, <1>2, DecrefType
<1>5. Inv(t, E \ {b}, E \ {b}) /\ SameTables(m, t) /\ t.cr3 = m.cr3
  BY ZenonT(30), <1>1, <1>2, <1>3, DropInv
<1> QED
  BY <1>2, <1>3, <1>4, <1>5 DEF SameTables, t, m, b

-----------------------------------------------------------------------------
(* Steps that leave a part of the state alone.                             *)

LEMMA TableUnchanged ==
  ASSUME List, Histories, Parents, Registers,
         UNCHANGED <<envs, env_free_list, old, creator>>
  PROVE  List' /\ Histories' /\ Parents' /\ Registers'
<1>1. List'
  BY DEF List, IsList, Used
<1>2. Histories'
  BY DEF Histories, History, Used
<1>3. Parents'
  BY DEF Parents, Parentage, Used
<1>4. Registers'
  BY DEF Registers, Used
<1> QED
  BY <1>1, <1>2, <1>3, <1>4

LEMMA DirectoriesType ==
  ASSUME TypeOK
  PROVE  Directories \in SUBSET Page
BY DEF TypeOK, EnvType, Directories

(* A step of the memory manager alone.                                     *)
LEMMA MemoryStep ==
  ASSUME IInv, UNCHANGED <<table, mode, freeing, old, creator>>,
         mm' \in MMType, mm'.cr3 = mm.cr3,
         \/ Inv(mm', Directories, Directories)
         \/ Coherent(mm') /\ mm'.status # "run",
         \A d \in Pgdirs, x \in PDX :
           mm'.pgdir[d][x] # NULL =>
             mm.pgdir[d][x] # NULL \/ (mode # "free" /\ d \in Slot /\ Used(d))
  PROVE  IInv'
<1>1. /\ envs' = envs /\ env_free_list' = env_free_list /\ curenv' = curenv
      /\ mode' = mode /\ freeing' = freeing /\ old' = old /\ creator' = creator
  BY DEF table
<1>2. TypeOK'
  BY <1>1 DEF IInv, TypeOK
<1>3. Control'
  BY <1>1 DEF IInv, Control, ForCurenv, Used
<1>4. Spaces'
  BY <1>1 DEF IInv, Spaces, Used
<1>5. Memory'
  <2>1. Directories' = Directories
    BY <1>1 DEF Directories
  <2>2. Inv(mm', Directories, Directories) => Coherent(mm')
    BY DEF Inv
  <2> QED
    BY <2>1, <2>2 DEF Memory
<1>6. List' /\ Histories' /\ Parents' /\ Registers'
  BY <1>1, TableUnchanged DEF IInv
<1> QED
  BY <1>2, <1>3, <1>4, <1>5, <1>6 DEF IInv

LEMMA PanicType ==
  ASSUME NEW s \in MMType
  PROVE  LET t == [s EXCEPT !.status = "panic"]
         IN  /\ t \in MMType /\ t.cr3 = s.cr3 /\ t.pgdir = s.pgdir /\ t.status # "run"
             /\ Coherent(s) => Coherent(t)
<1> DEFINE t == [s EXCEPT !.status = "panic"]
<1>1. t \in MMType
  BY DEF MMType
<1>2. /\ t.cr3 = s.cr3 /\ t.pgdir = s.pgdir /\ t.mem = s.mem /\ t.tlb = s.tlb
      /\ t.status = "panic"
  BY DEF MMType
<1> HIDE DEF t
<1>3. Coherent(s) => Coherent(t)
  BY <1>2 DEF Coherent, IsMapped, HasTable, Pte
<1> QED
  BY <1>1, <1>2, <1>3 DEF t

LEMMA RunningMemory ==
  ASSUME IInv, mm.status = "run"
  PROVE  /\ mm \in MMType /\ Directories \in SUBSET Page
         /\ Inv(mm, Directories, Directories)
         /\ mm.cr3 \in Pgdirs /\ Slot \subseteq Pgdirs
BY DirectoriesType, EnvAssumption DEF IInv, TypeOK, Memory, MMType

LEMMA PanicStep ==
  ASSUME IInv, mm' = [mm EXCEPT !.status = "panic"],
         UNCHANGED <<table, mode, freeing, old, creator>>
  PROVE  IInv'
<1>1. mm \in MMType /\ Coherent(mm)
  BY DEF IInv, TypeOK, Memory
<1>2. /\ mm' \in MMType /\ mm'.cr3 = mm.cr3 /\ mm'.pgdir = mm.pgdir /\ mm'.status # "run"
      /\ Coherent(mm')
  BY <1>1, PanicType
<1> QED
  BY <1>2, MemoryStep

LEMMA RegionStep ==
  ASSUME IInv, mm.status = "run", NEW e \in Slot, NEW v \in VA, region_alloc(e, v)
  PROVE  IInv'
<1> DEFINE a == page_alloc(mm, 0)
           i == page_insert(a.st, e, a.pp, v, {"W", "U"})
<1>1. /\ mode = "kernel" /\ Used(e)
      /\ UNCHANGED <<table, mode, freeing, old, creator>>
  BY DEF region_alloc, Live, Used
<1>2. CASE a.pp = NULL \/ i.ret # "OK"
  <2>1. mm' = [mm EXCEPT !.status = "panic"]
    BY <1>2 DEF region_alloc
  <2> QED
    BY <1>1, <2>1, PanicStep
<1>3. CASE ~(a.pp = NULL \/ i.ret # "OK")
  <2>1. mm' = [i.st EXCEPT !.mem[a.pp] = Scribbled]
    BY <1>3 DEF region_alloc
  <2>2. /\ mm' \in MMType /\ Inv(mm', Directories, Directories)
        /\ GrowsOnly(mm, mm', e) /\ mm'.cr3 = mm.cr3
    BY <1>3, <2>1, RunningMemory, RegionInv
  <2> QED
    BY <1>1, <2>2, MemoryStep DEF GrowsOnly
<1> QED
  BY <1>2, <1>3

(* The page at a mapped address is data: no directory.                     *)
LEMMA MappedPage ==
  ASSUME NEW s \in MMType, NEW H \in SUBSET Page, NEW X \in SUBSET Page, Inv(s, H, X),
         NEW d \in Pgdirs, NEW v \in VA, IsMapped(s, d, v)
  PROVE  Pte(s, d, v).addr \in Page \ H /\ IsData(s, Pte(s, d, v).addr)
<1>1. ~Present(ZeroPte)
  BY DEF Present, ZeroPte
<1>2. Pte(s, d, v).addr \in Page
  BY <1>1 DEF Inv, Clean, IsMapped
<1>3. <<d, v>> \in Mappings(s, Pte(s, d, v).addr)
  BY DEF Mappings
<1>4. IsData(s, Pte(s, d, v).addr)
  BY <1>3, MappingsFinite
<1> QED
  BY <1>2, <1>4 DEF Inv, Disjoint

LEMMA SendStep ==
  ASSUME IInv, mm.status = "run", NEW f \in Slot, NEW v \in VA, NEW w \in VA,
         ipc_send(v, f, w)
  PROVE  IInv'
<1> DEFINE p == Pte(mm, curenv, v).addr
<1>1. /\ mode = "trap" /\ Used(f) /\ RefFits(mm, p) /\ IsMapped(mm, curenv, v)
      /\ mm' = page_insert(mm, f, p, w, {"W", "U"}).st
      /\ UNCHANGED <<table, mode, freeing, old, creator>>
  BY DEF ipc_send, Live, Used
<1>2. curenv \in Pgdirs
  BY <1>1, RunningMemory DEF IInv, Control, ForCurenv
<1>3. p \in Page /\ p \notin Directories /\ IsData(mm, p)
  BY <1>1, <1>2, RunningMemory, MappedPage
<1> HIDE DEF p
<1>4. f \in Pgdirs
  BY RunningMemory
<1>5. /\ mm' \in MMType /\ Inv(mm', Directories, Directories)
      /\ GrowsOnly(mm, mm', f) /\ mm'.cr3 = mm.cr3
  BY <1>1, <1>3, <1>4, RunningMemory, SendInv
<1> QED
  BY <1>1, <1>5, MemoryStep DEF GrowsOnly

LEMMA TlbFillStep ==
  ASSUME IInv, mm.status = "run", NEW v \in VA, TlbFill(v)
  PROVE  IInv'
<1>1. /\ mm' \in MMType /\ Inv(mm', Directories, Directories)
      /\ mm'.pgdir = mm.pgdir /\ mm'.cr3 = mm.cr3
  BY RunningMemory, TranslateInv DEF TlbFill
<1> QED
  BY <1>1, MemoryStep DEF TlbFill

LEMMA UnmapStep ==
  ASSUME IInv, mm.status = "run", UnmapOne
  PROVE  IInv'
<1>1. PICK y \in PTX : /\ IsMapped(mm, freeing.env, <<freeing.pdeno, y>>)
                       /\ mm' = page_remove(mm, freeing.env, <<freeing.pdeno, y>>)
  BY DEF UnmapOne
<1>2. freeing.env \in Slot /\ <<freeing.pdeno, y>> \in VA
  BY DEF UnmapOne, IInv, TypeOK, Control, FreeingType, VA
<1> DEFINE d == freeing.env
           v == <<freeing.pdeno, y>>
<1>3. d \in Pgdirs /\ v \in VA /\ IsMapped(mm, d, v) /\ mm' = page_remove(mm, d, v)
  BY <1>1, <1>2, RunningMemory
<1> HIDE DEF d, v
<1>4. mm' \in MMType
  BY <1>3, RunningMemory, RemoveType
<1>5. Inv(mm', Directories, Directories) /\ mm'.pgdir = mm.pgdir /\ mm'.cr3 = mm.cr3
  BY <1>3, RunningMemory, RemoveInv
<1> QED
  BY <1>4, <1>5, MemoryStep DEF UnmapOne

-----------------------------------------------------------------------------
(* Running, trapping and taking apart.                                     *)

LEMMA IndexInt == PDX \subseteq Nat
<1>1. PDX = 0 .. Cardinality(PDX) - 1
  BY EnvAssumption
<1>2. Cardinality(PDX) \in Nat
  BY TablesAssumption, FS_CardinalityType
<1> QED
  BY <1>1, <1>2

(* A slot keeps its link, its ids and whether it is used.                  *)
LEMMA StatusStep ==
  ASSUME TypeOK, List, Histories, Parents, UNCHANGED <<env_free_list, old, creator>>,
         \A e \in Slot : /\ Used(e)' <=> Used(e)
                         /\ envs'[e].env_link = envs[e].env_link
                         /\ envs'[e].env_id = envs[e].env_id
                         /\ envs'[e].env_parent_id = envs[e].env_parent_id
  PROVE  List' /\ Histories' /\ Parents'
<1>1. List'
  <2>0. PICK n \in 0 .. NENV : \E q \in [1 .. n -> Slot] : IsList(n, q)
    BY DEF List
  <2>1. PICK q \in [1 .. n -> Slot] : IsList(n, q)
    BY <2>0
  <2>2. \A i \in 1 .. n : q[i] \in Slot
    OBVIOUS
  <2>3. IsList(n, q)'
    BY <2>1, <2>2 DEF IsList
  <2> QED
    BY <2>3 DEF List
<1>2. Histories'
  BY DEF Histories, History
<1>3. Parents'
  <2> SUFFICES ASSUME NEW e \in Slot, Used(e)'
               PROVE  /\ creator[e].env = NULL => envs'[e].env_parent_id = 0
                      /\ creator[e].env # NULL /\ creator[e].age < Generations =>
                           \E g \in 1 .. Generations :
                             Parentage(e, creator[e].env, creator[e].age, g)'
    BY DEF Parents
  <2>1. CASE creator[e].env = NULL
    BY <2>1 DEF Parents
  <2>2. CASE creator[e].env # NULL /\ creator[e].age < Generations
    <3>1. creator[e].env \in Slot
      BY <2>2 DEF TypeOK
    <3>2. PICK g \in 1 .. Generations : Parentage(e, creator[e].env, creator[e].age, g)
      BY <2>2 DEF Parents
    <3>3. Parentage(e, creator[e].env, creator[e].age, g)'
      BY <3>1, <3>2 DEF Parentage
    <3> QED
      BY <2>2, <3>3
  <2> QED
    BY <2>1, <2>2
<1> QED
  BY <1>1, <1>2, <1>3

LEMMA RunStep ==
  ASSUME IInv, mm.status = "run", NEW e \in Slot, Used(e), mode # "free", env_run(e)
  PROVE  IInv'
<1>1. /\ envs' = [f \in Slot |->
                    IF f = e THEN [envs[f] EXCEPT !.env_status = "RUNNING"]
                    ELSE IF f = curenv /\ envs[f].env_status = "RUNNING"
                    THEN [envs[f] EXCEPT !.env_status = "RUNNABLE"] ELSE envs[f]]
      /\ curenv' = e /\ mm' = lcr3(mm, e) /\ mode' = "user"
      /\ env_free_list' = env_free_list /\ freeing' = freeing /\ old' = old
      /\ creator' = creator
  BY DEF env_run
<1>2. envs \in [Slot -> EnvType]
  BY DEF IInv, TypeOK
<1>3. /\ mm' \in MMType /\ Inv(mm', Directories, Directories)
      /\ mm'.pgdir = mm.pgdir /\ mm'.cr3 = e
  BY <1>1, RunningMemory, Lcr3Inv
<1>4. \A f \in Slot : /\ Used(f)' <=> Used(f)
                      /\ envs'[f].env_link = envs[f].env_link
                      /\ envs'[f].env_id = envs[f].env_id
                      /\ envs'[f].env_parent_id = envs[f].env_parent_id
                      /\ envs'[f].env_pgdir = envs[f].env_pgdir
                      /\ envs'[f].env_tf = envs[f].env_tf
  BY <1>1, <1>2 DEF Used, EnvType
<1>5. envs' \in [Slot -> EnvType] /\ envs'[e].env_status = "RUNNING"
  BY <1>1, <1>2 DEF EnvType, Statuses
<1>6. freeing = NULL
  BY DEF IInv, Control
<1>7. TypeOK'
  BY <1>1, <1>3, <1>5 DEF IInv, TypeOK, Modes
<1>8. Control'
  BY <1>1, <1>3, <1>4, <1>5, <1>6 DEF Control, ForCurenv
<1>9. Spaces'
  BY <1>1, <1>3, <1>4 DEF IInv, Spaces
<1>10. Memory'
  <2>1. Directories' = Directories
    BY <1>4 DEF Directories
  <2> QED
    BY <1>3, <2>1 DEF Memory, Inv
<1>11. List' /\ Histories' /\ Parents'
  BY <1>1, <1>4, StatusStep DEF IInv
<1>12. Registers'
  BY <1>4 DEF IInv, Registers
<1> QED
  BY <1>7, <1>8, <1>9, <1>10, <1>11, <1>12 DEF IInv

LEMMA TrapStep ==
  ASSUME IInv, trap
  PROVE  IInv'
<1>1. /\ mode = "user" /\ mode' = "trap"
      /\ envs' = [envs EXCEPT ![curenv].env_tf = envs[curenv].env_id]
      /\ mm' = mm /\ env_free_list' = env_free_list /\ curenv' = curenv
      /\ freeing' = freeing /\ old' = old /\ creator' = creator
  BY DEF trap
<1>2. curenv \in Slot /\ envs \in [Slot -> EnvType]
  BY <1>1 DEF IInv, TypeOK, Control, ForCurenv
<1>3. \A f \in Slot : /\ envs'[f].env_status = envs[f].env_status
                      /\ envs'[f].env_link = envs[f].env_link
                      /\ envs'[f].env_id = envs[f].env_id
                      /\ envs'[f].env_parent_id = envs[f].env_parent_id
                      /\ envs'[f].env_pgdir = envs[f].env_pgdir
                      /\ envs'[f].env_tf \in {envs[f].env_id, envs[f].env_tf}
  BY <1>1, <1>2 DEF EnvType
<1>4. envs' \in [Slot -> EnvType]
  BY <1>1, <1>2 DEF EnvType
<1>5. TypeOK'
  BY <1>1, <1>4 DEF IInv, TypeOK, Modes
<1>6. Control'
  <2>1. mm.cr3 \in Pgdirs
    BY DEF IInv, TypeOK, MMType
  <2>2. Control
    BY DEF IInv
  <2> QED
    BY <1>1, <1>2, <1>3, <2>1, <2>2 DEF Control, ForCurenv, Used
<1>7. Spaces'
  BY <1>1, <1>3 DEF IInv, Spaces, Used
<1>8. Memory'
  <2>1. Directories' = Directories
    BY <1>3 DEF Directories
  <2> QED
    BY <1>1, <2>1 DEF IInv, Memory
<1>9. List' /\ Histories' /\ Parents'
  BY <1>1, <1>3, StatusStep DEF IInv, Used
<1>10. Registers'
  BY <1>3 DEF IInv, Registers, Used
<1> QED
  BY <1>5, <1>6, <1>7, <1>8, <1>9, <1>10 DEF IInv

(* env_free begins for an environment that exists.                         *)
LEMMA BeginFreeStep ==
  ASSUME IInv, mm.status = "run", NEW e \in Slot, Used(e), mode # "free",
         NEW then \in {"kernel", "trap", "monitor"},
         then = "trap" => mode = "trap" /\ e # curenv, BeginFree(e, then)
  PROVE  IInv'
<1>1. /\ mm' = IF e = curenv THEN lcr3(mm, KernPgdir) ELSE mm
      /\ freeing' = [env |-> e, pdeno |-> 0, then |-> then] /\ mode' = "free"
      /\ envs' = envs /\ env_free_list' = env_free_list /\ curenv' = curenv
      /\ old' = old /\ creator' = creator
  BY DEF BeginFree, LeaveDirectory, table
<1>2. /\ mm' \in MMType /\ Inv(mm', Directories, Directories) /\ mm'.pgdir = mm.pgdir
      /\ mm'.cr3 = IF e = curenv THEN KernPgdir ELSE mm.cr3
  <2>1. KernPgdir \in Pgdirs
    BY ClientAssumption
  <2> QED
    BY <1>1, <2>1, RunningMemory, Lcr3Inv
<1>3. freeing' \in FreeingType /\ freeing' # NULL
  <2>1. 0 \in 0 .. Cardinality(PDX)
    BY TablesAssumption, FS_CardinalityType
  <2>2. then \in Modes
    BY DEF Modes
  <2>3. freeing' \in [env : Slot, pdeno : Nat, then : Modes]
    BY <1>1, <2>2
  <2> QED
    BY <1>1, <2>1, <2>3, EnvAssumption DEF FreeingType
<1>4. TypeOK'
  BY <1>1, <1>2, <1>3 DEF IInv, TypeOK, Modes
<1>5. Control'
  <2>1. mm'.cr3 # e
    BY <1>2, EnvAssumption DEF IInv, Control
  <2>2. Control
    BY DEF IInv
  <2>3. then = "trap" => curenv \in Slot /\ envs[curenv].env_status = "RUNNING"
    BY <2>2 DEF Control, ForCurenv
  <2>4. ForCurenv' => then = "trap"
    BY <1>1 DEF ForCurenv
  <2>5. mm'.cr3 # KernPgdir => mm'.cr3 = curenv /\ Used(mm'.cr3)
    BY <1>2, <2>2 DEF Control
  <2>6. ForCurenv' => curenv' \in Slot /\ envs'[curenv'].env_status = "RUNNING"
    BY <1>1, <2>3, <2>4
  <2>7. /\ mode' = "free" /\ freeing' # NULL /\ freeing'.env = e
        /\ freeing'.then = "trap" => e # curenv'
    BY <1>1, <1>3
  <2>8. Used(e)'
    BY <1>1 DEF Used
  <2>9. mm'.cr3 # KernPgdir => mm'.cr3 = curenv' /\ Used(mm.cr3)'
    BY <1>1, <2>5 DEF Used
  <2>10. mode' = "free" =>
           /\ Used(freeing.env)' /\ mm'.cr3 # freeing'.env
           /\ freeing'.then = "trap" => freeing'.env # curenv'
    BY <2>1, <2>7, <2>8 DEF Used
  <2>11. mode' # "user"
    BY <2>7
  <2> QED
    BY <2>6, <2>7, <2>9, <2>10, <2>11 DEF Control
<1>6. Spaces'
  <2>1. \A x \in PDX : x >= 0
    BY IndexInt
  <2>2. Spaces
    BY DEF IInv
  <2> QED
    BY <1>1, <1>2, <2>1, <2>2 DEF Spaces, Used
<1>7. Memory'
  <2>1. Directories' = Directories
    BY <1>1 DEF Directories
  <2> QED
    BY <1>2, <2>1 DEF Memory, Inv
<1>8. List' /\ Histories' /\ Parents' /\ Registers'
  BY <1>1, TableUnchanged DEF IInv
<1> QED
  BY <1>4, <1>5, <1>6, <1>7, <1>8 DEF IInv

(* The next directory slot, with or without a table to give back.          *)
LEMMA FreeTableStep ==
  ASSUME IInv, mm.status = "run", FreeTable
  PROVE  IInv'
<1> DEFINE e == freeing.env
           x == freeing.pdeno
           b == mm.pgdir[e][x]
<1>1. /\ mode = "free" /\ x \in PDX
      /\ \A y \in PTX : ~IsMapped(mm, e, <<x, y>>)
      /\ mm' = IF b = NULL THEN mm ELSE page_decref([mm EXCEPT !.pgdir[e][x] = NULL], b)
      /\ freeing' = [freeing EXCEPT !.pdeno = @ + 1]
      /\ mode' = mode /\ envs' = envs /\ env_free_list' = env_free_list
      /\ curenv' = curenv /\ old' = old /\ creator' = creator
  BY DEF FreeTable, Emptied, table
<1>2. freeing \in FreeingType /\ e \in Slot /\ e \in Pgdirs
  BY <1>1, RunningMemory DEF IInv, TypeOK, Control, FreeingType
<1>3. /\ mm' \in MMType /\ Inv(mm', Directories, Directories) /\ mm'.cr3 = mm.cr3
      /\ mm'.pgdir = IF b = NULL THEN mm.pgdir ELSE [mm.pgdir EXCEPT ![e][x] = NULL]
  <2>1. CASE b = NULL
    BY <1>1, <2>1, RunningMemory
  <2>2. CASE b # NULL
    <3> DEFINE t == page_decref([mm EXCEPT !.pgdir[e][x] = NULL], mm.pgdir[e][x])
    <3>1. /\ t \in MMType /\ Inv(t, Directories, Directories) /\ t.cr3 = mm.cr3
          /\ t.pgdir = [mm.pgdir EXCEPT ![e][x] = NULL]
      <4>1. e \in Pgdirs /\ x \in PDX /\ mm.pgdir[e][x] # NULL
            /\ \A y \in PTX : ~IsMapped(mm, e, <<x, y>>)
        BY <1>1, <1>2, <2>2
      <4> HIDE DEF e, x
      <4> QED
        BY <4>1, RunningMemory, FreeTableInv
    <3>2. mm' = t
      BY <1>1, <2>2
    <3> QED
      BY <2>2, <3>1, <3>2
  <2> QED
    BY <2>1, <2>2
<1>4. /\ freeing' \in FreeingType /\ freeing' # NULL
      /\ freeing'.env = e /\ freeing'.pdeno = x + 1 /\ freeing'.then = freeing.then
  <2>1. Cardinality(PDX) \in Nat
    BY TablesAssumption, FS_CardinalityType
  <2>2. PDX = 0 .. Cardinality(PDX) - 1
    BY EnvAssumption
  <2>3. x + 1 \in 0 .. Cardinality(PDX)
    BY <1>1, <2>1, <2>2
  <2> HIDE DEF x
  <2>4. freeing' = [freeing EXCEPT !.pdeno = x + 1]
    BY <1>1 DEF x
  <2>5. /\ freeing' \in FreeingType
        /\ freeing'.env = e /\ freeing'.pdeno = x + 1 /\ freeing'.then = freeing.then
    BY <1>2, <2>3, <2>4 DEF FreeingType
  <2>6. freeing' \in [env : Slot, pdeno : Nat, then : Modes]
    BY <2>5 DEF FreeingType, Modes
  <2> QED
    BY <2>5, <2>6, EnvAssumption
<1>5. TypeOK'
  BY <1>1, <1>3, <1>4 DEF IInv, TypeOK
<1>6. Control'
  BY <1>1, <1>3, <1>4 DEF IInv, Control, ForCurenv, Used
<1>7. Spaces'
  <2>1. ASSUME NEW d \in Pgdirs, NEW z \in PDX, mm'.pgdir[d][z] # NULL
        PROVE  d \in Slot /\ Used(d) /\ (d = e => z >= x + 1)
    <3>1. mm.pgdir[d][z] # NULL /\ (d = e => z # x)
      <4>1. mm.pgdir \in [Pgdirs -> [PDX -> Page \cup {NULL}]]
        BY RunningMemory DEF MMType
      <4>2. CASE b = NULL
        BY <1>3, <2>1, <4>2
      <4>3. CASE b # NULL
        <5>1. PICK f, a, y : f = mm.pgdir /\ a = e /\ y = x
          OBVIOUS
        <5>2. f \in [Pgdirs -> [PDX -> Page \cup {NULL}]] /\ a \in Pgdirs /\ y \in PDX
          BY <1>1, <1>2, <4>1, <5>1
        <5>3. mm'.pgdir = [f EXCEPT ![a][y] = NULL]
          BY <1>3, <4>3, <5>1
        <5>4. [f EXCEPT ![a][y] = NULL][d][z] = IF d = a /\ z = y THEN NULL ELSE f[d][z]
          BY <5>2
        <5>5. f[d][z] # NULL /\ (d = a => z # y)
          BY <2>1, <5>3, <5>4
        <5> QED
          BY <5>1, <5>5
      <4> QED
        BY <4>2, <4>3
    <3>2. d \in Slot /\ Used(d) /\ (d = e => z >= x)
      BY <1>1, <3>1 DEF IInv, Spaces
    <3>3. z \in Int /\ x \in Int
      BY <1>1, IndexInt
    <3> QED
      BY <3>1, <3>2, <3>3
  <2>2. Spaces
    BY DEF IInv
  <2> QED
    BY <1>1, <1>4, <2>1, <2>2 DEF Spaces, Used
<1>8. Memory'
  <2>1. Directories' = Directories
    BY <1>1 DEF Directories
  <2> QED
    BY <1>3, <2>1 DEF Memory, Inv
<1>9. List' /\ Histories' /\ Parents' /\ Registers'
  BY <1>1, TableUnchanged DEF IInv
<1> QED
  BY <1>5, <1>6, <1>7, <1>8, <1>9 DEF IInv

-----------------------------------------------------------------------------
(* The list of free slots.                                                 *)

LEMMA ListBound ==
  ASSUME NEW n \in Nat, NEW q \in [1 .. n -> Slot],
         \A i, j \in 1 .. n : q[i] = q[j] => i = j
  PROVE  n <= NENV
<1>1. NENV \in Nat \ {0}
  BY EnvAssumption
<1>2. IsFiniteSet(Slot) /\ Cardinality(Slot) = NENV
  BY <1>1, FS_Interval DEF Slot
<1>3. IsFiniteSet(1 .. n) /\ Cardinality(1 .. n) = n
  BY FS_Interval
<1>4. ~(NENV < n)
  BY <1>2, <1>3, FS_PigeonHole
<1> QED
  BY <1>1, <1>4

(* The head of the list is free, and taking it leaves the rest.            *)
LEMMA ListPop ==
  ASSUME TypeOK, List, env_free_list # NULL,
         env_free_list' = envs[env_free_list].env_link,
         \A f \in Slot : /\ Used(f)' <=> Used(f) \/ f = env_free_list
                         /\ f # env_free_list => envs'[f].env_link = envs[f].env_link
  PROVE  List' /\ env_free_list \in Slot /\ ~Used(env_free_list)
<1>1. PICK n \in 0 .. NENV : \E q \in [1 .. n -> Slot] : IsList(n, q)
  BY DEF List
<1>2. PICK q \in [1 .. n -> Slot] : IsList(n, q)
  BY <1>1
<1>3. n \in Nat /\ NENV \in Nat
  BY EnvAssumption
<1>4. /\ env_free_list = IF n = 0 THEN NULL ELSE q[1]
      /\ \A i \in 1 .. n : envs[q[i]].env_link = IF i = n THEN NULL ELSE q[i + 1]
      /\ \A i, j \in 1 .. n : q[i] = q[j] => i = j
      /\ \A e \in Slot : ~Used(e) <=> \E i \in 1 .. n : q[i] = e
  BY <1>2 DEF IsList
<1>5. n > 0 /\ 1 \in 1 .. n /\ env_free_list = q[1] /\ q[1] \in Slot
  BY <1>3, <1>4
<1>6. ~Used(q[1])
  BY <1>4, <1>5
<1> DEFINE r == [i \in 1 .. n - 1 |-> q[i + 1]]
<1>7. n - 1 \in 0 .. NENV /\ r \in [1 .. n - 1 -> Slot]
  BY <1>3, <1>5
<1>8. \A i \in 1 .. n - 1 : r[i] = q[i + 1] /\ i + 1 \in 1 .. n /\ r[i] # q[1]
  BY <1>3, <1>4, <1>5
<1> HIDE DEF r
<1>9. env_free_list' = IF n - 1 = 0 THEN NULL ELSE r[1]
  BY <1>3, <1>4, <1>5, <1>8
<1>10. ASSUME NEW i \in 1 .. n - 1
       PROVE  envs'[r[i]].env_link = IF i = n - 1 THEN NULL ELSE r[i + 1]
  <2>1. envs'[r[i]].env_link = envs[q[i + 1]].env_link
    BY <1>5, <1>7, <1>8
  <2>2. envs[q[i + 1]].env_link = IF i + 1 = n THEN NULL ELSE q[(i + 1) + 1]
    BY <1>4, <1>8
  <2>3. i # n - 1 => i + 1 \in 1 .. n - 1
    BY <1>3
  <2> QED
    BY <2>1, <2>2, <2>3, <1>3, <1>8
<1>11. \A i, j \in 1 .. n - 1 : r[i] = r[j] => i = j
  BY <1>3, <1>4, <1>8
<1>12. ASSUME NEW f \in Slot
       PROVE  ~(Used(f)') <=> \E i \in 1 .. n - 1 : r[i] = f
  <2>1. ASSUME NEW i \in 1 .. n - 1, r[i] = f PROVE ~(Used(f)')
    BY <2>1, <1>4, <1>5, <1>8
  <2>2. ASSUME ~(Used(f)') PROVE \E i \in 1 .. n - 1 : r[i] = f
    <3>1. ~Used(f) /\ f # q[1]
      BY <2>2, <1>5
    <3>2. PICK j \in 1 .. n : q[j] = f
      BY <3>1, <1>4
    <3>3. j - 1 \in 1 .. n - 1 /\ (j - 1) + 1 = j
      BY <3>1, <3>2, <1>3
    <3> QED
      BY <3>2, <3>3, <1>8
  <2> QED
    BY <2>1, <2>2
<1>13. IsList(n - 1, r)'
  BY <1>9, <1>10, <1>11, <1>12 DEF IsList
<1>14. List'
  BY <1>7, <1>13 DEF List
<1> QED
  BY <1>5, <1>6, <1>14

(* A slot that is given back becomes the head of the list.                 *)
LEMMA ListPush ==
  ASSUME List, NEW e \in Slot, Used(e), env_free_list' = e,
         envs'[e].env_link = env_free_list,
         \A f \in Slot : /\ Used(f)' <=> Used(f) /\ f # e
                         /\ f # e => envs'[f].env_link = envs[f].env_link
  PROVE  List'
<1>1. PICK n \in 0 .. NENV : \E q \in [1 .. n -> Slot] : IsList(n, q)
  BY DEF List
<1>2. PICK q \in [1 .. n -> Slot] : IsList(n, q)
  BY <1>1
<1>3. n \in Nat /\ NENV \in Nat
  BY EnvAssumption
<1>4. /\ env_free_list = IF n = 0 THEN NULL ELSE q[1]
      /\ \A i \in 1 .. n : envs[q[i]].env_link = IF i = n THEN NULL ELSE q[i + 1]
      /\ \A i, j \in 1 .. n : q[i] = q[j] => i = j
      /\ \A f \in Slot : ~Used(f) <=> \E i \in 1 .. n : q[i] = f
  BY <1>2 DEF IsList
<1>5. \A i \in 1 .. n : q[i] # e /\ q[i] \in Slot
  BY <1>4
<1> DEFINE r == [i \in 1 .. n + 1 |-> IF i = 1 THEN e ELSE q[i - 1]]
<1>6. r \in [1 .. n + 1 -> Slot] /\ r[1] = e
  BY <1>3, <1>5
<1>7. \A i \in 1 .. n + 1 : i # 1 => r[i] = q[i - 1] /\ i - 1 \in 1 .. n
  BY <1>3
<1> HIDE DEF r
<1>8. \A i, j \in 1 .. n + 1 : r[i] = r[j] => i = j
  <2> SUFFICES ASSUME NEW i \in 1 .. n + 1, NEW j \in 1 .. n + 1, r[i] = r[j] PROVE i = j
    OBVIOUS
  <2>1. i = 1 <=> j = 1
    BY <1>5, <1>6, <1>7
  <2>2. CASE i # 1
    <3>1. q[i - 1] = q[j - 1] /\ i - 1 \in 1 .. n /\ j - 1 \in 1 .. n
      BY <2>1, <2>2, <1>7
    <3>2. i - 1 = j - 1
      BY <3>1, <1>4
    <3> QED
      BY <3>2
  <2> QED
    BY <2>1, <2>2
<1>9. n + 1 \in 0 .. NENV
  <2>1. n + 1 \in Nat
    BY <1>3
  <2>2. n + 1 <= NENV
    BY <2>1, <1>6, <1>8, ListBound
  <2> QED
    BY <2>1, <2>2, <1>3
<1>10. env_free_list' = IF n + 1 = 0 THEN NULL ELSE r[1]
  BY <1>3, <1>6
<1>11. ASSUME NEW i \in 1 .. n + 1
       PROVE  envs'[r[i]].env_link = IF i = n + 1 THEN NULL ELSE r[i + 1]
  <2>1. i # n + 1 => i + 1 \in 1 .. n + 1 /\ i + 1 # 1 /\ r[i + 1] = q[i]
    <3>1. i # n + 1 => i + 1 \in 1 .. n + 1 /\ i + 1 # 1 /\ (i + 1) - 1 = i
      BY <1>3
    <3> QED
      BY <3>1, <1>7
  <2>2. CASE i = 1
    <3>1. envs'[r[i]].env_link = IF n = 0 THEN NULL ELSE q[1]
      BY <2>2, <1>4, <1>6
    <3> QED
      BY <3>1, <2>1, <2>2, <1>3
  <2>3. CASE i # 1
    <3>1. r[i] = q[i - 1] /\ i - 1 \in 1 .. n
      BY <2>3, <1>7
    <3>2. envs'[r[i]].env_link = IF i - 1 = n THEN NULL ELSE q[(i - 1) + 1]
      BY <3>1, <1>4, <1>5
    <3>3. (i - 1) + 1 = i /\ (i - 1 = n <=> i = n + 1)
      BY <1>3
    <3> QED
      BY <3>2, <3>3, <2>1
  <2> QED
    BY <2>2, <2>3
<1>12. ASSUME NEW f \in Slot
       PROVE  ~(Used(f)') <=> \E i \in 1 .. n + 1 : r[i] = f
  <2>1. ASSUME NEW i \in 1 .. n + 1, r[i] = f PROVE ~(Used(f)')
    <3>1. CASE i = 1
      BY <3>1, <2>1, <1>6
    <3>2. CASE i # 1
      BY <3>2, <2>1, <1>4, <1>7
    <3> QED
      BY <3>1, <3>2
  <2>2. ASSUME ~(Used(f)') PROVE \E i \in 1 .. n + 1 : r[i] = f
    <3>1. CASE f = e
      <4>1. 1 \in 1 .. n + 1
        BY <1>3
      <4> QED
        BY <3>1, <4>1, <1>6
    <3>2. CASE f # e
      <4>1. PICK j \in 1 .. n : q[j] = f
        BY <2>2, <3>2, <1>4
      <4>2. j + 1 \in 1 .. n + 1 /\ j + 1 # 1 /\ (j + 1) - 1 = j
        BY <1>3
      <4> QED
        BY <4>1, <4>2, <1>7
    <3> QED
      BY <3>1, <3>2
  <2> QED
    BY <2>1, <2>2
<1>13. IsList(n + 1, r)'
  BY <1>8, <1>10, <1>11, <1>12 DEF IsList
<1> QED
  BY <1>6, <1>9, <1>13 DEF List

-----------------------------------------------------------------------------
(* The histories of ids, and the parents.                                  *)

(* The id of a slot and its generation.                                    *)
LEMMA UsedGeneration ==
  ASSUME Histories, NEW e \in Slot, Used(e)
  PROVE  \E g \in 1 .. Generations : envs[e].env_id = Id(g, e) /\ History(e, g)
<1>1. PICK g \in 0 .. Generations : History(e, g)
  BY DEF Histories
<1>2. g # 0 /\ envs[e].env_id = Id(g, e)
  BY <1>1 DEF History
<1>3. g \in 1 .. Generations
  BY <1>2, EnvAssumption
<1> QED
  BY <1>1, <1>2, <1>3

(* A new environment takes the next generation of its slot.                *)
LEMMA HistoryAlloc ==
  ASSUME TypeOK, Histories, NEW e \in Slot, ~Used(e), Used(e)',
         envs'[e].env_id = NewId(e), old' = old,
         \A f \in Slot : f # e => (Used(f)' <=> Used(f)) /\ envs'[f].env_id = envs[f].env_id
  PROVE  Histories'
<1> SUFFICES ASSUME NEW f \in Slot PROVE \E g \in 0 .. Generations : History(f, g)'
  BY DEF Histories
<1>1. PICK g \in 0 .. Generations : History(f, g)
  BY DEF Histories
<1>2. CASE f # e
  <2>1. History(f, g)'
    BY <1>1, <1>2 DEF History
  <2> QED
    BY <2>1
<1>3. CASE f = e
  <2>1. envs[e].env_id = IF g = 0 THEN 0 ELSE Id(g, e)
    BY <1>1, <1>3 DEF History
  <2>2. envs'[e].env_id = Id(Succ(g), e)
    BY <2>1, NewIdIsNext
  <2>3. Succ(g) \in 1 .. Generations
    BY SuccRange
  <2>4. ASSUME NEW i \in 1 .. Len(old[e]), i < Generations
        PROVE  old[e][i] = Id(Back(Succ(g), i), e)
    <3>1. i \in Nat /\ i - 1 \in 0 .. Generations - 1 /\ (i - 1) + 1 = i
      BY <2>4, EnvAssumption
    <3>2. g # 0
      BY <1>1, <1>3, <3>1 DEF History
    <3>3. g \in 1 .. Generations
      BY <3>2, EnvAssumption
    <3>4. old[e][i] = Id(Back(g, i - 1), e)
      <4>1. History(e, g)
        BY <1>1, <1>3
      <4>2. i - 1 < Generations
        BY <3>1, EnvAssumption
      <4> QED
        BY <4>1, <4>2 DEF History
    <3>5. Back(Succ(g), (i - 1) + 1) = Back(g, i - 1)
      BY <3>1, <3>3, BackSucc
    <3> QED
      BY <3>1, <3>4, <3>5
  <2>5. History(e, Succ(g))'
    BY <2>2, <2>3, <2>4 DEF History
  <2>6. Succ(g) \in 0 .. Generations
    BY <2>3
  <2> QED
    BY <1>3, <2>5, <2>6
<1> QED
  BY <1>2, <1>3

(* The id of an environment that goes is the latest of the old ones.       *)
LEMMA HistoryFree ==
  ASSUME TypeOK, Histories, NEW e \in Slot, Used(e), ~(Used(e)'),
         old' = [old EXCEPT ![e] = <<envs[e].env_id>> \o @],
         \A f \in Slot : envs'[f].env_id = envs[f].env_id,
         \A f \in Slot : f # e => (Used(f)' <=> Used(f))
  PROVE  Histories'
<1> SUFFICES ASSUME NEW f \in Slot PROVE \E g \in 0 .. Generations : History(f, g)'
  BY DEF Histories
<1>1. old[f] \in Seq(Ids) /\ Len(old[f]) \in Nat
  BY DEF TypeOK
<1>2. CASE f # e
  <2>1. PICK g \in 0 .. Generations : History(f, g)
    BY DEF Histories
  <2>2. old'[f] = old[f]
    BY <1>2 DEF TypeOK
  <2>3. History(f, g)'
    BY <1>2, <2>1, <2>2 DEF History
  <2> QED
    BY <2>3
<1>3. CASE f = e
  <2>1. PICK g \in 1 .. Generations : envs[e].env_id = Id(g, e) /\ History(e, g)
    BY UsedGeneration
  <2> DEFINE id == envs[e].env_id
             s  == old[e]
  <2>2. old'[e] = <<id>> \o s
    BY DEF TypeOK
  <2>3. id \in Ids \cup {0} /\ s \in Seq(Ids)
    BY <1>1, <1>3 DEF TypeOK, EnvType
  <2>4. \A i \in 1 .. Len(s) : i < Generations => s[i] = Id(Back(g, i), e)
    BY <2>1 DEF History
  <2> HIDE DEF id, s
  <2>5. /\ Len(<<id>> \o s) = Len(s) + 1
        /\ (<<id>> \o s)[1] = id
        /\ \A i \in 2 .. Len(s) + 1 : (<<id>> \o s)[i] = s[i - 1]
    BY <2>3
  <2>6. ASSUME NEW i \in 1 .. Len(old'[e]), i - 1 < Generations
        PROVE  old'[e][i] = Id(Back(g, i - 1), e)
    <3>1. CASE i = 1
      <4>1. Back(g, 0) = g
        BY EnvAssumption DEF Back
      <4> QED
        BY <3>1, <4>1, <2>1, <2>2, <2>5 DEF id
    <3>2. CASE i # 1
      <4>1. Len(s) \in Nat
        BY <2>3
      <4>2. i \in 2 .. Len(s) + 1 /\ i - 1 \in 1 .. Len(s)
        BY <3>2, <4>1, <2>2, <2>5
      <4> QED
        BY <4>2, <2>2, <2>4, <2>5, <2>6
    <3> QED
      BY <3>1, <3>2
  <2>7. History(e, g)'
    <3>1. g # 0 /\ envs'[e].env_id = Id(g, e)
      BY <2>1
    <3> QED
      BY <3>1, <2>6 DEF History
  <2>8. g \in 0 .. Generations
    OBVIOUS
  <2> QED
    BY <1>3, <2>7, <2>8
<1> QED
  BY <1>2, <1>3

(* The children of the environments that had the slot e before grow older, *)
(* the new environment there is no child of itself.                        *)
LEMMA ParentsAlloc ==
  ASSUME TypeOK, Histories, Parents, NEW e \in Slot, ~Used(e), NEW c \in Slot \cup {NULL},
         c = NULL => envs'[e].env_parent_id = 0,
         c # NULL => Used(c) /\ envs'[e].env_parent_id = envs[c].env_id,
         envs'[e].env_id = NewId(e),
         \A f \in Slot : f # e => /\ Used(f)' <=> Used(f)
                                  /\ envs'[f].env_id = envs[f].env_id
                                  /\ envs'[f].env_parent_id = envs[f].env_parent_id,
         creator'[e].env = c, creator'[e].age = 0,
         \A f \in Slot : f # e =>
           /\ creator'[f].env = creator[f].env
           /\ creator'[f].age = IF creator[f].env = e /\ creator[f].age < Generations
                                THEN creator[f].age + 1 ELSE creator[f].age
  PROVE  Parents'
<1>1. Generations \in Nat \ {0}
  BY EnvAssumption
<1> SUFFICES ASSUME NEW f \in Slot, Used(f)',
                    NEW d, d = creator'[f].env, NEW l, l = creator'[f].age
             PROVE  /\ d = NULL => envs'[f].env_parent_id = 0
                    /\ d # NULL /\ l < Generations =>
                         \E g \in 1 .. Generations :
                           /\ envs'[d].env_id = Id(g, d)
                           /\ envs'[f].env_parent_id = Id(Back(g, l), d)
  BY DEF Parents, Parentage
<1>2. CASE f = e
  <2>1. d = c /\ l = 0
    BY <1>2
  <2>2. CASE c = NULL
    BY <1>2, <2>1, <2>2
  <2>3. CASE c # NULL
    <3>1. c \in Slot /\ c # e /\ Used(c)
      BY <2>3
    <3>2. PICK g \in 1 .. Generations : envs[c].env_id = Id(g, c)
      BY <3>1, UsedGeneration
    <3>3. Back(g, 0) = g
      BY <1>1 DEF Back
    <3>4. envs'[c].env_id = Id(g, c) /\ envs'[f].env_parent_id = Id(Back(g, 0), c)
      BY <1>2, <2>3, <3>1, <3>2, <3>3
    <3> QED
      BY <2>1, <2>3, <3>4
  <2> QED
    BY <2>2, <2>3
<1>3. CASE f # e
  <2>0. PICK k : k = creator[f].age
    OBVIOUS
  <2>1. /\ d = creator[f].env /\ d \in Slot \cup {NULL} /\ k \in 0 .. Generations
        /\ l = IF d = e /\ k < Generations THEN k + 1 ELSE k
        /\ Used(f)
    BY <1>3, <2>0 DEF TypeOK
  <2>2. /\ d = NULL => envs[f].env_parent_id = 0
        /\ d # NULL /\ k < Generations => \E g \in 1 .. Generations : Parentage(f, d, k, g)
    BY <2>0, <2>1 DEF Parents
  <2>4. CASE d = NULL
    BY <1>3, <2>2, <2>4
  <2>5. CASE d # NULL /\ l < Generations
    <3>1. k < Generations
      BY <1>1, <2>1, <2>5
    <3>2. k \in 0 .. Generations
      BY <2>1
    <3>3. k \in 0 .. Generations - 1 /\ d \in Slot
      <4>1. d \in Slot
        BY <2>1, <2>5
      <4> QED
        BY <4>1, <1>1, <3>1, <3>2
    <3>4. PICK g \in 1 .. Generations : Parentage(f, d, k, g)
      BY <2>2, <2>5, <3>1
    <3>5. CASE d = e
      <4>1. envs[e].env_id = Id(g, e) /\ envs[f].env_parent_id = Id(Back(g, k), e)
        BY <3>4, <3>5 DEF Parentage
      <4>2. g \in 0 .. Generations /\ g # 0
        BY <1>1
      <4>3. envs'[e].env_id = Id(Succ(g), e)
        BY <4>1, <4>2, NewIdIsNext
      <4>4. Back(Succ(g), k + 1) = Back(g, k)
        BY <3>3, BackSucc
      <4>5. Succ(g) \in 1 .. Generations
        BY <4>2, SuccRange
      <4>6. l = k + 1
        BY <1>1, <2>1, <3>3, <3>5
      <4> QED
        BY <1>3, <2>5, <3>5, <4>1, <4>3, <4>4, <4>5, <4>6
    <3>6. CASE d # e
      <4>1. /\ envs'[d].env_id = Id(g, d)
            /\ envs'[f].env_parent_id = Id(Back(g, k), d) /\ l = k
        BY <1>3, <2>1, <3>3, <3>4, <3>6 DEF Parentage
      <4> QED
        BY <2>5, <4>1
    <3> QED
      BY <3>5, <3>6
  <2>6. CASE d # NULL /\ ~(l < Generations)
    BY <2>6
  <2> QED
    BY <2>4, <2>5, <2>6
<1> QED
  BY <1>2, <1>3

(* The parents of the others stay when a slot is given back.               *)
LEMMA ParentsFree ==
  ASSUME TypeOK, Parents, NEW e \in Slot, ~(Used(e)'),
         \A f \in Slot : /\ envs'[f].env_id = envs[f].env_id
                         /\ envs'[f].env_parent_id = envs[f].env_parent_id
                         /\ f # e => (Used(f)' <=> Used(f)) /\ creator'[f] = creator[f]
  PROVE  Parents'
<1> SUFFICES ASSUME NEW f \in Slot, Used(f)',
                    NEW d, d = creator'[f].env, NEW l, l = creator'[f].age
             PROVE  /\ d = NULL => envs'[f].env_parent_id = 0
                    /\ d # NULL /\ l < Generations =>
                         \E g \in 1 .. Generations :
                           /\ envs'[d].env_id = Id(g, d)
                           /\ envs'[f].env_parent_id = Id(Back(g, l), d)
  BY DEF Parents, Parentage
<1>1. Used(f) /\ d = creator[f].env /\ l = creator[f].age /\ d \in Slot \cup {NULL}
  BY DEF TypeOK
<1>2. CASE d = NULL
  BY <1>1, <1>2 DEF Parents
<1>3. CASE d # NULL /\ l < Generations
  <2>1. PICK g \in 1 .. Generations : Parentage(f, d, l, g)
    BY <1>1, <1>3 DEF Parents
  <2>2. envs'[d].env_id = Id(g, d) /\ envs'[f].env_parent_id = Id(Back(g, l), d)
    BY <1>1, <1>3, <2>1 DEF Parentage
  <2> QED
    BY <1>3, <2>2
<1> QED
  BY <1>2, <1>3

-----------------------------------------------------------------------------
(* The end of env_free: the directory and the slot are given back.         *)

LEMMA DirectoryStep ==
  ASSUME IInv, mm.status = "run", FreeDirectory
  PROVE  IInv'
<1>e. PICK e : e = freeing.env
  OBVIOUS
<1>a. PICK a : a = envs[e].env_pgdir
  OBVIOUS
<1>1. /\ mode = "free" /\ freeing.pdeno \notin PDX
      /\ mm' = page_decref(mm, a)
      /\ envs' = [envs EXCEPT ![e].env_pgdir = NULL, ![e].env_status = "FREE",
                              ![e].env_link = env_free_list]
      /\ env_free_list' = e
      /\ old' = [old EXCEPT ![e] = <<envs[e].env_id>> \o @]
      /\ creator' = [creator EXCEPT ![e] = [env |-> NULL, age |-> 0]]
      /\ mode' = freeing.then /\ freeing' = NULL /\ curenv' = curenv
  BY <1>e, <1>a DEF FreeDirectory
<1>2. /\ freeing \in FreeingType /\ e \in Slot /\ freeing.pdeno \in 0 .. Cardinality(PDX)
      /\ freeing.then \in {"kernel", "trap", "monitor"}
  BY <1>e, <1>1 DEF IInv, TypeOK, Control, FreeingType
<1>3. /\ envs \in [Slot -> EnvType] /\ env_free_list \in Slot \cup {NULL}
      /\ Control /\ Spaces /\ TypeOK
  BY DEF IInv, TypeOK
<1>4. Used(e) /\ mm.cr3 # e /\ (freeing.then = "trap" => e # curenv)
  BY <1>e, <1>1, <1>3 DEF Control
<1>5. a \in Directories /\ a \in Page
  BY <1>a, <1>2, <1>3, <1>4 DEF Spaces, Directories, EnvType
<1>6. /\ Inv(mm', Directories \ {a}, Directories \ {a})
      /\ mm'.pgdir = mm.pgdir /\ mm'.cr3 = mm.cr3
  <2>1. ~IsData(mm, a)
    BY <1>5, RunningMemory DEF Inv, Disjoint
  <2> DEFINE D == Directories
  <2>2. D \in SUBSET Page /\ a \in D /\ mm \in MMType /\ Inv(mm, D, D)
    BY <1>5, RunningMemory
  <2> HIDE DEF D
  <2> DEFINE t == page_decref(mm, a)
  <2>3. Inv(t, D \ {a}, D \ {a}) /\ SameTables(mm, t) /\ t.cr3 = mm.cr3
    BY <2>1, <2>2, DropInv
  <2>4. mm' = t
    BY <1>1
  <2> HIDE DEF t
  <2> QED
    BY <2>3, <2>4 DEF SameTables, D
<1>7. mm' \in MMType
  <2>1. page_decref(mm, a) \in MMType
    BY <1>5, RunningMemory, DecrefType
  <2> QED
    BY <1>1, <2>1
<1>8. envs' \in [Slot -> EnvType]
  <2>1. envs'[e] = [envs[e] EXCEPT !.env_pgdir = NULL, !.env_status = "FREE",
                                   !.env_link = env_free_list]
    BY <1>1, <1>2, <1>3
  <2>2. envs[e] \in EnvType
    BY <1>2, <1>3
  <2>3. envs'[e] \in EnvType
    BY <2>1, <2>2, <1>3 DEF EnvType, Statuses
  <2>4. \A f \in Slot : f # e => envs'[f] = envs[f]
    BY <1>1, <1>3
  <2>5. envs' = [f \in Slot |-> envs'[f]]
    BY <1>1, <1>3
  <2> QED
    BY <2>3, <2>4, <2>5, <1>3
<1>9. /\ ~(Used(e)') /\ envs'[e].env_link = env_free_list /\ envs'[e].env_pgdir = NULL
      /\ envs'[e].env_id = envs[e].env_id
      /\ envs'[e].env_parent_id = envs[e].env_parent_id
  <2>1. envs'[e] = [envs[e] EXCEPT !.env_pgdir = NULL, !.env_status = "FREE",
                                   !.env_link = env_free_list]
    BY <1>1, <1>2, <1>3
  <2>2. envs[e] \in EnvType
    BY <1>2, <1>3
  <2> QED
    BY <2>1, <2>2 DEF Used, EnvType
<1>10. \A f \in Slot : f # e => envs'[f] = envs[f] /\ creator'[f] = creator[f]
  BY <1>1, <1>3 DEF TypeOK
<1>11. \A f \in Slot : f # e => (Used(f)' <=> Used(f))
  BY <1>10 DEF Used
<1>12. TypeOK'
  <2>1. envs[e].env_id \in Ids
    BY <1>2, <1>4, UsedGeneration DEF IInv, Ids
  <2>2. old' \in [Slot -> Seq(Ids)]
    <3>1. <<envs[e].env_id>> \o old[e] \in Seq(Ids)
      BY <1>2, <1>3, <2>1 DEF TypeOK
    <3> QED
      BY <1>1, <1>3, <3>1 DEF TypeOK
  <2>3. creator' \in [Slot -> [env : Slot \cup {NULL}, age : 0 .. Generations]]
    <3>1. 0 \in 0 .. Generations
      BY EnvAssumption
    <3> QED
      BY <1>1, <1>3, <3>1 DEF TypeOK
  <2>4. mode' \in Modes
    BY <1>1, <1>2 DEF Modes
  <2> QED
    BY <1>1, <1>2, <1>3, <1>7, <1>8, <2>2, <2>3, <2>4 DEF TypeOK
<1>13. Control'
  <2>1. mode' # "free" /\ mode' # "user" /\ freeing' = NULL
    BY <1>1, <1>2
  <2>2. ForCurenv' => curenv' \in Slot /\ envs'[curenv'].env_status = "RUNNING"
    <3>1. ForCurenv' => freeing.then = "trap"
      BY <1>1, <2>1 DEF ForCurenv
    <3>2. freeing.then = "trap" => curenv \in Slot /\ envs[curenv].env_status = "RUNNING"
      BY <1>1, <1>3 DEF Control, ForCurenv
    <3> QED
      BY <1>1, <1>4, <1>10, <3>1, <3>2
  <2>3. mm'.cr3 # KernPgdir => mm'.cr3 = curenv' /\ Used(mm.cr3)'
    <3>1. mm.cr3 # KernPgdir => mm.cr3 = curenv /\ Used(mm.cr3) /\ mm.cr3 \in Slot
      BY <1>3, RunningMemory, EnvAssumption DEF Control
    <3>2. mm.cr3 # KernPgdir => envs'[mm'.cr3].env_status = envs[mm.cr3].env_status
      BY <1>4, <1>6, <1>10, <3>1
    <3> QED
      BY <1>1, <1>6, <3>1, <3>2 DEF Used
  <2> QED
    BY <2>1, <2>2, <2>3 DEF Control
<1>14. Spaces'
  <2>1. \A f \in Slot : Used(f)' <=> envs'[f].env_pgdir # NULL
    BY <1>3, <1>9, <1>10, <1>11 DEF Spaces
  <2>2. \A f, g \in Slot :
          envs'[f].env_pgdir # NULL /\ envs'[f].env_pgdir = envs'[g].env_pgdir => f = g
    BY <1>3, <1>9, <1>10 DEF Spaces
  <2>3. ASSUME NEW d \in Pgdirs, NEW x \in PDX, mm'.pgdir[d][x] # NULL
        PROVE  d \in Slot /\ Used(d)' /\ mode' # "free"
    <3>1. d \in Slot /\ Used(d) /\ (d = e => x >= freeing.pdeno)
      BY <1>e, <1>1, <1>3, <1>6, <2>3 DEF Spaces
    <3>2. ~(x >= freeing.pdeno)
      <4>1. PDX = 0 .. Cardinality(PDX) - 1 /\ Cardinality(PDX) \in Nat
        BY EnvAssumption, TablesAssumption, FS_CardinalityType
      <4> QED
        BY <1>1, <1>2, <4>1
    <3> QED
      BY <1>1, <1>2, <1>11, <3>1, <3>2
  <2> QED
    BY <2>1, <2>2, <2>3 DEF Spaces
<1>15. Memory'
  <2>1. Directories' = Directories \ {a}
    <3>1. \A f \in Slot : f # e /\ envs[f].env_pgdir # NULL => envs[f].env_pgdir # a
      BY <1>a, <1>2, <1>3 DEF Spaces
    <3> QED
      BY <1>a, <1>2, <1>9, <1>10, <3>1 DEF Directories
  <2> QED
    BY <1>6, <2>1 DEF Memory, Inv
<1>16. List'
  BY <1>1, <1>2, <1>4, <1>9, <1>10, <1>11, ListPush DEF IInv
<1>17. Histories'
  BY <1>1, <1>2, <1>3, <1>4, <1>9, <1>10, <1>11, HistoryFree DEF IInv
<1>18. Parents'
  BY <1>2, <1>3, <1>9, <1>10, <1>11, ParentsFree DEF IInv
<1>19. Registers'
  BY <1>9, <1>10, <1>11 DEF IInv, Registers
<1> QED
  BY <1>12, <1>13, <1>14, <1>15, <1>16, <1>17, <1>18, <1>19 DEF IInv

-----------------------------------------------------------------------------
(* env_alloc.                                                              *)

LEMMA UnchangedStep ==
  ASSUME IInv, UNCHANGED vars
  PROVE  IInv'
<1>1. /\ mm' = mm /\ UNCHANGED <<table, mode, freeing, old, creator>>
      /\ mm \in MMType /\ Memory
  BY DEF vars, IInv, TypeOK
<1>2. Inv(mm', Directories, Directories) \/ (Coherent(mm') /\ mm'.status # "run")
  BY <1>1 DEF Memory
<1> QED
  BY <1>1, <1>2, MemoryStep

(* The entry of a new environment, and the memory it takes.                *)
NewEntry(r, id, a, parent_id) ==
  [r EXCEPT !.env_id = id, !.env_parent_id = parent_id,
            !.env_status = "RUNNABLE", !.env_pgdir = a, !.env_tf = 0]

LEMMA NewEnvType ==
  ASSUME NEW r \in EnvType, NEW id \in Ids, NEW parent_id \in Ids \cup {0}, NEW a \in Page
  PROVE  /\ NewEntry(r, id, a, parent_id).env_id = id
         /\ NewEntry(r, id, a, parent_id).env_parent_id = parent_id
         /\ NewEntry(r, id, a, parent_id).env_status = "RUNNABLE"
         /\ NewEntry(r, id, a, parent_id).env_pgdir = a
         /\ NewEntry(r, id, a, parent_id).env_tf = 0
         /\ NewEntry(r, id, a, parent_id).env_link = r.env_link
         /\ NewEntry(r, id, a, parent_id) \in EnvType
BY DEF NewEntry, EnvType, Statuses

LEMMA CreateMemory ==
  ASSUME IInv, mm.status = "run", NEW e \in Slot, ~Used(e),
         NEW s, s = env_setup_vm(mm, e), s.pgdir # NULL
  PROVE  /\ s.pgdir \in Page /\ s.pgdir \notin Directories /\ s.st \in MMType
         /\ Inv(s.st, Directories \cup {s.pgdir}, Directories \cup {s.pgdir})
         /\ s.st.pgdir = mm.pgdir /\ s.st.cr3 = mm.cr3
<1> DEFINE D == Directories
           t == env_setup_vm(mm, e).st
           b == env_setup_vm(mm, e).pgdir
<1>1. D \in SUBSET Page /\ mm \in MMType /\ Inv(mm, D, D)
  BY RunningMemory
<1>2. e \in Pgdirs /\ \A x \in PDX : mm.pgdir[e][x] = NULL
  BY RunningMemory DEF IInv, Spaces
<1> HIDE DEF D
<1>3. env_setup_vm(mm, e).pgdir # NULL
  OBVIOUS
<1>4. /\ b \in Page /\ b \notin D /\ t \in MMType /\ Inv(t, D \cup {b}, D \cup {b})
      /\ t.pgdir = mm.pgdir /\ t.cr3 = mm.cr3
  BY <1>1, <1>2, <1>3, SetupVmInv
<1>5. s.pgdir = b /\ s.st = t
  OBVIOUS
<1> HIDE DEF b, t
<1> QED
  BY <1>4, <1>5 DEF D

(* The head of the free list becomes an environment with the directory a.  *)
Creates(e, s, c, parent_id) ==
  /\ InKernel
  /\ e = env_free_list /\ e # NULL /\ s = env_setup_vm(mm, e) /\ s.pgdir # NULL
  /\ c = IF mode = "trap" THEN curenv ELSE NULL
  /\ parent_id = IF mode = "trap" THEN envs[curenv].env_id ELSE 0
  /\ mm' = s.st
  /\ envs' = [envs EXCEPT ![e] = NewEnv(e, s.pgdir, parent_id)]
  /\ env_free_list' = envs[e].env_link
  /\ creator' = [f \in Slot |->
                   IF f = e THEN [env |-> c, age |-> 0]
                   ELSE IF creator[f].env = e /\ creator[f].age < Generations
                   THEN [creator[f] EXCEPT !.age = @ + 1] ELSE creator[f]]
  /\ UNCHANGED <<curenv, mode, freeing, old>>

LEMMA CreateStep ==
  ASSUME IInv, mm.status = "run", NEW parent_id \in Ids \cup {0}, NEW e, NEW s, NEW c,
         Creates(e, s, c, parent_id)
  PROVE  IInv'
<1> /\ InKernel
    /\ e = env_free_list /\ e # NULL /\ s = env_setup_vm(mm, e) /\ s.pgdir # NULL
    /\ c = IF mode = "trap" THEN curenv ELSE NULL
    /\ parent_id = IF mode = "trap" THEN envs[curenv].env_id ELSE 0
    /\ mm' = s.st
    /\ envs' = [envs EXCEPT ![e] = NewEnv(e, s.pgdir, parent_id)]
    /\ env_free_list' = envs[e].env_link
    /\ creator' = [f \in Slot |->
                     IF f = e THEN [env |-> c, age |-> 0]
                     ELSE IF creator[f].env = e /\ creator[f].age < Generations
                     THEN [creator[f] EXCEPT !.age = @ + 1] ELSE creator[f]]
    /\ UNCHANGED <<curenv, mode, freeing, old>>
  BY DEF Creates
<1>1. /\ TypeOK /\ Control /\ Spaces /\ List /\ Histories /\ Parents /\ Registers
      /\ envs \in [Slot -> EnvType]
  BY DEF IInv, TypeOK
<1>2. mode \in {"kernel", "trap"} /\ freeing = NULL
  BY <1>1 DEF InKernel, Control
<1>3. e \in Slot
  BY <1>1 DEF TypeOK
<1>4. ~Used(e)
  <2>1. PICK n \in 0 .. NENV : \E q \in [1 .. n -> Slot] : IsList(n, q)
    BY <1>1 DEF List
  <2>2. PICK q \in [1 .. n -> Slot] : IsList(n, q)
    BY <2>1
  <2>3. n # 0 /\ e = q[1]
    BY <2>2 DEF IsList
  <2>4. 1 \in 1 .. n
    BY <2>3
  <2> QED
    BY <2>2, <2>3, <2>4, <1>3 DEF IsList
<1>5. PICK g \in 0 .. Generations : History(e, g)
  BY <1>1, <1>3 DEF Histories
<1>6. NewId(e) \in Ids
  <2>1. envs[e].env_id = IF g = 0 THEN 0 ELSE Id(g, e)
    BY <1>5 DEF History
  <2>2. NewId(e) = Id(Succ(g), e) /\ Succ(g) \in 1 .. Generations
    BY <1>3, <2>1, NewIdIsNext, SuccRange
  <2> QED
    BY <1>3, <2>2 DEF Ids
<1>7. PICK a : a = s.pgdir
  OBVIOUS
<1>8. /\ a \in Page /\ a \notin Directories /\ mm' \in MMType
      /\ Inv(mm', Directories \cup {a}, Directories \cup {a})
      /\ mm'.pgdir = mm.pgdir /\ mm'.cr3 = mm.cr3
  BY <1>3, <1>4, <1>7, CreateMemory
<1>9. /\ envs'[e] = NewEntry(envs[e], NewId(e), a, parent_id)
      /\ envs' = [f \in Slot |-> envs'[f]]
      /\ \A f \in Slot : f # e => envs'[f] = envs[f]
  BY <1>1, <1>3, <1>7 DEF NewEnv, NewEntry
<1>10. envs[e] \in EnvType
  BY <1>1, <1>3
<1>11. /\ envs'[e].env_id = NewId(e) /\ envs'[e].env_parent_id = parent_id
       /\ envs'[e].env_status = "RUNNABLE" /\ envs'[e].env_pgdir = a
       /\ envs'[e].env_tf = 0 /\ envs'[e].env_link = envs[e].env_link
       /\ envs'[e] \in EnvType
  <2>1. PICK r \in EnvType : r = envs[e]
    BY <1>10
  <2>2. PICK id \in Ids : id = NewId(e)
    BY <1>6
  <2>3. a \in Page
    BY <1>8
  <2> DEFINE n == NewEntry(r, id, a, parent_id)
  <2>4. /\ n.env_id = id /\ n.env_parent_id = parent_id
        /\ n.env_status = "RUNNABLE" /\ n.env_pgdir = a
        /\ n.env_tf = 0 /\ n.env_link = r.env_link /\ n \in EnvType
    BY SMTT(30), <2>3, NewEnvType
  <2> QED
    BY <1>9, <2>1, <2>2, <2>4
<1>12. Used(e)' /\ \A f \in Slot : f # e => (Used(f)' <=> Used(f))
  BY <1>9, <1>11 DEF Used
<1>13. \A f \in Slot : Used(f) => f # e /\ Used(f)' /\ envs'[f] = envs[f]
  BY <1>4, <1>9, <1>12
<1>14. mode = "trap" => c \in Slot /\ Used(c) /\ c = curenv /\ envs[c].env_status = "RUNNING"
  BY <1>1 DEF Control, ForCurenv, Used
<1>15. c \in Slot \cup {NULL}
  BY <1>14
<1>16. /\ creator'[e].env = c /\ creator'[e].age = 0
       /\ creator'[e] \in [env : Slot \cup {NULL}, age : 0 .. Generations]
  <2>1. creator'[e] = [env |-> c, age |-> 0]
    BY <1>3
  <2>2. 0 \in 0 .. Generations
    BY EnvAssumption
  <2> QED
    BY <1>15, <2>1, <2>2
<1>17. ASSUME NEW f \in Slot, f # e
       PROVE  /\ creator'[f].env = creator[f].env
              /\ creator'[f].age = IF creator[f].env = e /\ creator[f].age < Generations
                                   THEN creator[f].age + 1 ELSE creator[f].age
              /\ creator'[f] \in [env : Slot \cup {NULL}, age : 0 .. Generations]
  <2>1. creator[f] \in [env : Slot \cup {NULL}, age : 0 .. Generations]
    BY <1>1 DEF TypeOK
  <2>2. CASE creator[f].env = e /\ creator[f].age < Generations
    <3>1. creator'[f] = [creator[f] EXCEPT !.age = @ + 1]
      BY <1>17, <2>2
    <3>2. creator[f].age + 1 \in 0 .. Generations
      BY <2>1, <2>2, EnvAssumption
    <3> QED
      BY <2>1, <2>2, <3>1, <3>2
  <2>3. CASE ~(creator[f].env = e /\ creator[f].age < Generations)
    <3>1. creator'[f] = creator[f]
      BY <1>17, <2>3
    <3> QED
      BY <2>1, <2>3, <3>1
  <2> QED
    BY <2>2, <2>3
<1>18. TypeOK'
  <2>1. envs' \in [Slot -> EnvType]
    BY <1>1, <1>9, <1>11
  <2>2. env_free_list' \in Slot \cup {NULL}
    BY <1>10 DEF EnvType
  <2>3. creator' \in [Slot -> [env : Slot \cup {NULL}, age : 0 .. Generations]]
    BY <1>16, <1>17
  <2> QED
    BY <1>1, <1>8, <2>1, <2>2, <2>3 DEF TypeOK
<1>19. Control'
  <2>1. ForCurenv' => curenv' \in Slot /\ envs'[curenv'].env_status = "RUNNING"
    BY <1>2, <1>13, <1>14 DEF ForCurenv
  <2>2. mm'.cr3 # KernPgdir => mm'.cr3 = curenv' /\ Used(mm.cr3)'
    <3>1. mm.cr3 # KernPgdir => mm.cr3 = curenv /\ Used(mm.cr3) /\ mm.cr3 \in Slot
      BY <1>1, RunningMemory, EnvAssumption DEF Control
    <3>2. mm.cr3 # KernPgdir => envs'[mm'.cr3] = envs[mm.cr3]
      BY <1>8, <1>13, <3>1
    <3> QED
      BY <1>8, <3>1, <3>2 DEF Used
  <2> QED
    BY <1>2, <2>1, <2>2 DEF Control
<1>20. Spaces'
  <2>1. \A f \in Slot : Used(f)' <=> envs'[f].env_pgdir # NULL
    <3>1. a # NULL
      BY <1>8, PagesAssumption
    <3> QED
      BY <1>1, <1>9, <1>11, <1>12, <3>1 DEF Spaces
  <2>2. \A f \in Slot : f # e => envs[f].env_pgdir # a
    BY <1>8, PagesAssumption DEF Directories
  <2>3. \A f, h \in Slot :
          envs'[f].env_pgdir # NULL /\ envs'[f].env_pgdir = envs'[h].env_pgdir => f = h
    BY <1>1, <1>9, <1>11, <2>2 DEF Spaces
  <2>4. \A d \in Pgdirs, x \in PDX : mm'.pgdir[d][x] # NULL => d \in Slot /\ Used(d)'
    BY <1>1, <1>8, <1>12 DEF Spaces
  <2> QED
    BY <1>2, <2>1, <2>3, <2>4 DEF Spaces
<1>21. Memory'
  <2>1. Directories' = Directories \cup {a}
    <3>1. envs[e].env_pgdir = NULL
      BY <1>1, <1>3, <1>4 DEF Spaces
    <3>2. a # NULL
      BY <1>8, PagesAssumption
    <3> QED
      BY <1>3, <1>9, <1>11, <3>1, <3>2 DEF Directories
  <2> QED
    BY <1>8, <2>1 DEF Memory, Inv
<1>22. List'
  BY <1>1, <1>9, <1>12, ListPop
<1>23. Histories'
  BY <1>1, <1>3, <1>4, <1>9, <1>11, <1>12, HistoryAlloc
<1>24. Parents'
  <2>1. c = NULL => envs'[e].env_parent_id = 0
    BY <1>11, <1>14, EnvAssumption
  <2>2. c # NULL => Used(c) /\ envs'[e].env_parent_id = envs[c].env_id
    BY <1>11, <1>14
  <2> QED
    BY <1>1, <1>3, <1>4, <1>9, <1>11, <1>12, <1>15, <1>16, <1>17, <2>1, <2>2, ParentsAlloc
<1>25. Registers'
  BY <1>1, <1>9, <1>11, <1>12 DEF Registers
<1> QED
  BY <1>18, <1>19, <1>20, <1>21, <1>22, <1>23, <1>24, <1>25 DEF IInv

LEMMA AllocStep ==
  ASSUME IInv, mm.status = "run", NEW parent_id \in Ids \cup {0}, env_alloc(parent_id)
  PROVE  IInv'
<1>1. PICK e : e = env_free_list
  OBVIOUS
<1>2. PICK s : s = env_setup_vm(mm, e)
  OBVIOUS
<1>3. PICK c : c = IF mode = "trap" THEN curenv ELSE NULL
  OBVIOUS
<1>4. CASE e = NULL \/ s.pgdir = NULL
  <2>1. UNCHANGED vars
    BY <1>1, <1>2, <1>4 DEF env_alloc
  <2> QED
    BY <2>1, UnchangedStep
<1>5. CASE e # NULL /\ s.pgdir # NULL
  <2>1. Creates(e, s, c, parent_id)
    BY <1>1, <1>2, <1>3, <1>5 DEF env_alloc, Unlink, Creates
  <2> QED
    BY <2>1, CreateStep
<1> QED
  BY <1>4, <1>5

-----------------------------------------------------------------------------
(* The remaining steps: to run an environment, to begin to free one.       *)

LEMMA KernelModes ==
  ASSUME IInv
  PROVE  /\ InKernel => mode \in {"kernel", "trap"} /\ freeing = NULL
         /\ mode = "trap" => InKernel /\ curenv \in Slot /\ Used(curenv)
BY DEF IInv, Control, ForCurenv, InKernel, Used

LEMMA ScheduleStep ==
  ASSUME IInv, mm.status = "run", NEW e \in Slot, Schedule(e)
  PROVE  IInv'
<1>1. Used(e) /\ mode # "free" /\ env_run(e)
  BY DEF Schedule, InKernel, Used
<1> QED
  BY <1>1, RunStep

LEMMA TrapReturnsStep ==
  ASSUME IInv, mm.status = "run", TrapReturns
  PROVE  IInv'
<1>1. mode = "trap" /\ curenv \in Slot /\ Used(curenv)
  BY KernelModes DEF TrapReturns
<1>2. CASE curenv # NULL /\ envs[curenv].env_status = "RUNNING"
  <2>1. env_run(curenv)
    BY <1>2 DEF TrapReturns
  <2> QED
    BY <1>1, <2>1, RunStep
<1>3. CASE ~(curenv # NULL /\ envs[curenv].env_status = "RUNNING")
  BY <1>3, PanicStep DEF TrapReturns
<1> QED
  BY <1>2, <1>3

LEMMA EnvFreeStep ==
  ASSUME IInv, mm.status = "run", NEW e \in Slot, env_free(e)
  PROVE  IInv'
<1>1. PICK then : then = IF e = curenv THEN "kernel" ELSE mode
  OBVIOUS
<1>2. Used(e) /\ mode \in {"kernel", "trap"} /\ BeginFree(e, then)
  BY <1>1, KernelModes DEF env_free, Live, Used
<1>3. then \in {"kernel", "trap", "monitor"} /\ (then = "trap" => mode = "trap" /\ e # curenv)
  BY <1>1, <1>2
<1> QED
  BY <1>2, <1>3, BeginFreeStep

LEMMA DestroyStep ==
  ASSUME IInv, mm.status = "run", mode = "trap", NEW e \in Slot, Used(e), env_destroy(e)
  PROVE  IInv'
<1>1. BeginFree(e, "monitor")
  BY DEF env_destroy
<1> QED
  BY <1>1, BeginFreeStep

LEMMA SysEnvDestroyStep ==
  ASSUME IInv, mm.status = "run", NEW envid \in Ids \cup {0}, sys_env_destroy(envid)
  PROVE  IInv'
<1>1. PICK r : r = envid2env(envid, TRUE)
  OBVIOUS
<1>2. mode = "trap" /\ IF r.ret = "OK" THEN env_destroy(r.env) ELSE UNCHANGED vars
  BY <1>1 DEF sys_env_destroy
<1>3. curenv \in Slot /\ Used(curenv)
  BY <1>2, KernelModes
<1>4. CASE r.ret = "OK"
  <2>1. r.env \in Slot /\ Used(r.env)
    <3>1. CASE envid = 0
      BY <1>1, <1>3, <3>1 DEF envid2env, Found
    <3>2. CASE envid # 0
      <4>1. envid \in Ids
        BY <3>2
      <4>2. PICK g \in 1 .. Generations : \E f \in Slot : envid = Id(g, f)
        BY <4>1 DEF Ids
      <4>3. PICK f \in Slot : envid = Id(g, f)
        BY <4>2
      <4>4. ENVX(envid) = f
        BY <4>3, SlotOfId
      <4>5. envs[f].env_status # "FREE" /\ r = Found(f)
        BY <1>1, <1>4, <3>2, <4>4 DEF envid2env, NotFound
      <4> QED
        BY <4>5 DEF Found, Used
    <3> QED
      BY <3>1, <3>2
  <2> QED
    BY <1>2, <1>4, <2>1, DestroyStep
<1>5. CASE r.ret # "OK"
  BY <1>2, <1>5, UnchangedStep
<1> QED
  BY <1>4, <1>5

-----------------------------------------------------------------------------
(* The invariant is inductive.                                             *)

LEMMA InitInv == Init => IInv
<1> SUFFICES ASSUME Init PROVE IInv
  OBVIOUS
<1>1. /\ NENV \in Nat \ {0} /\ Generations \in Nat \ {0} /\ 0 \in Slot
      /\ 0 \in 0 .. Generations /\ NULL \notin Slot
  BY EnvAssumption DEF Slot
<1>2. mm = Boot /\ mm \in MMType /\ Inv(mm, {}, {})
  BY BootType, BootInv DEF Init
<1>3. mm.cr3 = KernPgdir /\ \A d \in Pgdirs, x \in PDX : mm.pgdir[d][x] = NULL
  BY <1>2 DEF Boot
<1>4. \A e \in Slot :
        /\ envs[e].env_id = 0 /\ envs[e].env_status = "FREE" /\ envs[e].env_pgdir = NULL
        /\ envs[e].env_link = (IF e + 1 \in Slot THEN e + 1 ELSE NULL) /\ ~Used(e)
  BY DEF Init, Used
<1>5. TypeOK
  <2>1. envs \in [Slot -> EnvType]
    BY DEF Init, EnvType, Statuses
  <2>2. old \in [Slot -> Seq(Ids)] /\ \A e \in Slot : old[e] = <<>>
    BY DEF Init
  <2>3. creator \in [Slot -> [env : Slot \cup {NULL}, age : 0 .. Generations]]
    BY <1>1 DEF Init
  <2> QED
    BY <1>1, <1>2, <2>1, <2>2, <2>3 DEF Init, TypeOK, Modes
<1>6. Control
  BY <1>3 DEF Init, Control, ForCurenv
<1>7. Spaces
  BY <1>3, <1>4 DEF Spaces
<1>8. Memory
  <2>1. Directories = {}
    BY <1>4 DEF Directories
  <2> QED
    BY <1>2, <2>1 DEF Memory, Inv
<1>9. List
  <2> DEFINE q == [i \in 1 .. NENV |-> i - 1]
  <2>1. q \in [1 .. NENV -> Slot] /\ NENV \in 0 .. NENV
    BY <1>1 DEF Slot
  <2>2. \A i \in 1 .. NENV : q[i] = i - 1
    OBVIOUS
  <2> HIDE DEF q
  <2>3. env_free_list = IF NENV = 0 THEN NULL ELSE q[1]
    BY <1>1, <2>2 DEF Init
  <2>4. ASSUME NEW i \in 1 .. NENV
        PROVE  envs[q[i]].env_link = IF i = NENV THEN NULL ELSE q[i + 1]
    <3>1. i - 1 \in Slot /\ (i - 1) + 1 = i /\ (i \in Slot <=> i # NENV)
      BY <1>1 DEF Slot
    <3>2. envs[i - 1].env_link = IF i \in Slot THEN i ELSE NULL
      BY <1>4, <3>1
    <3>3. i # NENV => q[i + 1] = i
      BY <1>1, <2>2
    <3> QED
      BY <2>2, <3>1, <3>2, <3>3
  <2>5. \A i, j \in 1 .. NENV : q[i] = q[j] => i = j
    BY <1>1, <2>2
  <2>6. ASSUME NEW e \in Slot PROVE \E i \in 1 .. NENV : q[i] = e
    <3>1. e + 1 \in 1 .. NENV /\ (e + 1) - 1 = e
      BY <1>1 DEF Slot
    <3> QED
      BY <2>2, <3>1
  <2>7. IsList(NENV, q)
    BY <1>4, <2>3, <2>4, <2>5, <2>6 DEF IsList
  <2> QED
    BY <2>1, <2>7 DEF List
<1>10. Histories
  <2> SUFFICES ASSUME NEW e \in Slot PROVE History(e, 0)
    BY <1>1 DEF Histories
  <2>1. old[e] = <<>> /\ Len(old[e]) = 0
    BY DEF Init
  <2> QED
    BY <1>4, <2>1 DEF History
<1>11. Parents /\ Registers
  BY <1>4 DEF Parents, Registers
<1> QED
  BY <1>5, <1>6, <1>7, <1>8, <1>9, <1>10, <1>11 DEF IInv

LEMMA NextInv == IInv /\ [Next]_vars => IInv'
<1> SUFFICES ASSUME IInv, [Next]_vars PROVE IInv'
  OBVIOUS
<1>1. CASE UNCHANGED vars
  BY <1>1, UnchangedStep
<1>2. CASE InMonitor
  BY <1>2, UnchangedStep DEF InMonitor
<1>3. CASE mm.status = "run" /\ \E parent_id \in Ids \cup {0} : env_alloc(parent_id)
  BY <1>3, AllocStep
<1>4. CASE mm.status = "run" /\ \E e \in Slot, v \in VA : region_alloc(e, v)
  BY <1>4, RegionStep
<1>5. CASE mm.status = "run" /\ \E f \in Slot, v, w \in VA : ipc_send(v, f, w)
  BY <1>5, SendStep
<1>6. CASE mm.status = "run" /\ \E e \in Slot : Schedule(e) \/ env_free(e)
  BY <1>6, ScheduleStep, EnvFreeStep
<1>7. CASE mm.status = "run" /\ \E v \in VA : TlbFill(v)
  BY <1>7, TlbFillStep
<1>8. CASE mm.status = "run" /\ (trap \/ TrapReturns)
  BY <1>8, TrapStep, TrapReturnsStep
<1>9. CASE mm.status = "run" /\ (trap_dispatch \/ page_fault_handler)
  <2>1. mode = "trap" /\ env_destroy(curenv)
    BY <1>9 DEF trap_dispatch, page_fault_handler
  <2> QED
    BY <1>9, <2>1, KernelModes, DestroyStep
<1>10. CASE mm.status = "run" /\ \E envid \in Ids \cup {0} : sys_env_destroy(envid)
  BY <1>10, SysEnvDestroyStep
<1>11. CASE mm.status = "run" /\ (UnmapOne \/ FreeTable \/ FreeDirectory)
  BY <1>11, UnmapStep, FreeTableStep, DirectoryStep
<1> QED
  BY <1>1, <1>2, <1>3, <1>4, <1>5, <1>6, <1>7, <1>8, <1>9, <1>10, <1>11 DEF Next

(* The invariant holds in every state of every kernel.                     *)
THEOREM Invariance == Spec => []IInv
BY InitInv, NextInv, PTL DEF Spec

-----------------------------------------------------------------------------
(* The properties.                                                         *)

(* Every page has one use and the count of its uses, also in the middle of *)
(* env_free (MemoryAccounted).                                             *)
THEOREM EnvMemoryAccounted == Spec => []MemoryAccounted
<1>1. IInv => MemoryAccounted
  BY DEF IInv, Memory, Inv, MemoryAccounted
<1> QED
  BY <1>1, Invariance, PTL

(* The directory in cr3 and the cached translations are those of an        *)
(* address space that exists (AddressSpaceLives).                          *)
THEOREM RunningSpaceLives == Spec => []AddressSpaceLives
<1>1. IInv => AddressSpaceLives
  <2> SUFFICES ASSUME IInv PROVE AddressSpaceLives
    OBVIOUS
  <2>1. Control /\ Spaces /\ Coherent(mm) /\ mm.cr3 \in Pgdirs
    BY DEF IInv, Memory, TypeOK, MMType
  <2>2. mm.cr3 # KernPgdir => mm.cr3 \in Slot /\ Used(mm.cr3)
    BY <2>1, EnvAssumption DEF Control
  <2>3. mm.cr3 # KernPgdir => envs[mm.cr3].env_pgdir # NULL
    BY <2>1, <2>2 DEF Spaces
  <2>4. freeing # NULL => freeing.env # mm.cr3
    BY <2>1 DEF Control
  <2> QED
    BY <2>1, <2>3, <2>4 DEF AddressSpaceLives
<1> QED
  BY <1>1, Invariance, PTL

(* In user mode curenv runs, in its own directory, with its own registers  *)
(* (RunsAsItself).                                                         *)
THEOREM UserRunsAsItself == Spec => []RunsAsItself
<1>1. IInv => RunsAsItself
  BY DEF IInv, Control, ForCurenv, Registers, Used, RunsAsItself
<1> QED
  BY <1>1, Invariance, PTL

(* What envid2env makes of the id of generation g of slot e.               *)
LEMMA LookUp ==
  ASSUME NEW e \in Slot, NEW g \in 1 .. Generations, NEW checkperm \in BOOLEAN
  PROVE  /\ Id(g, e) \in Int /\ Id(g, e) > 0
         /\ envid2env(Id(g, e), checkperm) =
              IF \/ envs[e].env_status = "FREE" \/ envs[e].env_id # Id(g, e)
                 \/ checkperm /\ e # curenv /\ envs[e].env_parent_id # envs[curenv].env_id
              THEN NotFound ELSE Found(e)
         /\ NotFound # Found(e)
<1>1. Id(g, e) \in Int /\ Id(g, e) > 0 /\ ENVX(Id(g, e)) = e
  BY IdInt, SlotOfId
<1>2. Id(g, e) # 0
  BY <1>1
<1>3. NotFound.ret # Found(e).ret
  BY DEF NotFound, Found
<1> QED
  BY <1>1, <1>2, <1>3 DEF envid2env

(* An id finds the live environment it was given to, and nothing once that *)
(* is gone, until the generations of the slot wrap (StaleIdRejected).      *)
THEOREM OldIdsFindNothing == Spec => []StaleIdRejected
<1>1. IInv => StaleIdRejected
  <2> SUFFICES ASSUME IInv, NEW e \in Slot
               PROVE  /\ Live(e) => /\ envs[e].env_id > 0
                                    /\ envid2env(envs[e].env_id, FALSE) = Found(e)
                      /\ \A i \in 1 .. Len(old[e]) :
                           i < Generations => envid2env(old[e][i], FALSE) = NotFound
    BY DEF StaleIdRejected
  <2>1. TypeOK /\ Histories /\ Len(old[e]) \in Nat
    BY DEF IInv, TypeOK
  <2>2. ASSUME Live(e)
        PROVE  envs[e].env_id > 0 /\ envid2env(envs[e].env_id, FALSE) = Found(e)
    <3>1. Used(e)
      BY <2>2 DEF Live, Used
    <3>2. PICK g \in 1 .. Generations : envs[e].env_id = Id(g, e)
      BY <2>1, <3>1, UsedGeneration
    <3> QED
      BY <3>1, <3>2, LookUp DEF Used
  <2>3. ASSUME NEW i \in 1 .. Len(old[e]), i < Generations
        PROVE  envid2env(old[e][i], FALSE) = NotFound
    <3>1. PICK g \in 0 .. Generations : History(e, g)
      BY <2>1 DEF Histories
    <3>2. g \in 1 .. Generations /\ Generations \in Nat
      <4>1. g # 0
        BY <2>1, <3>1 DEF History
      <4> QED
        BY <4>1, EnvAssumption
    <3>3. PICK k : k = IF Used(e) THEN i ELSE i - 1
      OBVIOUS
    <3>4. k \in 0 .. Generations - 1 /\ (Used(e) => k # 0)
      <4>1. i \in 1 .. Generations - 1
        BY <2>1, <2>3, <3>2
      <4>2. k = i \/ (k = i - 1 /\ ~Used(e))
        BY <3>3
      <4> QED
        BY <3>2, <4>1, <4>2
    <3>5. old[e][i] = Id(Back(g, k), e)
      <4>1. k < Generations
        BY <3>2, <3>4
      <4>2. CASE Used(e)
        BY <3>1, <3>3, <4>1, <4>2 DEF History
      <4>3. CASE ~Used(e)
        BY <3>1, <3>3, <4>1, <4>3 DEF History
      <4> QED
        BY <4>2, <4>3
    <3>6. Back(g, k) \in 1 .. Generations /\ (Back(g, k) = g <=> k = 0)
      BY <3>2, <3>4, BackSucc
    <3>7. Used(e) => envs[e].env_id # Id(Back(g, k), e)
      BY <3>1, <3>2, <3>4, <3>6, IdInjective DEF History
    <3> QED
      BY <3>5, <3>6, <3>7, LookUp DEF Used
  <2> QED
    BY <2>2, <2>3
<1> QED
  BY <1>1, Invariance, PTL

(* With checkperm curenv reaches itself and its children, whoever had its  *)
(* slot before it (OnlySelfOrChild).                                       *)
THEOREM ReachesSelfOrChild == Spec => []OnlySelfOrChild
<1>1. IInv => OnlySelfOrChild
  <2> SUFFICES ASSUME IInv, mode = "trap",
                      NEW e \in Slot, Live(e), creator[e].age < Generations
               PROVE  envid2env(envs[e].env_id, TRUE) = Found(e)
                        <=> e = curenv \/ creator[e] = [env |-> curenv, age |-> 0]
    BY DEF OnlySelfOrChild
  <2>1. TypeOK /\ Histories /\ Parents
    BY DEF IInv
  <2>2. Used(e) /\ curenv \in Slot /\ Used(curenv) /\ NULL # curenv
    BY KernelModes, EnvAssumption DEF Live, Used
  <2>3. PICK g \in 1 .. Generations : envs[e].env_id = Id(g, e)
    BY <2>1, <2>2, UsedGeneration
  <2>4. PICK h \in 1 .. Generations : envs[curenv].env_id = Id(h, curenv)
    BY <2>1, <2>2, UsedGeneration
  <2>5. envid2env(envs[e].env_id, TRUE) = Found(e)
          <=> e = curenv \/ envs[e].env_parent_id = Id(h, curenv)
    BY <2>2, <2>3, <2>4, LookUp DEF Used
  <2>6. PICK c \in Slot \cup {NULL} : c = creator[e].env
    BY <2>1 DEF TypeOK
  <2>7. PICK k \in 0 .. Generations : k = creator[e].age /\ k < Generations
    BY <2>1 DEF TypeOK
  <2>8. creator[e] = [env |-> curenv, age |-> 0] <=> c = curenv /\ k = 0
    BY <2>1, <2>6, <2>7 DEF TypeOK
  <2>9. envs[e].env_parent_id = Id(h, curenv) <=> c = curenv /\ k = 0
    <3>1. CASE c = NULL
      <4>1. envs[e].env_parent_id = 0
        BY <2>1, <2>2, <2>6, <3>1 DEF Parents
      <4>2. Id(h, curenv) # 0
        BY <2>2, IdInt
      <4> QED
        BY <2>2, <3>1, <4>1, <4>2
    <3>2. CASE c # NULL
      <4>1. c \in Slot
        BY <3>2
      <4>2. PICK p \in 1 .. Generations : Parentage(e, c, k, p)
        BY <2>1, <2>2, <2>6, <2>7, <3>2 DEF Parents
      <4>3. envs[c].env_id = Id(p, c) /\ envs[e].env_parent_id = Id(Back(p, k), c)
        BY <4>2 DEF Parentage
      <4>4. k \in 0 .. Generations - 1
        BY <2>7, EnvAssumption
      <4>5. Back(p, k) \in 1 .. Generations /\ (Back(p, k) = p <=> k = 0)
        BY <4>4, BackSucc
      <4>6. c = curenv => p = h
        BY <2>2, <2>4, <4>3, IdInjective
      <4>7. Id(Back(p, k), c) = Id(h, curenv) => Back(p, k) = h /\ c = curenv
        BY <2>2, <4>1, <4>5, IdInjective
      <4> QED
        BY <4>3, <4>5, <4>6, <4>7
    <3> QED
      BY <3>1, <3>2
  <2> QED
    BY <2>5, <2>8, <2>9
<1> QED
  BY <1>1, Invariance, PTL

-----------------------------------------------------------------------------
(* The list of free slots as Nth walks it.                                 *)

(* Nth runs along the slots of the list and then stays at NULL.            *)
LEMMA NthOfList ==
  ASSUME NEW n \in 0 .. NENV, NEW q \in [1 .. n -> Slot], IsList(n, q)
  PROVE  Nth = [m \in 0 .. NENV |-> IF m < n THEN q[m + 1] ELSE NULL]
<1> DEFINE Step(h) ==
             [m \in 0 .. NENV |->
                IF m = 0 THEN env_free_list
                ELSE IF h[m - 1] = NULL THEN NULL ELSE envs[h[m - 1]].env_link]
           F == [m \in 0 .. NENV |-> IF m < n THEN q[m + 1] ELSE NULL]
<1>1. NENV \in Nat /\ n \in Nat /\ NULL \notin Slot
  BY EnvAssumption
<1>2. /\ env_free_list = IF n = 0 THEN NULL ELSE q[1]
      /\ \A i \in 1 .. n : envs[q[i]].env_link = IF i = n THEN NULL ELSE q[i + 1]
      /\ \A i \in 1 .. n : q[i] \in Slot /\ q[i] # NULL
  BY <1>1 DEF IsList
<1>3. \A m \in 0 .. NENV : F[m] = IF m < n THEN q[m + 1] ELSE NULL
  OBVIOUS
<1>4. ASSUME NEW m \in 0 .. NENV, m # 0
      PROVE  F[m] = IF F[m - 1] = NULL THEN NULL ELSE envs[F[m - 1]].env_link
  <2>1. m - 1 \in 0 .. NENV /\ (m - 1) + 1 = m
    BY <1>1, <1>4
  <2>2. F[m - 1] = IF m - 1 < n THEN q[m] ELSE NULL
    BY <1>3, <2>1
  <2>3. CASE m - 1 < n
    <3>1. m \in 1 .. n /\ (m = n <=> ~(m < n))
      BY <1>1, <1>4, <2>3
    <3>2. envs[q[m]].env_link = IF m = n THEN NULL ELSE q[m + 1]
      BY <1>2, <3>1
    <3> QED
      BY <1>2, <1>3, <2>2, <2>3, <3>1, <3>2
  <2>4. CASE ~(m - 1 < n)
    BY <1>1, <1>3, <2>2, <2>4
  <2> QED
    BY <2>3, <2>4
<1>5. F[0] = env_free_list
  <2>1. 0 \in 0 .. NENV
    BY <1>1
  <2> QED
    BY <1>1, <1>2, <1>3, <2>1
<1>6. F = Step(F)
  BY <1>4, <1>5
<1>7. Nth = CHOOSE h : h = Step(h)
  BY DEF Nth
<1> HIDE DEF F
<1>8. Nth = Step(Nth)
  <2> HIDE DEF Step
  <2> QED
    BY <1>6, <1>7
<1>9. \A m \in 0 .. NENV :
        Nth[m] = IF m = 0 THEN env_free_list
                 ELSE IF Nth[m - 1] = NULL THEN NULL ELSE envs[Nth[m - 1]].env_link
  BY <1>8
<1> DEFINE S == {m \in Nat : m \in 0 .. NENV => Nth[m] = F[m]}
<1>10. 0 \in S
  BY <1>1, <1>5, <1>9
<1>11. ASSUME NEW m \in Nat, m \in S PROVE m + 1 \in S
  <2> SUFFICES ASSUME m + 1 \in 0 .. NENV PROVE Nth[m + 1] = F[m + 1]
    OBVIOUS
  <2>1. m \in 0 .. NENV /\ m + 1 # 0 /\ (m + 1) - 1 = m
    BY <1>1
  <2>2. Nth[m] = F[m]
    BY <1>11, <2>1
  <2> QED
    BY <1>4, <1>9, <2>1, <2>2
<1>12. \A m \in 0 .. NENV : Nth[m] = F[m]
  <2>1. Nat \subseteq S
    BY <1>10, <1>11, SetInduction
  <2> QED
    BY <1>1, <2>1
<1>13. Nth = [m \in 0 .. NENV |-> Nth[m]]
  BY <1>8
<1> QED
  BY <1>12, <1>13 DEF F

(* The list of free slots ends, and links exactly the free slots           *)
(* (EnvListIsChain).                                                       *)
THEOREM FreeEnvsListed == Spec => []EnvListIsChain
<1>1. IInv => EnvListIsChain
  <2> SUFFICES ASSUME IInv PROVE EnvListIsChain
    OBVIOUS
  <2>1. PICK n \in 0 .. NENV : \E q \in [1 .. n -> Slot] : IsList(n, q)
    BY DEF IInv, List
  <2>2. PICK q \in [1 .. n -> Slot] : IsList(n, q)
    BY <2>1
  <2>3. NENV \in Nat /\ n \in Nat /\ NULL \notin Slot
    BY EnvAssumption
  <2>4. \A m \in 0 .. NENV : Nth[m] = IF m < n THEN q[m + 1] ELSE NULL
    BY <2>2, NthOfList
  <2>5. Nth[NENV] = NULL
    BY <2>3, <2>4
  <2>6. ASSUME NEW m \in 0 .. NENV, Nth[m] # NULL
        PROVE  Nth[m] \in Slot /\ ~Used(Nth[m])
    <3>1. m + 1 \in 1 .. n /\ Nth[m] = q[m + 1]
      BY <2>3, <2>4, <2>6
    <3> QED
      BY <2>2, <3>1 DEF IsList
  <2>7. ASSUME NEW e \in Slot, ~Used(e)
        PROVE  e # NULL /\ \E m \in 0 .. NENV : Nth[m] = e
    <3>1. PICK i \in 1 .. n : q[i] = e
      BY <2>2, <2>7 DEF IsList
    <3>2. i - 1 \in 0 .. NENV /\ i - 1 < n /\ (i - 1) + 1 = i
      BY <2>3
    <3> QED
      BY <2>3, <2>4, <3>1, <3>2
  <2>8. {Nth[m] : m \in 0 .. NENV} \ {NULL} = {e \in Slot : ~Used(e)}
    BY <2>6, <2>7
  <2> QED
    BY <2>5, <2>8 DEF EnvListIsChain, Used
<1> QED
  BY <1>1, Invariance, PTL

=============================================================================
