-------------------------------- MODULE Env ---------------------------------
(***************************************************************************)
(* The environments of kern/env.c, with the trap entry of kern/trap.c and  *)
(* the system calls of kern/syscall.c that act on them: the table envs[],  *)
(* the ids that name its slots, and the address spaces env_free takes      *)
(* apart over the functions of kern/pmap.c (PmapOps).                      *)
(*                                                                         *)
(* envid2env, env_alloc, env_free, env_destroy, trap, trap_dispatch and    *)
(* sys_env_destroy are complete in the source.  What they rest on is left  *)
(* to be written there: env_init, the end of env_setup_vm, region_alloc,   *)
(* env_run and the dispatch of traps and calls.  Those are external here,  *)
(* with the effect the finished functions need of them.                    *)
(*                                                                         *)
(* The kernel is not interrupted, so a call is one step; only env_free, a  *)
(* loop over the page tables, is stepped through, because the processor    *)
(* translates addresses while it runs.                                     *)
(***************************************************************************)
EXTENDS PmapState, Functions

CONSTANTS
  NENV,         \* slots of envs[]
  ENVGEN,       \* 1 << ENVGENSHIFT, the generation 1 in an id: 2^12 in the code
  Generations,  \* the positive generations of an envid_t: 2^19 - 1 in the code
  MaxEnvs       \* bound: the environments created in a run

Slot == 0 .. NENV - 1
Modes == {"kernel", "user", "trap", "free", "monitor"}

ASSUME EnvAssumption ==
  /\ NENV \in Nat \ {0} /\ ENVGEN \in Nat \ {0}
  /\ \E k \in 1 .. ENVGEN : ENVGEN = k * NENV
  /\ Generations \in Nat \ {0} /\ MaxEnvs \in Nat
  /\ NULL \notin Slot /\ NULL \notin [env : Slot, pdeno : Nat, then : Modes]
  /\ KernPgdir \notin Slot /\ Pgdirs = Slot \cup {KernPgdir}
  /\ PDX = 0 .. Cardinality(PDX) - 1 /\ PTX = 0 .. Cardinality(PTX) - 1

VARIABLES
  mm,             \* the memory manager (MMType in PmapOps); the directory of
                  \* the environment in slot e is mm.pgdir[e]
  envs,           \* the table; env_pgdir is the page of the directory, env_tf
                  \* the id of the environment the saved registers come from
  env_free_list,
  curenv,
  mode,           \* in Modes: "trap" is the kernel on behalf of curenv,
                  \* "free" env_free, "monitor" the end of env_destroy
  freeing,        \* env_free's e and pdeno, and the mode it returns to
  old,            \* auxiliary: the earlier ids of each slot, the latest first
  creator         \* auxiliary: who created the environment of a slot, and how
                  \* often the creator's slot was given out since
table == <<envs, env_free_list, curenv>>
vars  == <<mm, table, mode, freeing, old, creator>>

-----------------------------------------------------------------------------
(* Ids.                                                                    *)

(* An envid_t runs from -IdHalf to IdHalf - 1.                             *)
IdHalf == ENVGEN * (Generations + 1)

Wrap(n) == ((n + IdHalf) % (2 * IdHalf)) - IdHalf

ENVX(envid) == envid % NENV

(* Mutant: the generation is not advanced.                                 *)
NewIdSameGeneration(e) ==
  LET generation == envs[e].env_id - ENVX(envs[e].env_id)
  IN  (IF generation <= 0 THEN ENVGEN ELSE generation) + e

NewId(e) ==
  LET sum        == Wrap(envs[e].env_id + ENVGEN)
      generation == sum - ENVX(sum)
  IN  (IF generation <= 0 THEN ENVGEN ELSE generation) + e

(* The ids given out.  After Generations of them a slot begins again.      *)
Id(g, e) == g * ENVGEN + e
Ids == {Id(g, e) : g \in 1 .. Generations, e \in Slot}

Found(e)  == [ret |-> "OK", env |-> e]
NotFound  == [ret |-> "E_BAD_ENV", env |-> NULL]

(* Mutant: the parent is not compared (line 99).                           *)
envid2env_any(envid, checkperm) ==
  LET e == ENVX(envid) IN
  IF envid = 0 THEN Found(curenv)
  ELSE IF envs[e].env_status = "FREE" \/ envs[e].env_id # envid
  THEN NotFound
  ELSE Found(e)

envid2env(envid, checkperm) ==
  LET e == ENVX(envid) IN
  IF envid = 0 THEN Found(curenv)
  ELSE IF \/ envs[e].env_status = "FREE" \/ envs[e].env_id # envid
          \/ checkperm /\ e # curenv /\ envs[e].env_parent_id # envs[curenv].env_id
  THEN NotFound
  ELSE Found(e)

-----------------------------------------------------------------------------
(* The table as env_init is to leave it, with the memory of page_init.     *)
Init ==
  /\ mm = Boot
  /\ envs = [e \in Slot |->
               [env_id |-> 0, env_parent_id |-> 0, env_status |-> "FREE",
                env_link |-> IF e + 1 \in Slot THEN e + 1 ELSE NULL,
                env_pgdir |-> NULL, env_tf |-> 0]]
  /\ env_free_list = 0
  /\ curenv = NULL
  /\ mode = "kernel" /\ freeing = NULL
  /\ old = [e \in Slot |-> <<>>]
  /\ creator = [e \in Slot |-> [env |-> NULL, age |-> 0]]

Live(e) == envs[e].env_status # "FREE" /\ (freeing # NULL => freeing.env # e)
InKernel == mode \in {"kernel", "trap"}

-----------------------------------------------------------------------------
(* env_alloc.                                                              *)

(* The directory page counts one reference; above UTOP it is filled from   *)
(* kern_pgdir, below it is empty.                                          *)
env_setup_vm(s, e) ==
  LET a == page_alloc(s, 1) IN
  IF a.pp = NULL
  THEN [st |-> s, pgdir |-> NULL]
  ELSE [st    |-> [page_incref(a.st, a.pp) EXCEPT
                     !.mem[a.pp] = Scribbled, !.pgdir[e] = [x \in PDX |-> NULL]],
        pgdir |-> a.pp]

(* Mutant: the saved registers of the last environment stay (line 224).    *)
NewEnvLeaky(e, pgdir, parent_id) ==
  [envs[e] EXCEPT !.env_id = NewId(e), !.env_parent_id = parent_id,
                  !.env_status = "RUNNABLE", !.env_pgdir = pgdir]

NewEnv(e, pgdir, parent_id) ==
  [envs[e] EXCEPT !.env_id = NewId(e), !.env_parent_id = parent_id,
                  !.env_status = "RUNNABLE", !.env_pgdir = pgdir, !.env_tf = 0]

(* Mutant: the list still begins with the slot given out (line 242).       *)
UnlinkNone(e) == e

Unlink(e) == envs[e].env_link

Created ==
  FoldFunction(LAMBDA ids, n : n + Len(ids), 0, old)
    + Cardinality({e \in Slot : envs[e].env_status # "FREE"})

(* The kernel creates an environment of its own (parent 0) or one for      *)
(* curenv.  Without a free slot or a page for the directory nothing        *)
(* changes.                                                                *)
env_alloc(parent_id) ==
  LET e == env_free_list
      s == env_setup_vm(mm, e)
  IN  /\ InKernel /\ Created < MaxEnvs
      /\ parent_id = IF mode = "trap" THEN envs[curenv].env_id ELSE 0
      /\ IF e = NULL \/ s.pgdir = NULL
         THEN UNCHANGED vars
         ELSE /\ mm' = s.st
              /\ envs' = [envs EXCEPT ![e] = NewEnv(e, s.pgdir, parent_id)]
              /\ env_free_list' = Unlink(e)
              /\ creator' =
                   [f \in Slot |->
                      IF f = e
                      THEN [env |-> IF mode = "trap" THEN curenv ELSE NULL, age |-> 0]
                      ELSE IF creator[f].env = e /\ creator[f].age < Generations
                      THEN [creator[f] EXCEPT !.age = @ + 1] ELSE creator[f]]
              /\ UNCHANGED <<curenv, mode, freeing, old>>

-----------------------------------------------------------------------------
(* What a kernel does with an environment between creating and freeing it. *)

(* A page of memory for address v, filled with the program, before the     *)
(* environment runs.  Without one for the page or its table the kernel     *)
(* panics.                                                                 *)
region_alloc(e, v) ==
  LET a == page_alloc(mm, 0)
      i == page_insert(a.st, e, a.pp, v, {"W", "U"})
  IN  /\ mode = "kernel" /\ Live(e) /\ ~IsMapped(mm, e, v)
      /\ mm' = IF a.pp = NULL \/ i.ret # "OK"
               THEN [mm EXCEPT !.status = "panic"]
               ELSE [i.st EXCEPT !.mem[a.pp] = Scribbled]
      /\ UNCHANGED <<table, mode, freeing, old, creator>>

(* curenv sends the page at v to another environment, which receives it at *)
(* w (user/sendpage.c).                                                    *)
ipc_send(v, f, w) ==
  /\ mode = "trap" /\ Live(f) /\ f # curenv
  /\ IsMapped(mm, curenv, v) /\ RefFits(mm, Pte(mm, curenv, v).addr)
  /\ mm' = page_insert(mm, f, Pte(mm, curenv, v).addr, w, {"W", "U"}).st
  /\ UNCHANGED <<table, mode, freeing, old, creator>>

(* The environment that ran is runnable again, e runs in its directory.    *)
env_run(e) ==
  /\ envs' = [f \in Slot |->
                IF f = e THEN [envs[f] EXCEPT !.env_status = "RUNNING"]
                ELSE IF f = curenv /\ envs[f].env_status = "RUNNING"
                THEN [envs[f] EXCEPT !.env_status = "RUNNABLE"] ELSE envs[f]]
  /\ curenv' = e
  /\ mm' = lcr3(mm, e)
  /\ mode' = "user"
  /\ UNCHANGED <<env_free_list, freeing, old, creator>>

Schedule(e) == InKernel /\ envs[e].env_status = "RUNNABLE" /\ env_run(e)

(* The processor caches the translation of v, in any mode.                 *)
TlbFill(v) ==
  /\ IsMapped(mm, mm.cr3, v)
  /\ mm' = Translate(mm, v)
  /\ UNCHANGED <<table, mode, freeing, old, creator>>

-----------------------------------------------------------------------------
(* Traps.                                                                  *)

(* A trap from user mode: the registers, which by now hold the data of     *)
(* curenv, are copied to its env_tf.                                       *)
trap ==
  /\ mode = "user"
  /\ envs' = [envs EXCEPT ![curenv].env_tf = envs[curenv].env_id]
  /\ mode' = "trap"
  /\ UNCHANGED <<mm, env_free_list, curenv, freeing, old, creator>>

(* "Return to the current environment, which should be running."           *)
TrapReturns ==
  /\ mode = "trap"
  /\ IF curenv # NULL /\ envs[curenv].env_status = "RUNNING"
     THEN env_run(curenv)
     ELSE /\ mm' = [mm EXCEPT !.status = "panic"]
          /\ UNCHANGED <<table, mode, freeing, old, creator>>

-----------------------------------------------------------------------------
(* env_free                                                                *)

(* Mutant: the directory stays loaded (lines 374 and 375 missing).         *)
LeaveDirectoryNever(e) == mm

LeaveDirectory(e) == IF e = curenv THEN lcr3(mm, KernPgdir) ELSE mm

BeginFree(e, then) ==
  /\ mm' = LeaveDirectory(e)
  /\ freeing' = [env |-> e, pdeno |-> 0, then |-> then]
  /\ mode' = "free"
  /\ UNCHANGED <<table, old, creator>>

(* env_free called by a kernel that goes on, as env.h offers it: with      *)
(* curenv gone it runs another environment before it serves a trap.        *)
env_free(e) ==
  /\ InKernel /\ Live(e)
  /\ BeginFree(e, IF e = curenv THEN "kernel" ELSE mode)

(* env_destroy ends in the monitor.                                        *)
env_destroy(e) == BeginFree(e, "monitor")

(* A trap nobody handles ends the environment.  (One of the kernel itself  *)
(* panics: the kernel of this model makes none.)                           *)
trap_dispatch == mode = "trap" /\ env_destroy(curenv)

(* So does a page fault of the user.                                       *)
page_fault_handler == mode = "trap" /\ env_destroy(curenv)

sys_env_destroy(envid) ==
  /\ mode = "trap"
  /\ LET r == envid2env(envid, TRUE) IN
     IF r.ret = "OK" THEN env_destroy(r.env) ELSE UNCHANGED vars

(* One entry of the table of pdeno, the first that is present.             *)
UnmapOne ==
  /\ mode = "free" /\ freeing.pdeno \in PDX
  /\ \E y \in PTX :
       /\ IsMapped(mm, freeing.env, <<freeing.pdeno, y>>)
       /\ \A z \in PTX : z < y => ~IsMapped(mm, freeing.env, <<freeing.pdeno, z>>)
       /\ mm' = page_remove(mm, freeing.env, <<freeing.pdeno, y>>)
  /\ UNCHANGED <<table, mode, freeing, old, creator>>

(* Mutant: a table is given back before its entries are removed.           *)
EmptiedAlways == TRUE

Emptied == \A y \in PTX : ~IsMapped(mm, freeing.env, <<freeing.pdeno, y>>)

(* The table itself; a slot without a table is passed over.                *)
FreeTable ==
  /\ mode = "free" /\ freeing.pdeno \in PDX /\ Emptied
  /\ LET pt == mm.pgdir[freeing.env][freeing.pdeno] IN
     mm' = IF pt = NULL THEN mm
           ELSE page_decref([mm EXCEPT !.pgdir[freeing.env][freeing.pdeno] = NULL], pt)
  /\ freeing' = [freeing EXCEPT !.pdeno = @ + 1]
  /\ UNCHANGED <<table, mode, old, creator>>

(* The directory and the slot.                                             *)
FreeDirectory ==
  /\ mode = "free" /\ freeing.pdeno \notin PDX
  /\ LET e == freeing.env IN
     /\ mm' = page_decref(mm, envs[e].env_pgdir)
     /\ envs' = [envs EXCEPT ![e].env_pgdir = NULL, ![e].env_status = "FREE",
                             ![e].env_link = env_free_list]
     /\ env_free_list' = e
     /\ old' = [old EXCEPT ![e] = <<envs[e].env_id>> \o @]
     /\ creator' = [creator EXCEPT ![e] = [env |-> NULL, age |-> 0]]
  /\ mode' = freeing.then /\ freeing' = NULL
  /\ UNCHANGED curenv

(* while (1) monitor(NULL), in env_destroy and in _panic.                  *)
InMonitor == (mode = "monitor" \/ mm.status = "panic") /\ UNCHANGED vars

Next ==
  \/ InMonitor
  \/ /\ mm.status = "run"
     /\ \/ \E parent_id \in Ids \cup {0} : env_alloc(parent_id)
        \/ \E e \in Slot, v \in VA : region_alloc(e, v)
        \/ \E f \in Slot, v, w \in VA : ipc_send(v, f, w)
        \/ \E e \in Slot : Schedule(e) \/ env_free(e)
        \/ \E v \in VA : TlbFill(v)
        \/ trap \/ TrapReturns \/ trap_dispatch \/ page_fault_handler
        \/ \E envid \in Ids \cup {0} : sys_env_destroy(envid)
        \/ UnmapOne \/ FreeTable \/ FreeDirectory

Spec == Init /\ [][Next]_vars

-----------------------------------------------------------------------------
(* Properties.                                                             *)

(* Every page has one use at every moment, also in the middle of env_free: *)
(* reserved, free, a directory, a table, or data of some environment; and  *)
(* its count is that of its uses.  So env_free gives back all an           *)
(* environment had, except what another one shares.                        *)
Directories == {envs[e].env_pgdir : e \in Slot} \ {NULL}
MemoryAccounted ==
  mm.status = "run" =>
    /\ Disjoint(mm, Directories) /\ Covered(mm, Directories)
    /\ RefsOK(mm, Directories)

(* The directory the processor uses, and every translation it has cached,  *)
(* belong to an address space that exists: env_free never takes the memory *)
(* under the running processor.                                            *)
AddressSpaceLives ==
  /\ mm.cr3 # KernPgdir =>
       envs[mm.cr3].env_pgdir # NULL /\ (freeing # NULL => freeing.env # mm.cr3)
  /\ Coherent(mm)

(* The list of free slots: the n-th slot on it.                            *)
Nth[n \in 0 .. NENV] ==
  IF n = 0 THEN env_free_list
  ELSE IF Nth[n - 1] = NULL THEN NULL ELSE envs[Nth[n - 1]].env_link

(* The list ends, and links exactly the free slots.                        *)
EnvListIsChain ==
  /\ Nth[NENV] = NULL
  /\ {Nth[n] : n \in 0 .. NENV} \ {NULL} = {e \in Slot : envs[e].env_status = "FREE"}

(* The id of a live environment is positive and finds it; an id of an      *)
(* environment that is gone finds nothing, until the generations of its    *)
(* slot have wrapped.                                                      *)
StaleIdRejected ==
  \A e \in Slot :
    /\ Live(e) => envs[e].env_id > 0 /\ envid2env(envs[e].env_id, FALSE) = Found(e)
    /\ \A i \in 1 .. Len(old[e]) :
         i < Generations => envid2env(old[e][i], FALSE) = NotFound

(* With checkperm curenv reaches itself and the environments it created,   *)
(* and no other, whoever had its slot before (until the generations wrap). *)
OnlySelfOrChild ==
  mode = "trap" =>
    \A e \in Slot :
      Live(e) /\ creator[e].age < Generations =>
        (envid2env(envs[e].env_id, TRUE) = Found(e)
           <=> e = curenv \/ creator[e] = [env |-> curenv, age |-> 0])

(* What runs in user mode is curenv, in its own directory, with registers  *)
(* that are its own or clear: nothing of the last environment of the slot. *)
RunsAsItself ==
  mode = "user" =>
    /\ envs[curenv].env_status = "RUNNING"
    /\ mm.cr3 = curenv
    /\ envs[curenv].env_tf \in {0, envs[curenv].env_id}
=============================================================================
