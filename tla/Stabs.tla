------------------------------- MODULE Stabs --------------------------------
(***************************************************************************)
(* kern/kdebug.c: debuginfo_eip, which names the file, function and line   *)
(* of an instruction for the backtrace, and stab_binsearch, which it calls *)
(* three times.  One probe of the binary search is a step.                 *)
(*                                                                         *)
(* A stab is [type, value, desc]; its string is named by its index, since  *)
(* every n_strx of the tables is in the string table.                      *)
(***************************************************************************)
EXTENDS Integers, FiniteSets, FiniteSetsExt

CONSTANTS
  Tables,   \* symbol tables, functions from 0 .. n - 1 to stabs
  Addrs,    \* addresses to look up
  UINTPTRS  \* the number of values of uintptr_t

StabType == {"UNDF", "SO", "SOL", "FUN", "PSYM", "SLINE"}

(* No function and no file begins behind stab j up to stab k.              *)
Unbroken(t, j, k) == \A i \in j + 1 .. k : t[i].type \notin {"FUN", "SO"}

(* Tables as compiler and linker make them: the linker puts a header first *)
(* and the files in the order of their addresses; a file is at or below    *)
(* its functions and not at 0; lines ascend in a function, as offsets, and *)
(* in an assembly file, as addresses.                                      *)
Compiled(t) ==
  LET Of(type) == {k \in DOMAIN t : t[k].type = type}
  IN  /\ t[0].type = "UNDF"
      /\ \A type \in {"SO", "FUN"} : \A j, k \in Of(type) : j <= k => t[j].value <= t[k].value
      /\ \A j, k \in Of("SLINE") : j <= k /\ Unbroken(t, j, k) => t[j].value <= t[k].value
      /\ \A g \in Of("SO") : t[g].value > 0
      /\ \A f \in Of("FUN") : /\ \E g \in Of("SO") : g < f
                              /\ \A g \in Of("SO") : g < f => t[g].value <= t[f].value

ASSUME StabsAssumption ==
  /\ UINTPTRS \in Nat \ {0} /\ Addrs \subseteq 0 .. UINTPTRS - 1
  /\ \A t \in Tables : /\ IsFiniteSet(DOMAIN t) /\ DOMAIN t # {}
                       /\ DOMAIN t = 0 .. Cardinality(DOMAIN t) - 1
                       /\ \A k \in DOMAIN t : /\ t[k].type \in StabType
                                             /\ t[k].value \in 0 .. UINTPTRS - 2
                       /\ Compiled(t)

VARIABLES
  stabs,
  eip,        \* the argument of debuginfo_eip
  call,       \* the arguments of the call of stab_binsearch
  bs,         \* its variables: l, r, addr, any_matches, left, right
  stage,      \* "search", "found" after a search, "file", "done"
  file, fun,  \* [left, right]: lfile and rfile, lfun and rfun
  info, ret   \* what debuginfo_eip fills in and returns
lookup_vars == <<stabs, eip, call, bs, stage, file, fun, info, ret>>

Region(left, right) == [left |-> left, right |-> right]

(* stab_binsearch is entered with a region, a type and an address.         *)
Start(region, type, addr) ==
  /\ call' = [region |-> region, type |-> type, addr |-> addr]
  /\ bs' = [l |-> region.left, r |-> region.right, addr |-> addr,
            any |-> 0, left |-> region.left, right |-> region.right]
  /\ stage' = "search"

LastStab == Cardinality(DOMAIN stabs) - 1

Lookup ==
  /\ stabs \in Tables /\ eip \in Addrs
  /\ LET all == Region(0, LastStab) IN
     /\ call = [region |-> all, type |-> "SO", addr |-> eip]
     /\ bs = [l |-> 0, r |-> all.right, addr |-> eip, any |-> 0,
              left |-> 0, right |-> all.right]
  /\ stage = "search"
  /\ file = Region(0, 0) /\ fun = Region(0, 0)
  /\ info = [file |-> -1, line |-> 0, fn |-> -1, addr |-> eip, narg |-> 0]
  /\ ret = 1

-----------------------------------------------------------------------------
(* stab_binsearch                                                          *)

(* Mutant: an exact match is searched again (line 89 missing).             *)
ProbeKeepsAddr(m, true_m) ==
  IF stabs[m].value < bs.addr
  THEN [bs EXCEPT !.any = 1, !.left = m, !.l = true_m + 1]
  ELSE IF stabs[m].value > bs.addr
  THEN [bs EXCEPT !.any = 1, !.right = m - 1, !.r = m - 1]
  ELSE [bs EXCEPT !.any = 1, !.left = m, !.l = m]

(* Mutant: *region_right is cut at the middle, not at the stab found.      *)
ProbeCutMiddle(m, true_m) ==
  IF stabs[m].value < bs.addr
  THEN [bs EXCEPT !.any = 1, !.left = m, !.l = true_m + 1]
  ELSE IF stabs[m].value > bs.addr
  THEN [bs EXCEPT !.any = 1, !.right = true_m - 1, !.r = m - 1]
  ELSE [bs EXCEPT !.any = 1, !.left = m, !.l = m, !.addr = (@ + 1) % UINTPTRS]

(* Stab m of the type is compared with addr; an exact match goes on with   *)
(* addr + 1.                                                               *)
Probe(m, true_m) ==
  IF stabs[m].value < bs.addr
  THEN [bs EXCEPT !.any = 1, !.left = m, !.l = true_m + 1]
  ELSE IF stabs[m].value > bs.addr
  THEN [bs EXCEPT !.any = 1, !.right = m - 1, !.r = m - 1]
  ELSE [bs EXCEPT !.any = 1, !.left = m, !.l = m, !.addr = (@ + 1) % UINTPTRS]

search ==
  /\ stage = "search" /\ bs.l <= bs.r
  /\ LET true_m == (bs.l + bs.r) \div 2
         match  == {m \in bs.l .. true_m : stabs[m].type = call.type}
     IN  bs' = IF match = {} THEN [bs EXCEPT !.l = true_m + 1]
              ELSE Probe(Max(match), true_m)
  /\ UNCHANGED <<stabs, eip, call, stage, file, fun, info, ret>>

(* The end of stab_binsearch: the rightmost stab of the type in the region.*)
Rightmost ==
  IF bs.right <= bs.left THEN bs.right
  ELSE Max({bs.left} \cup {k \in bs.left + 1 .. bs.right : stabs[k].type = call.type})

search_end ==
  /\ stage = "search" /\ bs.l > bs.r
  /\ bs' = IF bs.any = 1 THEN [bs EXCEPT !.left = Rightmost]
          ELSE [bs EXCEPT !.right = bs.left - 1]
  /\ stage' = "found"
  /\ UNCHANGED <<stabs, eip, call, file, fun, info, ret>>

-----------------------------------------------------------------------------
(* debuginfo_eip                                                           *)

found_file ==
  /\ stage = "found" /\ call.type = "SO"
  /\ file' = Region(bs.left, bs.right)
  /\ IF bs.left = 0
     THEN ret' = -1 /\ stage' = "done" /\ UNCHANGED <<call, bs>>
     ELSE Start(file', "FUN", eip) /\ UNCHANGED ret
  /\ UNCHANGED <<stabs, eip, fun, info>>

(* Mutant: the line is searched for by address, not by its offset in the   *)
(* function (line 183 missing).                                            *)
LineAddrAbsolute(f) == eip

(* SLINE stabs of a function hold offsets from its start.                  *)
LineAddr(f) == (eip - stabs[f].value) % UINTPTRS

(* Without a function the lines of the whole file are searched.            *)
found_function ==
  /\ stage = "found" /\ call.type = "FUN"
  /\ fun' = Region(bs.left, bs.right)
  /\ IF bs.left <= bs.right
     THEN /\ info' = [info EXCEPT !.fn = bs.left, !.addr = stabs[bs.left].value]
          /\ Start(fun', "SLINE", LineAddr(bs.left))
     ELSE /\ info' = [info EXCEPT !.addr = eip]
          /\ Start(file, "SLINE", eip)
  /\ UNCHANGED <<stabs, eip, file, ret>>

found_line ==
  /\ stage = "found" /\ call.type = "SLINE"
  /\ info' = IF bs.left <= bs.right THEN [info EXCEPT !.line = stabs[bs.left].desc] ELSE info
  /\ stage' = "file"
  /\ UNCHANGED <<stabs, eip, call, bs, file, fun, ret>>

NamesFile(k) == stabs[k].type = "SOL" \/ (stabs[k].type = "SO" /\ stabs[k].value # 0)

Args == {k \in fun.left + 1 .. fun.right - 1 :
           \A j \in fun.left + 1 .. k : stabs[j].type = "PSYM"}

(* Backwards from the line to the stab that names its file; then the       *)
(* arguments of the function.                                              *)
file_and_args ==
  /\ stage = "file"
  /\ LET before == {k \in file.left .. bs.left : NamesFile(k)} IN
     info' = [info EXCEPT !.file = IF before = {} THEN @ ELSE Max(before),
                          !.narg = IF fun.left < fun.right THEN Cardinality(Args) ELSE @]
  /\ ret' = 0 /\ stage' = "done"
  /\ UNCHANGED <<stabs, eip, call, bs, file, fun>>

Done == stage = "done" /\ UNCHANGED lookup_vars

LookupNext == search \/ search_end \/ found_file \/ found_function \/ found_line
          \/ file_and_args \/ Done

LookupSpec == Lookup /\ [][LookupNext]_lookup_vars /\ WF_lookup_vars(LookupNext)

-----------------------------------------------------------------------------
(* Properties.                                                             *)

(* The stabs of the type in the region searched, and those that start at   *)
(* or before the address.                                                  *)
Matches == {k \in call.region.left .. call.region.right : stabs[k].type = call.type}
Before  == {k \in Matches : stabs[k].value <= call.addr}

(* A stab starts at the address and another one byte later.                *)
Adjacent == \E j, k \in Matches : /\ stabs[j].value = call.addr
                                  /\ stabs[k].value = call.addr + 1

(* "The search modifies *region_left and *region_right to bracket the      *)
(* addr": left is the last stab that starts at or before it, right points  *)
(* just before the next stab, and nothing is found when there is no stab.  *)
(* Two cases of these statements are left out, because the code breaks     *)
(* them (README, section 5): no stab starts at or before the address       *)
(* (Before is empty), where the region should become empty and does not    *)
(* always (kdebug.c:41), and stabs at the address and one byte behind it   *)
(* (Adjacent), where the second is matched instead (kdebug.c:29).          *)
Bracketed ==
  LET next == {k \in Matches : k > bs.left} IN
  /\ bs.left = Max(Before)
  /\ bs.right = IF next = {} THEN call.region.right ELSE Min(next) - 1
SearchBrackets ==
  stage = "found" =>
    /\ Before # {} /\ ~Adjacent => Bracketed
    /\ Matches = {} => bs.left > bs.right

(* The stabs of a type at or before the address, in the whole table.       *)
LastBefore(type, addr) ==
  {k \in DOMAIN stabs : stabs[k].type = type /\ stabs[k].value <= addr}

(* What belongs to the function at stab f, up to the next function or file.*)
OfFunction(f, type) ==
  {k \in DOMAIN stabs : k > f /\ stabs[k].type = type /\ Unbroken(stabs, f, k)}

AdjacentIn(K, addr) == \E j, k \in K : stabs[j].value = addr /\ stabs[k].value = addr + 1

(* For an address in a function debuginfo_eip gives that function, the     *)
(* line and the source file it is in, and the number of arguments, if the  *)
(* compiler lists them first (it lists other stabs before them for static  *)
(* functions it gives another convention).  An address in a file without   *)
(* functions, which is assembly, is in none.  Left out (by ok and starts)  *)
(* are the two cases SearchBrackets leaves out: an address with a stab of  *)
(* one of the searched types one byte behind that at the address, and one  *)
(* before the first line of its function.                                  *)
FindsFunctionAndLine ==
  stage = "done" /\ LastBefore("FUN", eip) # {} =>
    LET f      == Max(LastBefore("FUN", eip))
        off    == eip - stabs[f].value
        starts == {k \in OfFunction(f, "SLINE") : stabs[k].value <= off}
        args   == OfFunction(f, "PSYM")
        ok     == /\ ~AdjacentIn({k \in DOMAIN stabs : stabs[k].type = "FUN"}, eip)
                  /\ ~AdjacentIn({k \in DOMAIN stabs : stabs[k].type = "SO"}, eip)
                  /\ ~AdjacentIn(OfFunction(f, "SLINE"), off)
                  /\ \A g \in LastBefore("SO", eip) : g < f
    IN  ok /\ starts # {} =>
          /\ ret = 0 /\ info.fn = f /\ info.addr = stabs[f].value
          /\ info.line = stabs[Max(starts)].desc
          /\ (\A k \in args : f + 1 .. k \subseteq args) => info.narg = Cardinality(args)
          /\ info.file = Max({k \in 0 .. Max(starts) : NamesFile(k)})

(* Every lookup returns: the region shrinks at each probe, also when an    *)
(* exact match keeps its left end.                                         *)
LookupReturns == <>(stage = "done")
=============================================================================
