----------------------------- MODULE MCMemInit ------------------------------
(* Small machines for MemInit.                                             *)
EXTENDS MemInit

Machine(io, ext, end, variables, extmem, ext16mem) ==
  [io |-> io, ext |-> ext, end |-> end, vars |-> variables,
   basemem |-> io, extmem |-> extmem, ext16mem |-> ext16mem]

\* Pages 0 to 4 are base memory, the kernel ends in page 6 or 7 and leaves
\* low pages free behind pages[]; or the hole is one page longer; or there is
\* memory above 16 MB, which is page 12; or boot_alloc takes the last page that
\* is mapped.
SmallMachines ==
  { Machine(5, 6, 7, 6, 10, 0), Machine(5, 6, 8, 7, 10, 0), Machine(5, 7, 8, 7, 9, 0),
    Machine(5, 6, 7, 6, 6, 4), Machine(5, 6, 10, 9, 10, 0) }

\* A kernel whose bss ends at the end of a page, as that of obj/kern/kernel.sym.
AlignedEnd == { Machine(5, 6, 7, 7, 10, 0) }

Indices == 0 .. NPT - 1
=============================================================================
