\* Sixteen pages, of which a page table maps twelve: the list has low and high
\* pages, and all tables must come from the low ones.
CONSTANTS
  npages = 16
  Pgdirs = {kern}
  Kern = kern
  PDX = {0, 1, 2, 3, 4, 5, 6}
  PTX <- Indices
  NPT = 12
  PGSIZE = 4
  RefMod = 8
  NULL = NULL
  EXT16 = 12
  Layouts <- SmallMachines
  PagesSize = 1
  KSTK = 1
  UPAGES = 2
  KSTACK = 3
  UVPT = 4
  KERNBASE = 5
  KernTables = 2
SPECIFICATION Spec
INVARIANTS FreeListRelinked PagesAccounted
  WritesOnlyMapped SelfChecksPass KernelMapsMemory
CHECK_DEADLOCK FALSE
