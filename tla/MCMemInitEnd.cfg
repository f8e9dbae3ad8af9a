\* The kernel of obj/, whose variables lie behind its end.
CONSTANTS
  npages = 16
  Pgdirs = {kern}
  Kern = kern
  PDX = {0, 1, 2, 3, 4, 5, 6}
  PTX <- Indices
  NPT = 12
  PGSIZE = 4
  RefMod = 8
  NULL = NULL
  EXT16 = 12
  Layouts <- AlignedEnd
  PagesSize = 1
  KSTK = 1
  UPAGES = 2
  KSTACK = 3
  UVPT = 4
  KERNBASE = 5
  KernTables = 2
SPECIFICATION Spec
INVARIANT VariablesKept
CHECK_DEADLOCK FALSE
