\* Two address spaces of one table each, and three free pages: the tables and
\* one page of data exhaust the memory; the directory that is edited need not be
\* the one the processor uses.
CONSTANTS
  npages = 4
  Reserved = {0}
  FreeOrder <- AscendingOrder
  Pgdirs = {kern, user}
  KernPgdir = kern
  PDX = {0}
  PTX = {0, 1}
  Perms <- ReadOnlyAndWritable
  RefMod = 8
  NULL = NULL
SPECIFICATION Spec
INVARIANTS TypeOK FreeListIsChain RefCountExact PagesPartitioned TablesWellFormed TlbCoherent NoPanic
PROPERTY ImplementsVirtMem
