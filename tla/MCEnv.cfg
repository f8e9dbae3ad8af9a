\* Two slots whose ids wrap after two generations, three environments of two tables each,
\* and memory for two of them that share a page.  A run ends at the bound MaxEnvs.
CONSTANTS
  npages = 6
  Reserved = {0}
  FreeOrder <- AscendingOrder
  Pgdirs <- AllPgdirs
  KernPgdir = kern
  PDX = {0, 1}
  PTX = {0, 1}
  Perms <- UserWritable
  RefMod = 8
  NULL = NULL
  NENV = 2
  ENVGEN = 2
  Generations = 2
  MaxEnvs = 3
SPECIFICATION Spec
INVARIANTS MemoryAccounted AddressSpaceLives EnvListIsChain StaleIdRejected OnlySelfOrChild RunsAsItself
CHECK_DEADLOCK FALSE
