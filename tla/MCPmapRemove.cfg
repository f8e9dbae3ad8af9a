\* page_remove of a page whose table exists and whose entry does not.
CONSTANTS
  npages = 4
  Reserved = {0}
  FreeOrder <- AscendingOrder
  Pgdirs = {kern}
  KernPgdir = kern
  PDX = {0}
  PTX = {0, 1, 2, 3}
  Perms <- WritableOnly
  RefMod = 4
  NULL = NULL
SPECIFICATION Spec
INVARIANT RemoveOfUnmappedDoesNothing
