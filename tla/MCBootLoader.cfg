\* Every small kernel, with segments that end and begin anywhere in a sector.
CONSTANTS
  SECTSIZE = 4
  ELFHDR = 4
  HDRSECTS = 2
  Kernels <- KernelFiles
  Top = 55
  MB = 16
  EntryLimit = 45
  Untouched = Untouched
  Zero = Zero
SPECIFICATION BootSpec
INVARIANTS KernelAsLinked
PROPERTIES Boots
CHECK_DEADLOCK FALSE
