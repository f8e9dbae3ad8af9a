---------------------------- MODULE MCBootLoader -----------------------------
(* Small kernels for BootLoader: text from the first page above 1 MB, data *)
(* in the next page or right behind the text, and a header of no memory.   *)
EXTENDS BootLoader

ExtPhysMem == 16
PageSize   == 8
Segment(pa, offset, filesz, memsz) ==
  [p_pa |-> pa, p_offset |-> offset, filesz |-> filesz, memsz |-> memsz]
GnuStack == Segment(0, 0, 0, 0)

PageUp(n) == ((n + PageSize - 1) \div PageSize) * PageSize

\* Text of n units; data of m units in the file, bss units and, behind end, common
\* units more, which begins gap units behind the text (in the file, too), or for the
\* gap -1 in the next page, which is not the next of the file.  edata may lie before
\* the end of what the file has, as in the kernel of obj/.  entry_pgdir is the first
\* of the data if that begins a page, else the last of the text.
Kernel(magic, n, gap, m, bss, common, stackFirst) ==
  LET pa     == IF gap = -1 THEN PageUp(ExtPhysMem + n) ELSE ExtPhysMem + n + gap
      offset == IF gap = -1 THEN PageUp(n) + 2 * PageSize ELSE PageSize + n + gap
      text   == Segment(ExtPhysMem, PageSize, n, n)
      data   == Segment(pa, offset, m, m + bss + common)
  IN  [magic |-> magic, phoff |-> 1,
       ph    |-> IF stackFirst THEN <<GnuStack, text, data>> ELSE <<text, data, GnuStack>>,
       entry |-> ExtPhysMem, entry_pgdir |-> IF gap = -1 THEN pa ELSE ExtPhysMem + n - 1,
       edata |-> pa + m - (IF m > 2 THEN 1 ELSE 0), end |-> pa + m + bss]

KernelFiles ==
  { Kernel(magic, n, gap, m, bss, common, stackFirst) :
      magic \in BOOLEAN, n \in 1 .. 9, gap \in {-1, 0, 2}, m \in 1 .. 6,
      bss \in {0, 1, 5}, common \in {0, 2}, stackFirst \in BOOLEAN }
=============================================================================
