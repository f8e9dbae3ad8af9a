----------------------------- MODULE BootLoader ------------------------------
(***************************************************************************)
(* From the first instruction of the boot sector to the first of the C     *)
(* code.  boot/boot.S opens address line 20 and enters protected mode;     *)
(* boot/main.c reads the ELF header of the kernel and its segments from    *)
(* the disk, a sector at a time; kern/entry.S turns on paging with the     *)
(* tables of kern/entrypgdir.c and goes from the addresses the kernel was  *)
(* loaded at to those it was linked at; i386_init clears the bss.          *)
(*                                                                         *)
(* Memory is counted in units, of which a sector has SECTSIZE; the ELF     *)
(* header and a program header have one each.  A unit of memory holds the  *)
(* offset in the kernel file of what was read into it.  The address 0x472  *)
(* (warm boot) and the stacks are not in it.                               *)
(***************************************************************************)
EXTENDS Integers, Sequences

CONSTANTS
  SECTSIZE,
  ELFHDR,     \* the scratch address of the headers
  HDRSECTS,   \* sectors read to it (8)
  Kernels,    \* the kernel files the disk may hold
  Top,        \* the last address of memory
  MB,         \* 2^20 bytes: what the address lines 0 to 19 reach
  EntryLimit, \* the 4 MB entry_pgtable maps
  Untouched,  \* what memory holds at first
  Zero

Address == 0 .. Top

Proghdr == [p_pa : Nat, p_offset : Nat, filesz : Nat, memsz : Nat]
Elf     == [magic : BOOLEAN, phoff : Nat, ph : Seq(Proghdr),
            entry : Nat, entry_pgdir : Nat, edata : Nat, end : Nat]

(* Kernels as kernel.ld makes them: a segment begins at the same place of  *)
(* a sector in memory as in the file, above the headers, and behind the    *)
(* one before it.  Two segments meet in a sector only where they do so in  *)
(* the file.  A header of no memory (that of the GNU stack) has address 0. *)
(* The bss is where the linker put edata and end, which need not be where  *)
(* the file ends.  The entry point and entry_pgdir are in segments,        *)
(* entry_pgdir in front of the bss, and all of it is in what entry_pgtable *)
(* maps.                                                                   *)
WellLinked(k) ==
  LET loaded == {s \in 1 .. Len(k.ph) : k.ph[s].memsz > 0}
      end(s) == k.ph[s].p_pa + k.ph[s].memsz
      base(s) == (k.ph[s].p_pa \div SECTSIZE) * SECTSIZE
  IN  /\ k.phoff > 0 /\ k.phoff + Len(k.ph) <= HDRSECTS * SECTSIZE
      /\ \A s \in 1 .. Len(k.ph) :
           k.ph[s].filesz <= k.ph[s].memsz /\ (k.ph[s].memsz = 0 => k.ph[s].p_pa = 0)
      /\ \A s \in loaded :
           /\ k.ph[s].p_pa % SECTSIZE = k.ph[s].p_offset % SECTSIZE
           /\ base(s) >= ELFHDR + HDRSECTS * SECTSIZE
           /\ end(s) + SECTSIZE <= Top /\ end(s) <= EntryLimit
           /\ \A t \in loaded : s < t =>
                \/ end(s) <= base(t)
                \/ /\ end(s) <= k.ph[t].p_pa
                   /\ k.ph[s].p_pa - k.ph[s].p_offset = k.ph[t].p_pa - k.ph[t].p_offset
      /\ k.entry_pgdir < k.edata /\ k.end <= EntryLimit /\ k.end <= Top
      /\ \A a \in {k.entry, k.entry_pgdir} :
           \E s \in loaded : a \in k.ph[s].p_pa .. k.ph[s].p_pa + k.ph[s].filesz - 1

ASSUME BootLoaderAssumption ==
  /\ SECTSIZE \in Nat \ {0} /\ HDRSECTS \in Nat \ {0}
  /\ ELFHDR \in Nat /\ ELFHDR % SECTSIZE = 0
  /\ MB \in Nat \ {0} /\ MB % SECTSIZE = 0 /\ EntryLimit \in Nat /\ Top \in Nat
  /\ \A k \in Kernels : k \in Elf /\ WellLinked(k)

VARIABLES
  kernel,  \* the file on the disk, from sector 1 on
  mem,
  eip,     \* "seta20.1", "seta20.2", "lgdt" in boot.S, "command" and "data" in
           \* readsect, "bad", "entry", "paging", "relocated" in entry.S, "fault",
           \* "kernel"
  cr0,     \* the bits of cr0 that are set
  a20,     \* 1 if address line 20 is open
  kbc,     \* the 8042, which drives it: full is 1 if its input buffer is, port and
           \* byte what is in it, awaits 1 before a value for its output port
  ph,      \* the program header that is loaded, 0 for the headers
  seg,     \* pa, end_pa and offset of readseg
  disk     \* 1 if it is busy, the sector asked for, the sector in its buffer
boot == <<kernel, ph, seg>>
cpu  == <<cr0, a20, kbc>>
boot_vars == <<boot, cpu, mem, eip, disk>>

(* Without line 20 every second megabyte is the one before it.             *)
Bus(a) == IF a20 = 0 /\ (a \div MB) % 2 = 1 THEN a - MB ELSE a

-----------------------------------------------------------------------------
(* readseg                                                                 *)

(* Mutant: a segment is read to where it begins.                           *)
RoundDownNone(pa) == pa

RoundDown(pa) == pa - (pa % SECTSIZE)

readseg(pa, count, offset) ==
  [pa |-> RoundDown(pa), end_pa |-> pa + count, offset |-> offset \div SECTSIZE + 1]

PowerOn ==
  /\ kernel \in Kernels
  /\ mem = [a \in Address |-> Untouched]
  /\ eip = "seta20.1" /\ ph = 0
  /\ cr0 = {} /\ a20 \in {0, 1}
  /\ kbc \in [full : {0, 1}, port : {100}, byte : {0}, awaits : {0}]
  /\ seg = readseg(ELFHDR, HDRSECTS * SECTSIZE, 0)
  /\ disk = [busy |-> 0, lba |-> 0, buffer |-> 0]

-----------------------------------------------------------------------------
(* boot.S                                                                  *)

NotBusy == kbc.full = 0

outb(byte, port) == kbc' = [kbc EXCEPT !.full = 1, !.port = port, !.byte = byte]

(* 0xd1 announces a value for the output port, 0xdf has the bit of A20.    *)
seta20_1 ==
  /\ eip = "seta20.1" /\ NotBusy
  /\ outb(209, 100)
  /\ eip' = "seta20.2"
  /\ UNCHANGED <<boot, mem, cr0, a20, disk>>

seta20_2 ==
  /\ eip = "seta20.2" /\ NotBusy
  /\ outb(223, 96)
  /\ eip' = "lgdt"
  /\ UNCHANGED <<boot, mem, cr0, a20, disk>>

(* Flat segments, the stack below the boot sector, call bootmain.          *)
protcseg ==
  /\ eip = "lgdt"
  /\ cr0' = cr0 \cup {"PE"}
  /\ eip' = "command"
  /\ UNCHANGED <<boot, mem, a20, kbc, disk>>

(* The 8042 takes what is in its input buffer.                             *)
Controller ==
  /\ kbc.full = 1
  /\ kbc' = [kbc EXCEPT !.full = 0,
                        !.awaits = IF kbc.port = 100 /\ kbc.byte = 209 THEN 1 ELSE 0]
  /\ a20' = IF kbc.port = 96 /\ kbc.awaits = 1 THEN (kbc.byte \div 2) % 2 ELSE a20
  /\ UNCHANGED <<boot, mem, eip, cr0, disk>>

-----------------------------------------------------------------------------
(* readsect                                                                *)

waitdisk == disk.busy = 0

Command ==
  /\ eip = "command" /\ seg.pa < seg.end_pa
  /\ waitdisk
  /\ disk' = [disk EXCEPT !.busy = 1, !.lba = seg.offset]
  /\ eip' = "data"
  /\ UNCHANGED <<boot, cpu, mem>>

(* boot.S does not wait for line 20 to open: the 8042, with microseconds,  *)
(* is done before the disk, with milliseconds, has its first sector.       *)
DiskReads ==
  /\ disk.busy = 1 /\ kbc.full = 0
  /\ disk' = [disk EXCEPT !.busy = 0, !.buffer = disk.lba]
  /\ UNCHANGED <<boot, cpu, mem, eip>>

(* insl reads what the disk has in its buffer.                             *)
Data ==
  /\ eip = "data"
  /\ waitdisk
  /\ mem' = [a \in Address |->
               IF a \in Bus(seg.pa) .. Bus(seg.pa) + SECTSIZE - 1
               THEN (disk.buffer - 1) * SECTSIZE + (a - Bus(seg.pa)) ELSE mem[a]]
  /\ seg' = [seg EXCEPT !.pa = @ + SECTSIZE, !.offset = @ + 1]
  /\ eip' = "command"
  /\ UNCHANGED <<kernel, cpu, ph, disk>>

-----------------------------------------------------------------------------
(* bootmain, which reads the headers from memory                           *)

ReadDone  == eip = "command" /\ seg.pa >= seg.end_pa
HeaderOK  == mem[Bus(ELFHDR)] = 0 /\ kernel.magic
Phdr(i)   == IF mem[Bus(ELFHDR + kernel.phoff + i - 1)] = kernel.phoff + i - 1
             THEN kernel.ph[i] ELSE [p_pa |-> 0, memsz |-> 0, filesz |-> 0, p_offset |-> 0]

Bad ==
  /\ ReadDone /\ ph = 0 /\ ~HeaderOK
  /\ eip' = "bad"
  /\ UNCHANGED <<boot, cpu, mem, disk>>

NextSegment ==
  /\ ReadDone /\ (ph = 0 => HeaderOK)
  /\ ph < Len(kernel.ph)
  /\ ph' = ph + 1
  /\ seg' = readseg(Phdr(ph + 1).p_pa, Phdr(ph + 1).memsz, Phdr(ph + 1).p_offset)
  /\ UNCHANGED <<kernel, cpu, mem, eip, disk>>

Enter ==
  /\ ReadDone /\ (ph = 0 => HeaderOK)
  /\ ph = Len(kernel.ph)
  /\ eip' = "entry"
  /\ UNCHANGED <<boot, cpu, mem, disk>>

-----------------------------------------------------------------------------
(* entry.S                                                                 *)

(* The unit the linker put at physical address a is there.                 *)
IsLoaded(a) ==
  \E i \in 1 .. Len(kernel.ph) :
    LET p == kernel.ph[i] IN
    a \in p.p_pa .. p.p_pa + p.filesz - 1 /\ mem[Bus(a)] = p.p_offset + (a - p.p_pa)

(* Mutant: only KERNBASE is mapped, which C code needs.                    *)
entry_pgdir_high == [base \in {"KERNBASE"} |-> {"P", "W"}]

(* The two slots, which share the table.                                   *)
entry_pgdir == [base \in {"0", "KERNBASE"} |-> IF base = "0" THEN {"P"} ELSE {"P", "W"}]

(* Whether an access to base + a passes, "W" for a write (CR0_WP is set).  *)
Translates(base, a, access) ==
  IF "PG" \notin cr0 THEN base = "0"
  ELSE /\ IsLoaded(kernel.entry_pgdir)
       /\ base \in DOMAIN entry_pgdir /\ access \in entry_pgdir[base]
       /\ a < EntryLimit

(* Paging is turned on between two instructions at low addresses.          *)
entry ==
  /\ eip = "entry"
  /\ IF IsLoaded(kernel.entry)
     THEN cr0' = cr0 \cup {"PE", "PG", "WP"} /\ eip' = "paging"
     ELSE eip' = "fault" /\ UNCHANGED cr0
  /\ UNCHANGED <<boot, mem, a20, kbc, disk>>

(* jmp *relocated, fetched below and landing above KERNBASE.               *)
jump ==
  /\ eip = "paging"
  /\ eip' = IF Translates("0", kernel.entry, "P") /\ Translates("KERNBASE", kernel.entry, "P")
           THEN "relocated" ELSE "fault"
  /\ UNCHANGED <<boot, cpu, mem, disk>>

(* memset(edata, 0, end - edata), before anything else.                    *)
i386_init ==
  /\ eip = "relocated"
  /\ IF \A a \in kernel.edata .. kernel.end - 1 : Translates("KERNBASE", a, "W")
     THEN /\ mem' = [a \in Address |->
                      IF a \in kernel.edata .. kernel.end - 1 THEN Zero ELSE mem[a]]
          /\ eip' = "kernel"
     ELSE eip' = "fault" /\ UNCHANGED mem
  /\ UNCHANGED <<boot, cpu, disk>>

Processor ==
  \/ seta20_1 \/ seta20_2 \/ protcseg
  \/ Command \/ Data \/ Bad \/ NextSegment \/ Enter
  \/ entry \/ jump \/ i386_init

BootNext == Processor \/ Controller \/ DiskReads

(* The processor runs, and the devices do what they were told.             *)
BootSpec ==
  /\ PowerOn /\ [][BootNext]_boot_vars
  /\ WF_boot_vars(Processor) /\ WF_boot_vars(Controller) /\ WF_boot_vars(DiskReads)

-----------------------------------------------------------------------------
(* Properties                                                              *)

Segments  == {kernel.ph[i] : i \in 1 .. Len(kernel.ph)}
InFile(s) == s.p_pa .. s.p_pa + s.filesz - 1
Bss       == kernel.edata .. kernel.end - 1

(* The sectors of memory a segment takes part in.                          *)
Reach(s) == LET first == (s.p_pa \div SECTSIZE) * SECTSIZE IN
            {a \in Address : first <= a /\ a - (a % SECTSIZE) < s.p_pa + s.memsz}

(* When the kernel runs, every segment is in memory as the file has it and *)
(* the bss is zero, although whole sectors were read over the ends of the  *)
(* segments; and nothing was read outside their sectors and the headers'.  *)
KernelAsLinked ==
  eip = "kernel" =>
    /\ \A a \in Bss : mem[a] = Zero
    /\ \A s \in Segments : \A a \in InFile(s) \ Bss : mem[a] = s.p_offset + (a - s.p_pa)
    /\ \A a \in Address :
         \/ mem[a] = Untouched
         \/ a \in ELFHDR .. ELFHDR + HDRSECTS * SECTSIZE - 1
         \/ a \in Bss \cup UNION {Reach(s) : s \in Segments}

(* A valid kernel reaches its C code, and nothing else is entered: line 20 *)
(* is open before anything is read above the first megabyte, and no fetch  *)
(* or write faults on the way from low to high addresses.                  *)
Boots == <>[](eip = IF kernel.magic THEN "kernel" ELSE "bad")
=============================================================================
