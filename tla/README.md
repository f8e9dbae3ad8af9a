# A TLA+ development of JOS (MIT 6.828 labs)

This directory models the kernel in `../src` with TLA+, checks it with TLC on
small instances, and proves the central properties with TLAPS. The kernel is
at the beginning of lab 3: memory management, the console and the monitor are
complete; of environments, traps and system calls some functions are, the others
are left to be written ("LAB 3: Your code here").

Contents: 1 the system, 2 the modules, 3 the runs, 4 the proofs, 5 where code
and comments disagree, 6 what is not modelled, 7 the plan.

## 1 The system: inventory

| Component | State | Operations | Depends on |
|---|---|---|---|
| Physical page allocator, page tables (`kern/pmap.c`) | `pages[]` (link and count of each page), `page_free_list`, page directories and tables, the TLB | `page_alloc`, `page_free`, `page_decref`, `pgdir_walk`, `page_insert`, `page_lookup`, `page_remove`, `tlb_invalidate` | the MMU |
| Boot memory initialisation (`mem_init`) | `npages`, `nextfree`, `kern_pgdir`, the relinking pointers `tp[2]` | `i386_detect_memory`, `boot_alloc`, `page_init`, `boot_map_region`, the `check_*` functions | the allocator; `entry_pgdir` |
| Console input (`kern/console.c`) | circular buffer `cons`, the static `shift` flags, `serial_exists` | `serial_intr`, `kbd_intr`, `kbd_proc_data`, `cons_intr`, `cons_getc`, `getchar` | UART, keyboard controller, typist |
| Console output (`kern/console.c`) | `crt_buf`, `crt_pos`, what the ports have not sent | `cga_putc`, `serial_putc`, `lpt_putc`, `cons_putc` | display, ports |
| readline and monitor (`lib/readline.c`, `kern/monitor.c`) | static `buf`, index, `argv` | `readline`, `runcmd`, the commands | console in and out |
| Debugging information (`kern/kdebug.c`) | the stab tables (constant), the region searched | `stab_binsearch`, `debuginfo_eip` | called by the backtrace |
| Environments (`kern/env.c`) | `envs[]` (id, parent, status, link, directory, registers), `env_free_list`, `curenv` | complete: `envid2env`, `env_alloc`, `env_free`, `env_destroy`; to be written: `env_init`, the end of `env_setup_vm`, `region_alloc`, `load_icode`, `env_create`, `env_run` | the page functions, `cr3` and the TLB |
| Traps, system calls (`kern/trap.c`, `kern/syscall.c`) | the saved registers of `curenv` | complete: `trap`, `trap_dispatch`, `page_fault_handler`, `sys_env_destroy`; to be written: the gates, the entry points, the dispatch of calls | environments |
| Formatted output (`lib/printfmt.c`, `kern/printf.c`, `lib/printf.c`) | position in the format, flags of a directive, the output buffers | `vprintfmt`, `printnum`, `vsnprintf`, `cprintf` of the kernel and of user programs | console out |
| Strings (`lib/string.c`) | memory, the direction flag | `memmove`, `memset`, the copies, searches and comparisons, `strtol` | - |
| Boot loader (`boot/boot.S`, `boot/main.c`) | address line 20, `cr0`, memory, the segment being read | `seta20.1`, `seta20.2`, `protcseg`, `bootmain`, `readseg`, `readsect`, `waitdisk` | the 8042, the disk |
| Kernel entry (`kern/entry.S`, `kern/entrypgdir.c`) | `cr0`, `entry_pgdir` | `entry`, `relocated` | what the boot loader read |
| Kernel init and panic, CMOS clock, user memory checks, user library, test programs | see section 6 | | |

How they interact: the boot loader opens line 20, reads the kernel into memory and
enters it at low addresses; `entry.S` turns on paging and moves to high ones;
`i386_init` clears the bss and calls `mem_init`, which builds the state the page functions work on;
`readline` calls `getchar`, which polls the two input drivers, and echoes
through `cons_putc`; `monitor` calls `readline` and `runcmd` for ever, also
after a panic; the backtrace command calls `debuginfo_eip`. Environments own page
directories whose pages, tables and data come from the page functions; a trap
enters the kernel on behalf of `curenv`, which may end itself or a child; that
takes its address space apart and ends in the monitor. The kernel runs on
one processor with interrupts disabled: C functions do not interleave with each
other. What interleaves with them is hardware (the TLB and the stores of the
processor, bytes that arrive at the devices) and the order in which a caller
makes its calls.

What is hard to test, and what makes each component correct:

* allocator and tables: long sequences of calls. Counts must equal mappings, a
  page must have one use at a time, tables must be private and clean, a stale
  translation must never be used, failure half way must change nothing.
* environments: names and memory are used again. An id must not reach the next
  tenant of a slot, a parent's id not a stranger; memory must come back exactly
  once, also what two environments share, and never under the processor.
* boot: order. Nothing may be written before it is mapped, the free list is
  relinked while it is walked, static mappings must not be counted.
* console input: two devices fill a ring at their own pace while `getchar`
  empties it. It must be a queue; the modifier flags must track the keys
  whatever the polls cut apart; everything sent must be returned.
* line editing: the echo and the buffer are separate; the screen wraps and
  scrolls. What the user sees must be what `runcmd` parses.
* formatted output and strings: the directives have options that combine, the
  text may end anywhere, buffers have a size; moves may overlap.
* boot loader and entry: the 8042 and the disk take their time; whole sectors are
  read over the ends of the segments; paging starts under the running code. What
  runs must be what was linked.
* debugging information: a binary search on a table of mixed types. It must
  end and bracket the address.

`PROJECT.json` lists every hazard with its line and the properties that cover
it.

## 2 The modules

```
PmapOps --- PmapState --- Pmap ------- MCPmap
   |            |          |  `-- VirtMem (abstract)
   |            |          `----- PmapProofs
   |            |-------- PmapLemmas (used by PmapProofs, EnvProofs and BootProofs)
   |            `-------- Env -------- MCEnv
   |                       `------ EnvProofs
   `--- MemInit --- MCMemInit
           `------- BootProofs

Fifo <- Console --- MCConsole                Cga --- Monitor --- MCMonitor
           `------- ConsoleProofs                       `------- MonitorProofs

StringLib --- MCStringLib                    Printfmt --- MCPrintfmt
   `--------- StringLibProofs                   `-------- PrintfmtProofs

Stabs --- MCStabs
   `----- MonitorProofs (with Monitor, whose backtrace calls it)

BootLoader --- MCBootLoader
   `---------- BootProofs (with MemInit: the two stages of the boot)
```

**PmapOps** gives each C function of `pmap.c` as an operator from the state
before the call to the state after it, in the order of the C statements;
`page_insert` is composed from `pgdir_walk`, the increment, `page_remove` and
the store as in the code. A page is its index in `pages[]`, a virtual page a
pair of directory and table index. `mem[p]` is what page `p` reads as when it
is used as a page table: a page that was data holds `Junk`, the present entry
that the kernel's own `0x97` fill makes. (The fill writes 128 bytes; the model
scribbles the whole page, the worse case.) The field `free` is auxiliary: the
free list as a sequence, against which the links are checked.

**PmapState** is the state `page_init` leaves (`Boot`), `lcr3` and the
translation of an address, and the conditions that `pmap.c` keeps true of its
state (`RefsOK`, `Disjoint`, `Private`, ...). They have as parameters who holds
pages and what counts once more than its mappings do, so that Pmap, Env and the proofs
state the same conditions of the same operators.

**Pmap** is a kernel that uses this interface as its comments ask, from the
state `page_init` leaves: allocate, free what it holds, insert what it holds or
what is mapped, remove what is mapped, walk, write its pages, load `cr3`; and
the processor, which caches translations and stores through them at any time
between calls. One call is one step. **VirtMem** is the abstract specification:
partial maps and a pool. `Pmap!VM` is the refinement mapping.

**MemInit** is `mem_init` step by step (one loop iteration is one step) over the
same operators, up to the assert on `envs` at which this kernel stops.
`check_page_alloc` is one step, `check_page` a step per call, both with all their
asserts, that on the number of free pages and those on a directory entry included; the
calls are the operators of PmapOps. The permissions of a directory entry are no state:
`pgdir_walk` and `mem_init` write constants there (`TablePerm`, `PdePerm`).
`check_kern_pgdir` is two steps: the asserts on `pages[]`, and the panic that taking the
address of `envs` is. The asserts behind it, which this kernel does not reach, are not
modelled; `KernelMapsMemory` says of the mappings what they would. Sizes of regions are in
bytes, and `boot_map_region` rounds them up to pages of `PGSIZE` bytes. While `check_page` runs, the free
list is stolen and its pages are held uncounted, so the properties of the list and
the counts speak of the moments before and after.
`i386_detect_memory` computes `npages` from what the CMOS reports on the machine,
one of `Layouts`, which also says where the linker put the variables `kern_pgdir`,
`npages` and `pages` (section 5). `LayoutAssumption` says which machines: there is more
base memory than `mem_init` makes tables, the kernel and what `boot_alloc` takes behind it
lie in what `entry_pgdir` maps, and memory goes on behind them. (640 kB, 4 MB and
a kernel of 1 MB keep that; on a machine with less, an assert of
`check_page_free_list` or the memory that is not mapped stops boot.)

**Env** is the table of environments over the same operators: `env_alloc`,
`envid2env`, `env_destroy` and `sys_env_destroy` in one step, as nothing
interrupts the kernel, and `env_free` in a step per page, because the processor
goes on translating addresses with the directory in `cr3` (`TlbFill`) while it
runs. `env_free` is also called by itself, as `env.h` offers it, by a kernel that
goes on; `env_destroy` of this kernel never returns: it ends in the monitor. The
functions that are left to be written are external, with the effect the finished
ones need: `env_init` makes the list, `env_setup_vm` counts the directory,
`region_alloc` and `ipc_send` (`user/sendpage.c`) give an environment memory of its
own and shared memory, `env_run` loads `cr3`, and a trap of the user reaches `trap`.
In the kernel as it is built `envs` is NULL and no environment exists; the module
shows that what is written holds up once the rest is. `NewId` wraps as the signed
addition does in the code the compiler made (`obj/kern/kernel.asm`). The
auxiliary `old` and `creator` remember who had a slot and who made whom.
`ENVGEN` is the code's `1 << ENVGENSHIFT` and `Generations` the number of positive
generations of an `envid_t`, so that the width of an id is a parameter.

**Console** has one action per iteration of the driver loops, `kbd_proc_data`
in full, the end of `cons_getc`, and as environment the UART with its single
register, the controller with its output buffer, a keyboard that sends make and
break codes of the keys a typist presses, and a mouse. The tables `normalmap`,
`shiftmap` and `ctlmap` are given for the keys of the runs. `KeyboardAssumption`
says what a keyboard is: each key has an index in the tables (`HasIndex`), sends
the codes of that index and has printed on it what the tables hold. Any keys may be
on it, both Shifts, Ctrls and Alts of `shiftcode[]` too. The typist has at most one of
the two down at a time (`OneOfEach` in `Press`), because releasing either
ends the modifier in the code though the other is down (section 5). The auxiliary
`strike` of a byte notes what the typist meant; `unread` counts the characters
stored and not returned. **Fifo** is the abstract queue.

**Cga** is console output: `cga_putc` on the screen, and `serial_putc` and
`lpt_putc` as the line a terminal at the other end of the port shows, which is
`Lost` when the port was not ready in time. **Monitor** composes it with
`readline` and `runcmd`, a character at a time. Output of commands is abstract
(`Replies`). Characters come from `Typed`, which is what Console's `getchar`
returns.

**Stabs** is `stab_binsearch`, one probe per step (the inner backwards loop is
part of the probe), and the three searches of `debuginfo_eip` for kernel
addresses. Strings are named by the index of their stab; the bounds tests of
`n_strx` are left out because every index of a linked kernel is in the table.
Addresses wrap at `UINTPTRS`. `Compiled` says what a table is when compiler and linker have
made it: first a header stab, then the files in the order of their addresses, in each
its functions, which are not below it, in each function its lines by their offsets;
the lines of an assembly file are addresses. The table of the kernel in `obj/` is of this
kind. `FindsFunctionAndLine` is about addresses in functions; the comparison is with the
whole table, not with the regions the searches go through.

**StringLib** is `string.c` on a memory of bytes, one iteration of a loop or of
the `rep` prefix per step; the call is chosen in `Init`, and `Defined` says what its
caller must see to: strings end, what is written fits, and a string is not written
over before it is copied. A `long` is one of `LongMax` and wraps. `rep movs` moves one or
four bytes at a time, in the direction of the flag, so an overlap is copied as
the processor would. The C versions of `memset` and `memmove` are not compiled.

**Printfmt** is `vprintfmt`, a character of the format per step, with the three
places its output goes to: the console of the kernel, the buffer of
`vsnprintf`, the buffer of a user program which `sys_cputs` empties. `va_arg`
gives any of the values of the type, and the auxiliary `args` and `begin` note
what a directive was and got. `vsnprintf` is also called without a buffer (`NOBUF`). The
reference, `Meaning`, reads the directive as a whole and owes nothing to the order
in which the code puts its parts: the sign and the `0x` belong to the number and count
in its width, `-` puts the spaces behind it. `Misprinted` names the directives for which the code
does something else (section 5).

**BootLoader** goes from the first instruction of the boot sector to
the C code: `boot.S` with the 8042 that opens address line 20, `bootmain` with the
headers, the segments and a sector at a time (command, wait, data), `entry.S` with
paging by `entry_pgdir`, and the clearing of the bss. Memory holds the file offset
of what was read into it; the headers, the entry point and `entry_pgdir` are read
from that memory, and with line 20 closed every second megabyte is the one before
it. The disk and the 8042 are actions of their own. `boot.S` does not wait for line
20 to open after its last command: the model takes the 8042 to be faster than the
first sector. `WellLinked` says what `kernel.ld` makes of a kernel: segments behind
each other that are congruent, memory and file, to a sector, and share a sector of
memory only where they share it in the file; `edata` and `end` are where the linker put
them, which is neither where the file ends nor where the last segment does. The stacks
and the warm-boot word at `0x472` are left out.

`PROJECT.json` maps every definition to its lines.

## 3 The runs

Run them in this directory: `tlc -config X.cfg M`.

| Run | Module | Question | Bounds |
|---|---|---|---|
| `pmap` | MCPmap | do counts, lists, uses of pages, tables and TLB agree in every sequence of calls, and do the address spaces implement VirtMem? | 2 directories of one table with 2 entries, 3 free pages, read-only and writable mappings, all call sequences (no bound on their length) |
| `boot` | MCMemInit | does boot reach the assert on `envs` with everything in place, all self-checks before it passed? | 16 pages of 4 bytes, tables of 12 entries, 5 machines |
| `env` | MCEnv | is memory given back exactly once, does nothing running lose it, and do ids and parents name whom they should? | 2 slots, 3 environments, ids of two generations, 5 free pages, address spaces of two tables of two pages |
| `console` | MCConsole | do flags, characters and the reset follow the keys, is the ring a queue, does everything arrive? | 7 keys (Shift, both Ctrls, one of them escaped, Alt, Caps Lock, a letter, Delete), a serial line, a mouse, 4 events, 3 keys down, ring of 4 |
| `monitor` | MCMonitor | is the line on the screen (and on the ports) the line in the buffer, and the command what was shown? | screen 3 x 4, `BUFLEN` 6, `MAXARGS` 3, 5 characters, ports that are slow at any time |
| `stabs` | MCStabs | does the search bracket the address (section 5 has two cases where it does not) and end, is the function and the line found? | all arrangements of up to 5 stabs, programs of two files and three functions, with and without an assembly file, 18 addresses |
| `strings` | MCStringLib | is each function what its comment or name says, for every overlap and alignment? | 12 bytes of memory, strings of up to 3 characters, numbers of up to 4 |
| `printf` | MCPrintfmt | is each directive what it stands for (but those `Misprinted` names), does a buffer hold what fits, does the text of a user program arrive whole? | all texts of up to 3 of 15 characters, 1800 directives, buffers of 0, 1 and 4 and none, a user buffer of 4, 8-bit `int` |
| `boot_loader` | MCBootLoader | is the kernel that runs the one that was linked, and is it reached? | sectors of 4 units, 3888 kernels of two segments and a header without memory |

The other three runs each find a statement of a comment violated (section 5).

Why the bounds are enough. *Pages*: three free pages let memory run out in each
role (no page for a table, none for data), with one page in two mappings, in one
address space or in two, two tables and one table shared by two addresses; more
pages repeat these cases, and the proofs cover every number. `RefMod` bounds
`pp_ref` as the 16 bits do; the guard `RefFits` of `Pmap!Next` says that no page
gets as many mappings as the count can hold. *Boot*: the list has pages below
and above what `entry_pgdir` maps, the regions cross a table boundary, and the
machines differ in where the hole and the kernel end, in whether what `boot_alloc`
takes ends at the last page that is mapped, and in whether there is memory above 16 MB. *Env*: two slots give every relation of two environments
(self, parent, child, stranger, shared memory); three environments in two slots
wrap the generations of a slot and let a stranger have the slot of a parent whose
child lives;
5 free pages are fewer than the seven of one full environment (directory, two tables,
four pages), so memory runs out in each role: for a page, for a table, and for
the directory of a second environment while a slot is free. `MaxEnvs` is a bound on
the run and the one place where it may stop. *Console*: a ring of 4 wraps within
the events; `InputFits` says that input keeps up with the ring (at 512 places a
user does), and `console_overflow` drops it. `MaxEvents` bounds the typist,
`MaxHeld` his hands; three keys down are needed for Ctrl-Alt-Del. Two keys of
a modifier are there for Ctrl, one after the other; the two are never down at once (section 2).
*Monitor*: lines are longer than a row of the screen, so they wrap, and any
three lines scroll it; a port is in time for all characters of a step or misses
them, which for texts without a newline inside is any loss; the buffer fills
before the screen does (the assumption on `BUFLEN`). `MAXARGS` 3 makes a line of
five characters exceed it. *Strings*: 12 bytes hold two blocks of two words each
that overlap in every way and alignment; a `long` that ends at 2047 is left by some
of the numbers of four digits. *Printf*: an option appears with every
other and with every conversion; a user buffer of 4 is filled several times; 8
bits (`UINTS` is 256) make the widths of `l` differ, and the sizes of the buffer cut the text at
its start and inside it. `INT_MIN` is not given to `%e`, whose `-err` overflows.
*Boot loader*: segments begin and end at every place of a sector, behind each
other or in different pages, and behind `end` or at it; the largest ends exactly where
what `entry_pgdir` maps does.
*Stabs*: five stabs give every combination of probe outcomes of a search of
depth three; the programs have functions without arguments, lines on one
address, an included file, adjacent functions, and a file that has lines and no
function; one address is the last there is (`addr + 1` wraps).

Deadlock is checked in all runs but those of a system that stops: MemInit ends
in the panic, Env at `MaxEnvs`, the machine of `console` is reset by
Ctrl-Alt-Del, a call of StringLib or Printfmt returns, and BootLoader ends in
the kernel or in its last loop.

Fairness. Safety runs assume none. `AllInputReturned` assumes weak fairness of
the kernel's steps (one processor polls in `getchar` with interrupts disabled;
nothing can keep it from its next step) and of the controller's transfer. There
is none on the typist or on the serial line. Its exceptions are in the property:
the machine is reset, or a mouse byte blocks the controller. `LookupReturns` and
the two `Returns` assume weak fairness of the sequential code, `Boots` also of
the disk and the 8042, which answer a command. That the boot sequence ends is
not stated.

Every property has a mutant in `PROJECT.json`: a plausible bug of the code, kept
as an operator beside the original ("Mutant:" in its comment), which makes the
run fail.

## 4 The proofs

    tlapm PmapLemmas.tla PmapProofs.tla EnvProofs.tla BootProofs.tla
    tlapm ConsoleProofs.tla MonitorProofs.tla StringLibProofs.tla PrintfmtProofs.tla

| Module | Theorems | For every |
|---|---|---|
| PmapLemmas | no theorem of its own: what each function of `pmap.c` keeps true | |
| PmapProofs | the type invariants and the safety properties of the run `pmap`, the refinement `VirtMemImplemented` | `npages`, finite sets of directories and indices, order of the free list, `RefMod` > 1 |
| EnvProofs | the safety properties of the run `env` | the same, and `NENV`, `ENVGEN`, `Generations` |
| BootProofs | `MemInvHolds` and the five properties of the run `boot` | `npages`, `PGSIZE` > 1, `NPT`, place of the regions, size of the stack and of `pages[]`, machines |
| | `KernelLoaded`, `NeverFaults` | well-linked kernel, size of a sector, of the headers and of memory, megabyte, what `entry_pgdir` maps |
| ConsoleProofs | `ConsoleTypeCorrect`, `QueueCorrect` | size of the ring, set of keys, serial input |
| | `ModifiersCorrect`, `CharactersCorrect`, `ResetCorrect` | the same, with both keys of a modifier (never down at once), and input that overflows the ring |
| MonitorProofs | `EchoCorrect`, `CommandCorrect` | size of the screen, `BUFLEN`, `MAXARGS`, prompt, output and names of commands, text typed |
| | `SearchesBracket`, `FunctionAndLineFound`, `TableRead` | symbol table, address, `UINTPTRS` |
| StringLibProofs | `WritesAreCorrect`, `ResultsAreCorrect` and the four theorems they are made of | place and size of memory, its contents, defined call, `LongMax` |
| PrintfmtProofs | `BufferKept`, `UserTextKept`, `LiteralsKept` | format, arguments, size given to `vsnprintf` or none of a buffer, `PRINTBUF`, `UINTS` |

They rest on the named assumptions of the modules and on nothing else: those of
PmapOps and PmapState (finite sets, a free list that lists the pages once,
`KernPgdir` is a directory), `TranslationAssumption` (`NULL` is not a value of a
mapping), `EnvAssumption` (`ENVGEN` is a multiple of `NENV`, as both are powers of
two in the code; the indices of a directory start at 0; `NULL` is not a slot),
`ConsoleAssumption`, `KeyboardAssumption` and `PacketAssumption` (`NULL` is not a
byte on the wire), `BootAssumption` (the regions above `UTOP` are different directory
indices above 1, the tables at `KERNBASE` reach all memory) and `LayoutAssumption`
(section 2), `StabsAssumption` (tables are `Compiled`, no stab is at the last
address there is), `ScreenAssumption` (two rows or more) and `MonitorAssumption`
(`Lost` is not a text; a line of `BUFLEN` characters and one row more fit on the
screen, as 1024 and 80 do on 25 rows of 80), `BootLoaderAssumption` (kernels are
`WellLinked`, the headers are read to the start of a sector, a megabyte is a number of
sectors), `StringLibAssumption` (memory is not at
address 0, its calls are `Defined`) and `PrintfmtAssumption` (formats and strings are
sequences, the other arguments and the sizes have their C types; `NULL` and `USER` are no
sizes, and `NULL`, the end of the format, none of the characters a directive is made of). TLC evaluates them in the runs.

### The page functions

None of the properties of the run `pmap` is inductive alone. That a count is exact after
`page_remove` needs that the entry read is clean (`Clean`), that clearing
it clears one entry only (`Private`), that the page reached is not a
table (`Disjoint`); that the free list stays a chain needs that a page
freed was not free. The inductive invariant `IInv` is therefore their
conjunction with the types. It is stated as `Inv(s, H, X)` for a state *inside* a
call: `H` is what the caller holds and `X` the pages counted once more than they
are mapped. With that, each C function has one lemma in PmapLemmas
(`AllocInv`, `FreeInv`, `WalkInv`, `DecrefInv`, `RemoveInv`, `IncrefInv`,
`MapInv`) and `InsertInv` composes them as the code composes the calls. The case
of `page_insert` that the comment at `pmap.c:436` warns of, the same page at the
same address, is the case of `RemoveInv` with the page in `X`: its count stays
above zero, so `page_remove` does not free it. `RefFits` is used where a count
is incremented, and only there: `TypeCorrectManyMappings` holds without it, as the
wrap of `pp_ref` breaks no types. `SameView` says that a function which leaves
tables alone leaves everything defined from them alone.

`VirtMemImplemented` is the run's refinement for every value of the constants.
The abstract state is `Spaces(s)`, the partial maps read off the tables,
`Tables(s)` and `Pool(s)`; each call has a lemma that says what it does to the
three (`AllocStep`, `FreeStep`, `RemoveStep`, `WalkStep`, `InsertStep`), and what
the processor does is a stutter, because a cached translation is the one in the
tables. `MappedIsData` and `SpacesMapped` tie what VirtMem calls mapped to what
the tables hold, which needs `Clean`; `InsertStep` needs `Private`, so that a
store at one address is seen at no other.

### Boot

There is one induction, over `MemInv` (TLC has checked it on the run `boot`). It
says for each call of `mem_init` what the free list, the counts and the tables are:

* `Building`: `page_init` has put the pages nobody uses below page `at` on the list, in
  ascending order (`Ascending`, by the formula `FreePage`).
* `Reordering` follows the two pointers `tp` through the list that is relinked under
  the walk: `Walked(k, h)` says, for the k-th page from the tail and `h` low ones, which
  cells they point to. What the links are in between needs no word: ascending order,
  counted from the tail, puts all low pages behind all high ones, so every link that is
  written holds already what is written to it, until `Join` cuts the list in two and
  puts the parts together (`JoinChain`). That would fail for a list in another order,
  and is what `Lows` is for.
* `Steady`: the list is a chain, every page is free or counted, and the top of the list,
  which is handed out first, has enough low pages for all tables (`LowTop`).
* `Before(s, k)`: the state before the k-th call of `check_page`: the page on the stolen
  list, the three counts, the directory and the entries of the table (`CheckState`).
  Each call has a lemma (`Call1` to `Call14`), which shows its asserts as well.
  `GiveBack3` shows that pages freed in another order than they were taken in are
  again the top of the list.
* `Mapping(s, j, k)`: what iteration `k` of region `j` of `boot_map_region` finds mapped
  (`Done`) and with which page (`Want`); every other entry is empty, each table is used
  once, and the low pages suffice for the tables still missing (`Missing`). `MapThere`
  and `MapNew` are an iteration that finds its table and one that makes it. At the end `Done`
  is what `check_kern_pgdir` looks for.

A step of `check_page` that takes no page by force is composed from the lemmas of
PmapLemmas on `page_insert` and `page_remove`, one for each way through them
(`InsertNew`, `InsertFresh`, `InsertSame`, `InsertOver`, `InsertNowhere`), which say what the state is
after the call and not only what it keeps. That `check_page_alloc` counts as many free pages as
before needs that it restores the list (`PagesGiven`) and that lists with the same links have the same
count (`SameLinks`). `RegionPages` is the rounding of the last region. `ChecksPass` is about all
asserts that are reached, in `check_kern_pgdir` those on `pages[]`; it supposes that `kern_pgdir` is not in
the page behind the end of the kernel, where the run `boot_end` finds it cleared (section 5); the other
theorems hold of those machines too.

The boot loader has an induction of its own, over `LoaderInv` (TLC has checked it on kernels of the run
`boot_loader`):

* `Line20` follows the protocol of the 8042: as long as its input buffer is full it holds the
  byte that was sent last, a byte is sent only when the one before is taken, and so line 20
  opens when `0xdf` is taken. The disk has no sector before that (the
  assumption of section 2), so `Open` holds whenever a sector is stored, and `Bus` is the identity.
* `Asked`: what is in the buffer of the disk when it is read is the sector that was asked for.
* `Reading` says of the segment that is being read (`Progress`) that everything from the sector it
  begins in to where it has come is what the file has there. The headers are segment 0.
* `Read` says that what was read before is still in its place. A sector stored for one segment covers
  parts of others: those that end below it are not touched, and those that share it
  are written with what they have, because they share it in the file, too (`SameFile`).
  This is where `WellLinked` is used, and what `main.c:84` relies on.
* `NoneElse` is what was never written. `OnItsWay` is entry.S and the bss: the entry point and
  `entry_pgdir` are in the memory that is read (`EntryLoaded`) and mapped (`EntryMapped`).

`KernelLoaded` is the property of the run. `NeverFaults` is what of `Boots` is safety; that the
kernel is reached in the end is left to TLC.

### Environments

`IInv` of EnvProofs has one part for each thing the properties stand on:

* `Memory` is `Inv(mm, H, X)` of PmapLemmas again, with the directories of the
  environments for `H` and `X`: the kernel holds them, and their count of one is
  no mapping. It holds at *every* step of `env_free`, not only at its ends, and
  gives `MemoryAccounted`. `Coherent` is the TLB.
* `Control` says for whom the kernel works and whose directory is in `cr3`: a
  directory being taken apart is never loaded. `Spaces` says that slots in use have
  directories of their own, no others have tables, and `env_free` has already
  emptied what lies below `pdeno`. Together they give `AddressSpaceLives`, and
  that the directory `env_free` gives back at the end has no table left.
* `List` is the free list of slots as a sequence without repetition whose members
  are exactly the free slots. `EnvListIsChain` walks it from `env_free_list` (`Nth`,
  a recursive function); that the n-th step reaches the n-th member is an induction
  over n, done through the least counterexample (`LeastNat` and `SetInduction`), as the induction theorems of the library take an operator as a parameter, which the
  provers cannot instantiate.
* `Histories` says that the ids of a slot are those of consecutive generations,
  modulo `Generations`. `NewIdIsNext` proves this of the code's arithmetic, with the
  overflow of the signed sum. `StaleIdRejected` is then that two of fewer than
  `Generations` steps apart differ, and that the slot of an id is its own.
* `Parents` says that `env_parent_id` is the id the creator had, `age` generations
  ago. Without it `OnlySelfOrChild` is not inductive: the creator may be gone and
  its slot given to another.
* `Registers` says whose registers a slot holds, for `RunsAsItself`.

### Console input

Types alone do not make the ring a queue: a character stored at `wpos`
is the last of the contents only while the buffer is not full. `FitInv` adds
that what waits in the buffer and what the devices may still make of their
bytes is less than `CONSBUFSIZE` (`Pending`), which `InputFits` keeps; the
serial byte, the bytes on their way and each driver step then have one lemma
each. From it a step of Console maps to `Put`, `Get` or a stutter of
Fifo, by the lemmas on how the contents change when `wpos` or `rpos` advance
around the ring. `FastTypeCorrect` holds without `InputFits`.

`ModifiersTrackKeys` speaks of the moments when the driver has read everything.
In between, the flags lag behind the keys by the bytes in the controller and on
the wire, which may be half of an escaped key. The invariant `Tracked` says that
there is a path of flags through the unread bytes (`Reads`): it starts at the flags
the driver has, each step is `kbd_proc_data` of one byte and right about what the
typist meant by it (`Right`), and it ends at flags that agree with the keys that are
down (`Agrees`). Pressing or releasing a key appends to the path, by one lemma per
shape of a key's codes (`MakeCode`, `EscapedMakeCode`, `BreakCode`,
`EscapedBreakCode`); reading a byte takes its first step. A path is a function
whose existence is asserted, where a definition by recursion over the bytes
could not be reasoned about. `CharactersCorrect` and `ResetCorrect` are the
`Right` of the byte in the controller. The three theorems are about `FastSpec`,
where input does not wait for the ring, and so hold of `Spec` (`SpecIsFast`).

### Readline and runcmd

`EchoMatchesBuffer` has an exception that makes it weaker than what its proof
needs: a terminal may disagree with a line that holds a Delete, and erasing the
Delete would end the exception. `Edited` has no exception: the terminals of the
model take a Delete for a character, which real ones do not show, and so the
line is its end there too. It also says that all of it is printable (`buf[k] >= SPACE`),
so that no character moves the cursor in any other way.
`PutScreen` and `GlyphScreen` say what a character does to
the cells before the cursor, also when the screen scrolls (`ScrollScreen`): they move with it, as
far as `CRT_SIZE - CRT_COLS` cells back, which is where `BUFLEN` must fit.

`runcmd` parses the buffer in place. `Shown` says that while it does, the buffer
is what was on the screen at Enter, with a null for every space it has passed and
one at the end, so that what older lines left behind is never read; `Arguments(r)`
that `argv` holds the starts of the words before `r`, in order; `Between` and its
counterpart for the inner loop that `gobble` is not inside a word and `scan` is. At
the end `argv` lists the starts of all words: `Enumerated` makes that the order in
which `Words` counts them, and the nulls end each word where the space was.
`CommandCorrect` is the action property of `lookup`.

What `cprintf` prints goes through the recursive functions `PutAll` and `SendAll`.
That such a function exists is proved (`Iterates`), and that it stays
on the screen (`StaysIn`).

### Debugging information

`LookupInv` (TLC has checked it on the tables of the run `stabs`) has a part for each of the two
functions:

* `Bisecting` is the loop of `stab_binsearch`: whatever lies left of `l` starts at or before
  the address, whatever lies right of `r` behind it, and `*region_left` is a stab of the type or the
  start of the region. A probe has four ways through it (`ProbeNone`, `ProbeLess`,
  `ProbeGreater`, `ProbeEqual`). An exact match goes on with `addr + 1`, after which a stab
  at that address would be taken for a match, too: the parts on addresses therefore suppose that
  there are no such `Twins`. The parts on the region do not, which is why
  `TableRead` has no exception. `Found` is what the search gives (`SearchEnds`, `SearchFails`).
* `Stepwise` says that the three searches go through the whole table, the file that was found,
  and the function or, if there is none, the file. Each is `Searchable`: its stabs of the type are in
  order and its first stab is of another type, which is what makes a failed search different from
  one that found the start of its region. For the lines this needs that no file or function
  begins inside the region (`Unbroken`, from `FunctionIsFound`).
* `Filled` is what has been written to `info`.

`FunctionAndLineFound` then leads from the region of the searches to the whole table: the file that was
found is the one around the function (`FileOf`), so the last function in it at or before the
address is the last of all (`FunctionOf`), and the region of the lines is what belongs to it (`PartsOf`).

### The string library

Each group of functions has an invariant of its own, over the types of all:

* `Moving`, for the string instructions: with `k` units to go, the pointers are where `k`
  and the direction say, and memory holds the source *as it was* in the part that is
  done. A step keeps it because the unit it reads is not in that part: forwards the
  source is not below the destination or ends before it, backwards it is below. That
  is the condition `Backwards` decides, for words as for bytes (`DivExact`).
* `Copying`, for the copies of strings: `CopiedSoFar` relates both pointers and the
  bytes that are there. `SourceIntact` is the heart of it: what is read next is what
  the source held when the function was called, also if the destination lies below the
  source and overlaps it, and for `strncpy`, which reads the end again and again.
* `Searching`, for the loops that write nothing: no byte before `p` was one to stop at.
  `StringUnique` makes of the first zero the length, `FirstAt` of the place where
  a loop stopped the first of its kind.
* `Numbering`, for `strtol`: the digits read so far have the value `NumValue` says, as
  long as that fits a `long`. Values do not fall when a digit is added, so a value that
  fits had prefixes that fit, and none of them wrapped. The recursive function
  of the reference is determined by its equation (`ValueUnique`).

### Formatted output

The conversions put texts whose length no bound limits: a width can be any number. What
the proofs need of them is that they *are* texts (`FieldIsText`, `NumberIsText`,
`ErrorIsText`): `printnum` calls itself with the quotient, so the recursive function of the
model is shown to exist and to be a text for every number, base and width
(`PutsExist`, `PutsAreTexts`); `CountsExist` does the same for the digits of a width. The inductive
invariant `PrintfmtInv` has one part for each property (TLC has checked it on the run `printf`):

* `Cut`: the buffer of `vsnprintf` is the first `size - 1` characters of all that was put,
  and `cnt` counts all. `sprintputch` stores what there is room for at the position it
  has reached; `FirstGrows` says that this is again a first part, whether the text ends
  before the buffer, across its end or behind it. With a size below 1 nothing is put.
* `Whole`: what `sys_cputs` got is a number of full buffers, the buffer has less than
  one, and both together are all that was put. A conversion may fill several buffers
  at once (`BuffersSent`).
* `Verbatim`: if the format has no conversion and at most one percent sign, what was put is
  the format up to `f`, or up to the percent sign while a directive is read. The last is what makes
  `UnrecognizedAsWritten` inductive: when the directive turns out to be none,
  `vprintfmt` goes back in the format to behind a percent sign. `Begun` and
  `RewindsToPercent` say that there is one in what it has read, so that it does not
  run off the start, and in such a format it is the one at which the directive began.

### Model-checked only

Of the safety of the runs, TLAPS has not proved `DirectiveAsMeant`.
Its reference has numerals written with the powers of the base, where the code divides and
recurses; that the two agree for every number is an induction over data. The run compares
them on every directive of its bounds. Out of reach: all liveness (`AllInputReturned`,
`LookupReturns`, the two `Returns`, `Boots`), which rests on fairness.

## 5 Where code and comments disagree

Each is a run that ends in a counterexample; `PROJECT.json` quotes the lines.

| Run | The code | The statement |
|---|---|---|
| `remove_unmapped` | `page_lookup` does not test `PTE_P` and gives page 0 for an unmapped address whose table exists, so `page_remove` of it drops a reference of page 0 | `pmap.c:490` (and `pmap.c:472`) |
| `boot_end` | `kernel.ld` has no place for COMMON symbols, which the linker puts behind `end`; in the kernel of `obj/` (`kernel.sym`: `end` at `f018e000`, `kern_pgdir` at `f018e00c`) `end` is page aligned, so the first page of `boot_alloc` holds `kern_pgdir`, `memset` clears it and `PADDR` panics | `pmap.c:94` |
| `console_overflow` | a full ring becomes an empty one | `console.c:409` |

Others are read in the code and have no run:

* `page_free` does not detect that the last page of the list is freed again
  (`pmap.c:295`); `pp_ref` wraps at 65536 mappings (`memlayout.h:179`);
  `boot_alloc` has no limit (`pmap.c:82` asks for a panic); `page_init` does not
  look at `npages_basemem` (`pmap.c:256`), which `i386_detect_memory` computes.
* The two Shift keys share a flag, and so do the two of Ctrl and Alt: releasing
  one ends the modifier though the other is down (`console.c:338`). The typist of the
  model does not do that (`OneOfEach`): `ModifiersTrackKeys` and `CharacterAsTyped` would fail.
* A tab is on the serial line and the parallel port as a tab and five spaces,
  because `cga_putc` puts the spaces through `cons_putc` (`console.c:182`).
* The COMMON symbols behind `end` (above) are not in what `i386_init` clears either
  (`init.c:22`: "This ensures that all static/global variables start out zero").
  `KernelAsLinked` speaks of the bss between `edata` and `end` only.
* `envs` is never allocated, so a kernel that gets that far stops at the assert
  at `pmap.c:741`.
* A mouse byte is never read and blocks the keyboard (`console.c:325`: "Ignore
  data from mouse").
* `stab_binsearch` goes on with `addr + 1` after an exact match and may match
  the next stab (`kdebug.c:29`); it leaves a region that is not empty for an
  address before the first stab (`kdebug.c:41`). `SearchBrackets` and
  `FindsFunctionAndLine` leave these addresses out. `debuginfo_eip` returns success
  when it found no line (`kdebug.c:200`).
* `eip_fn_narg` counts the stabs of arguments that directly follow that of the function. Where the
  compiler passes arguments in registers it writes other stabs before them: for
  `stab_binsearch`, `printnum` and `boot_map_region` of the kernel in `obj/` the backtrace shows
  none (`kdebug.c:226`: "the number of arguments taken by the function"). `FindsFunctionAndLine`
  leaves these out.
* `runcmd` refuses `MAXARGS` arguments (`monitor.c:124` calls that the maximum).
* `%-5d` pads with dashes on the left (`printfmt.c:107`: "flag to pad on the
  right"); `%5d` of a negative number and `%9p` put the sign and the `0x` before the padding
  and do not count them, so that `%5d` of -7 takes six characters. `DirectiveAsMeant` leaves these
  three out (`Misprinted`): numbers shorter than a width, with `-`, or negative, or pointers.
* `%5s` is padded, with spaces, zeros or, with `-`, to the right, though "space or zero padding
  and a field width are supported for the numeric formats only" (`printfmt.c:12`). `DirectiveAsMeant`
  has what the code does: it is what the comments in `vprintfmt` say of the flags.
* A `0` after `.` is a flag, so that `%9.05s` pads with zeros; no directive of the run
  asks for that. `cprintf` of the kernel returns 0, because `putch` does `*cnt++`; no
  property speaks of it.
* The over-read at a segment's start does matter when two segments share a sector
  of memory and not of the file (`boot/main.c:84` says it does not); `kernel.ld`
  makes no such kernel, and `WellLinked` excludes it.

`page_init` also leaves out the page at `first_free_extend_addr` itself (`<=`
for `<`): a page is lost, no statement is broken, and `MemInit!InUse` has it.
`page_alloc` tests `alloc_flags && ALLOC_ZERO`; any flag zeroes, and there is one
flag. `ctlmap` has `KEY_HOME` at `0x97`, where the other maps have `0xC7`.

## 6 What is not modelled

* The functions of environments, traps and system calls that are left to be
  written (Env has external stand-ins for them) and `load_icode`. What a child
  whose parent is gone may expect: nobody can reach it, which the run shows.
* `user_mem_check`: a stub that returns 0; `user_mem_assert` therefore never
  destroys anything.
* `serial_init`, `kclock.c`: constants written to registers and constants read; they
  leave no state the kernel reads again but `serial_exists` and the amounts of
  memory, which are modelled where they are read. The overrun of the UART is in
  Console (`SerialArrives` replaces an unread byte), and no property forbids it:
  it happens in the device.
* The commands of the monitor: what they print is any of `Replies`.
* `i386_init` after the bss: a fixed sequence of calls that stops in `mem_init`.
  `_panic` prints and enters the monitor for ever, which is modelled.
* What `cprintf` does in a user environment after `sys_cputs`: system calls are
  stubs.
* After the panic in `check_kern_pgdir`: `lcr3`, `check_page_free_list(0)`, the
  setting of `cr0` and `check_page_installed_pgdir` are not reached.
* The user library and the test programs, which need environments; `obj/` is
  generated.

## 7 The plan

Done: PmapOps, Pmap and VirtMem, with the proofs of safety and of the refinement;
Env with the proof of its safety; MemInit with the proof of its order and its self-checks; Console with the
proofs of the queue and of the keyboard; Cga and Monitor with the proof of the echo
and of the parser; StringLib with the proof of what it writes and returns; Printfmt with
the proof of where its output goes; Stabs with the proof of what it finds; BootLoader with `boot.S` and `entry.S`, and the proof of what they load. The order followed what the rest of the
system stands on.

Left, the proof of `DirectiveAsMeant` (the numerals).
