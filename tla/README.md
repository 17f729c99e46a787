# AshOS in TLA+

Specifications of the AshOS kernel and its host tool, checked with TLC on small
instances. Every invariant, action property and refinement the passing runs check
is also proved with TLAPS, for every value of the constants that satisfies the
stated assumptions; liveness is model-checked. Paths below are relative to `src/`.

## The system and its parts

| Part | State | Operations | What is hard about it |
|---|---|---|---|
| Heap, `kernel/heap.c` | list of block headers | `heap_init`, `kmalloc`, `kfree` + `heap_coalesce` | splits and merges must not lose or share a byte; `heap_coalesce` changes the list it walks |
| AshFS, `kernel/fs.c` | sector 0, inode table, data sectors; the kernel's superblock copy | `fs_init`, `fs_create`, `fs_write`, `fs_read`, `fs_delete`, `fs_list` | power loss between two sector writes; allocation looks at the disk while the new inode is in memory; the free count is kept apart from the inodes |
| mkdisk, `tools/mkdisk.c` | the same disk image | copy a file | a second implementation of the allocator on the same disk |
| Processes, `kernel/process.c`, `process.s` | process list, states, saved stacks | `process_init`, `process_create`, `process_exit`, `scheduler_tick` | runs inside the timer interrupt; creation can be interrupted |
| Interrupts, `kernel/idt.c`, `idt.s` | interrupt flag, interrupts in service | `idt_init`, `irq_handler`, `isr_handler` | order of EOI and context switch |
| PMM, `kernel/pmm.c` | frame bitmap, counter | `pmm_init`, `pmm_alloc`, `pmm_free` | counter and bitmap updated separately; RAM sizes at the limits |
| VMM, `kernel/vmm.c` | page directory and tables | `vmm_init`, `vmm_map` | tables are addressed through the identity mapping; failures are not reported |
| ELF loader, `kernel/elf.c` | mapped segments | `elf_load` | page boundaries; running out of frames halfway |
| System calls, `kernel/syscall.c` | descriptor table | open, read, write, close, exit | full table, ignored failures |
| Shell and keyboard, `kernel/shell.c`, `drivers/keyboard.c` | line buffer, modifiers | `shell_process_char`, commands | all commands run inside the keyboard interrupt |
| ATA, `drivers/ata.c` | drive registers | read, write a sector | waiting loops; the flush is sent to a drive that may be busy |
| Terminal, `kernel/kernel.c`, `kprintf.c` | cursor, screen | `terminal_putchar`, `kprintf` | wrap and scroll at the edges; the smallest integer |
| Boot, `kernel/kernel.c` | order of initialisation | `kernel_main` | interrupts are on before anything else is ready |
| GDT/TSS, serial | constants; a port | - | - |

They meet as follows. A key press is an interrupt whose handler edits the line
and, on Enter, runs the command to its end: file commands call AshFS, which
calls ATA; `run` calls the ELF loader (heap, AshFS, PMM, VMM) and leaves for
ring 3 without finishing the interrupt. System calls arrive from ring 3 and
call AshFS and the heap. The timer interrupt calls the scheduler. The heap gets
its pages from PMM and VMM at boot. `mkdisk` changes the disk while the machine
is off.

## Modules

| Module | Models | Notes |
|---|---|---|
| `Heap` | `heap.c` | one step per list node; `heap` maps header addresses to `[size, free, next]`; `live` is a ghost with the callers' allocations |
| `HeapProofs` | - | theorems about `Heap` |
| `AshFS` | `fs.c` | one step per sector written; `dsuper`, `dinodes`, `ddata` are the disk, `superblock` the memory copy, `call` the locals of the running call |
| `FileStore` | - | what AshFS promises: named contents, atomic calls that fail only for a reason, durable across power loss; what is kept of a file's data is a parameter |
| `AshFSProofs` | - | theorems about `AshFS` |
| `Mkdisk` | `mkdisk.c` | extends `AshFS` with the tool's runs while `pc = "off"` |
| `ImageProofs` | - | theorems about the two other users of a disk image, `Boot` and `Mkdisk` |
| `Scheduler` | `process.c`, `process.s`, interrupt entry and exit of `idt.c`/`idt.s`, `run` and `SYS_EXIT` as far as they move control | `resume` says whether a saved stack continues at an entry point or inside a timer interrupt; `in_service` is the PIC |
| `SchedulerProofs` | - | theorems about `Scheduler` |
| `Pmm` | `pmm.c` | the bitmap is a set of frames |
| `Memory` | `vmm.c`, `heap_map_pages`, `elf_load` | extends `Pmm`; one step per frame or table allocated and per entry written |
| `MemoryProofs` | - | theorems about `Pmm` and `Memory` |
| `Terminal` | terminal of `kernel.c`, `kprintf.c` | operators on a terminal record, no variables |
| `Console` | `keyboard.c`, line editor and dispatch of `shell.c` | extends `Terminal`; one action is one keyboard interrupt; `held` and `tabbed` are history |
| `ConsoleProofs` | - | theorems about `Terminal` and `Console` |
| `Syscall` | `syscall.c`, with `touch`, `write`, `rm` and `run` of `shell.c` | one step per call over abstract files; `opened` is a history of what the program holds open |
| `SyscallProofs` | - | theorems about `Syscall` |
| `Ata` | `ata.c`; the drive is external | one step per successful poll, word, or run of register writes |
| `Disk` | - | what the driver promises: atomic sectors, durable when a write returns unless the disk is `lazy` |
| `AtaProofs` | - | theorems about `Ata` |
| `Boot` | `kernel_main` and `fs_init` against the keyboard interrupt | extends `AshFS`; one step per statement of `fs_init`; `stage` is how far it is, `outer` what of `kernel_main` a command interrupted; `early` is history |
| `MC*` | - | instances for TLC |

Operators whose name ends in `Mutant` are wrong versions of the definition that
follows them; substituted for it, they make TLC report the property they are
paired with in `PROJECT.json`. No specification uses them.

Abstractions. File names are model values; `Trunc` is what `fs_strcpy` leaves
of a name. File contents are short sequences of bytes, sectors have two bytes.
`uint32_t` arithmetic that may wrap is modulo `WORD`. A sector write is atomic and
durable in `AshFS`, which is what `Ata` shows of the driver on a drive that is not
lazy. Scancodes fall into classes:
all keys whose two characters differ are one key. A format of `kprintf` is a
sequence of texts and directives.
Page flags are the same at every call and left out. The frames of the two
static page tables are numbered 0 and 1.

`process_create` has no caller in the repository; it is modelled as the
interface it offers, called by whatever process runs. A process entry function
is taken never to return (it would pop its own stack's end) and not to touch
the PIC.

## What the runs show

Passing runs:

| Run | Bounds and why they are enough | Shows |
|---|---|---|
| `heap` | 80 bytes, 12-byte headers, requests 0, 1, 6, 12, 32, 70: up to five blocks; splits, exact fits, remainders just too small, exhaustion | `Tiled`, `LiveBlocksDisjoint`, `Coalesced`, `AllFreedRestoresHeap`, `FirstFit`, and that every call returns (`CallsReturn`) |
| `fs` | two data sectors, two inodes, three names (symmetric), contents of none to two blocks, one byte too many, and (`WORD = 8`) a size for which the number of blocks wraps; one power loss inside a call, any number between calls: full disk, full inode table, overwrites, stale counts | `NoSharedBlocks`, `OutOfPlace`, `SizeCovered`, `UniqueNames`, `FreeNotOverstated`, and `ImplementsStore`: AshFS refines `FileStore` |
| `mkdisk` | same disk, kernel and tool in turns, `WORD = 8` so that the tool's unchecked count wraps, and with it the number of blocks of the largest file | `NewCopyIsRead`, `ToolOutOfPlace`, `NoSharedBlocks` |
| `scheduler` | five processes | `OneRunning`, `NoneLost`, `MaskedUntilEOI` |
| `memory` | 20 frames in the bitmap, 16 of them mapped to themselves, every RAM size from "no free frame" to two frames more than the bitmap has; programs with one to four segments, empty ones, ones that start inside a page or need a new page table; large programs whose page table comes to lie under the program, beyond the identity mapping, or is mapped over later | `MappedFramesPrivate`, `TablesReachable`, `SegmentsBacked`, `FreePagesExact`, `OwnedAreUsed`, `LoadEnds` |
| `console` | a screen of two rows of four columns, a prompt of two characters, a buffer of three and a NUL: lines wrap and scroll, the buffer fills; integers of six bits, at the ends of the range and where sign or number of digits changes, in `%d`, `%u` and `%x` | `ShownIsExecuted`, `NoStuckShift`, `NumbersReadBack` |
| `syscall` | three files, two descriptors for them: the table fills and descriptors are reused | `OpenFilesExist`, `OpenedExactly`, `OnlyOpenedChange` |
| `ata` | registers of one bit, so that all four parts of an address matter; sectors of two words; two good sectors and a bad one, which differ in a single upper part of the address; drives with and without a write cache, that keep or drop a command while busy; power loss at any step | `ReadyForCommand`, `ImplementsDisk`, `TransfersEnd` |
| `boot` | two inodes in two sectors, two data sectors; a file command or a `run` nested between any two statements of `fs_init`, any number of them one after the other; reboots, one power loss elsewhere | `MountedWhenReady`, `FilesApart`, `BootKeepsFiles`, `BootEnds` |

`ImplementsStore` speaks of all contents because `FileStore` is told what is kept of
them: `ReadBack`, the last chunk repeated, since `fs_write` puts every chunk into the
same sector (`fs_distinct` below). Contents that fit one block are kept as they are
(theorem `ReadBackOneBlock`). `FileStore` also says when a call may fail: a create
for a name in use or a full table, a write for a missing file, contents that are
`TooLong`, or no space. `NoneLost` holds for a reason
the next list explains: the interleaving in which two processes append to the
list at once cannot happen, because the timer never interrupts a second time
once it has switched to a new process.

Runs that TLC refutes, each a disagreement between the code and what a comment,
a message or the README says:

| Run | Property | What happens |
|---|---|---|
| `fs_distinct` | `FileBlocksDistinct` | all blocks of a file written by `fs_write` are the same sector |
| `mkdisk_again` | `CopyIsRead` | copying under an existing name succeeds and the old contents are read |
| `scheduler_ready` | `EveryReadyRuns` | switching to a new process leaves IRQ0 without EOI and interrupts off; if that process exits, it halts for good |

Limits of the passing runs that come from the code, not from the models:

- Overwriting a file, and failing with "disk full" halfway, lower the free count
  for blocks that are free again or never used (`fs.c:215`). The count is never
  too high (`FreeNotOverstated`), but no run claims that it is exact.
- `SizeCovered`, `NewCopyIsRead` and what `FileStore` keeps of a write exclude sizes
  within a block of 2^32 (`Wraps`): `blocks_needed` (`fs.c:201`) wraps to 0, and
  `fs_write` reports success having stored the size alone (`SizeOnly`). The shell
  cannot type such a size; `SYS_WRITE` passes a program's length on unchecked.
- `SegmentsBacked` holds for the programs of `memory`. A segment that starts
  inside a page and crosses into one more than its size alone needs, such as
  four bytes from the middle of a four-byte page, gets a page too few
  (`elf.c:79` looks at the size only). No such program is in the instance, and
  the theorem has `WellLinked` as hypothesis; the lemma `AlignedSegment` shows that
  a segment that begins with a page, such as the one `user.ld` puts at 0x400000,
  satisfies its first part.
- `Boot` puts commands between the statements of `fs_init`. One that comes inside a
  statement - in the middle of a sector transfer, or while the superblock is half
  copied - leads to the stage `"torn"`, which the model does not follow and no
  property but `BootEnds`, which counts it as an end, speaks of.
- `BootKeepsFiles` is about disks on which no command that creates, writes or
  deletes was ever run before `fs_init` was done; `ls`, `cat` and `run` may be. An
  early `touch` is lost if `fs_init` formats; an early `rm` or empty `write` saves
  the still empty superblock in memory over the one on disk, and this or the next
  boot formats. An early `run` that loads a program never comes back to
  `kernel_main` (stage `"user"`, left by a reset).
- `NoStuckShift` is about both shift keys up: with both held, releasing one ends
  the shift. Caps lock chooses the table for digits too.
- `ShownIsExecuted` leaves out lines with a tab: it moves the
  cursor by several cells, and erasing it by one.
- `OnlyOpenedChange` assumes that the names of descriptors 0 to 2, never
  written, are not by accident the name of a file (`Uninit`).
- `TransfersEnd` is about good sectors. For a bad one `ata_wait_drq` waits for
  ever, as in the model.
- The flush command is sent right after the last data word (`ata.c:110`), and the
  drive may still be busy with the sector: `ReadyForCommand` says that it is busy
  with nothing else. A drive that drops a command while busy and has a write cache
  (`Lazy`) then lets the write return before it is on the medium; `Disk` allows that
  for a `lazy` disk and demands durability of all others. The file system's
  behaviour under power loss (`fs`, `mkdisk`, `boot`) is that on a disk that is not
  lazy.
- `SYS_WRITE` returns the length whether or not `fs_write` worked.
- `UniqueNames` assumes names that fit in an inode (also a hypothesis of its
  theorem): `fs_create` looks for the full name and stores the cut one.
- `TablesReachable` holds while the frames in use lie below the stack page and every
  program (`FramesLow`). A program that fills the frames up to 0x400000 and then
  needs a new page table gets it at an address the program has been mapped over:
  the `"wild"` state of `Memory`, which the instance reaches in three ways and of
  which nothing is claimed. The bound is tight: with one frame more it is reached.
- `pmm_free` has no caller, so frames are never freed in `memory`; `Pmm` has it and
  `PmmCorrect` includes it.
- With too little RAM, `heap_map_pages` maps a part of the heap and `heap_init`
  announces all of it; `Memory` has that path (`AllocFrameFails`).
- `meminfo` prints free pages plus 521 as the total, which is the total only
  until the first frame is allocated.

Deadlock checking is off for `Scheduler` and `Memory`, where the machine may
really stop: every process halted, a program that has started.

Fairness. `Heap`: weak fairness of the steps of a running call - the processor
executes it and nothing preempts it. `Scheduler`: weak fairness of the timer
interrupt (the PIT ticks for ever), of boot and of a started `process_create`;
none of what processes choose to do. `Memory`: weak fairness of the next step -
one processor, no waiting.
`Ata`: weak fairness of the driver (it polls) and of the drive (it finishes what
it was told); none of callers, of power loss or of early destaging. `Boot`: weak
fairness of a nested command and of `kernel_main` while it is not interrupted. That
nobody types into the boot for ever is a hypothesis of `BootEnds`, not fairness.

## What is proved

Each component has an inductive invariant: the properties the runs check are too
weak to survive a step by themselves. What follows says what had to be added and
why, and what the theorems assume. Assumptions named `...Assumption` stand in the
modules that declare the constants, and TLC evaluates them on every run; the
hypotheses of single theorems are named where they occur.

**`HeapProofs`**, from `LayoutAssumption` (aligned, at least one block, no address
wraps) and `RequestsAssumption` (no request whose rounding wraps to 0):
`TypeOK`, `Tiled`, `LiveBlocksDisjoint`, `Coalesced`, `AllFreedRestoresHeap`
and `FirstFit`. The inductive invariant `IInv` says that blocks are ordered and
each ends where the next begins (`Ordered`, `BlocksOK`), that live pointers are
exactly the blocks in use (`LiveOK`), that the part of the list `heap_coalesce`
has passed is merged (`MergedSoFar`) and where the loop variable may be
(`ControlOK`). `Tiled` alone is not inductive: a merge needs to know that no block
lies between the two it joins, `AllFreedRestoresHeap` that a block in use belongs
to somebody. `HeapCallsDescend` is the part of `CallsReturn` that is safety: every
step of a call lowers `BytesAhead`, which is at most `1 + 2 * HEAP_SIZE`. A merge
leaves the loop variable where it is, so the distance to the end of the heap is
not enough; the distance from the end of the current block is added.

**`AshFSProofs`**, from `DiskAssumption`, `NamesAssumption`, `PayloadsAssumption`,
`ReadSizesAssumption` and `CrashAssumption`, for any number of power losses:

- `TypeOK`, `NoSharedBlocks` and `OutOfPlace`, from `FSInv`. It adds `WriteOK`:
  while `fs_write` runs, the blocks in its in-memory inode are its own old ones
  or blocks no inode on disk refers to, so writing the inode introduces no sharing.
- `UniqueNames`, if no name is cut (`ShortNames`).
- `SizeCovered`, from `SizeInv`, which follows how far `fs_write` has got: the
  inode reaches the disk only when its block list covers the new size, or the size
  wraps and nothing was allocated.
- `FreeNotOverstated`, from `CountInv`, which counts block-list entries, not
  sectors: `fs_delete` gives one block back per entry, and after `fs_write` several
  entries of a file may be the same sector.
- `ImplementsStore`, from `RefInv`, if no name is cut (`ShortNames`), for any
  contents. The mapping takes the files from the inode table on disk, so the step
  that writes an inode is the one that changes them; no other sector write does.
  `RefInv` follows the sector `fs_write` fills: all chunks go to the same one, so it
  holds the last one written, and the inode refers to it once per block.

**`ImageProofs`**, from the same assumptions and `ImagesAssumption`:

- of `Boot`: `MountedWhenReady`, `FilesApart` and `BootKeepsFiles`, from
  `BootFilesInv`. `BootInv` follows the three copies of the superblock (disk,
  memory, `fs_init`'s buffer), each of which an early command may have replaced by
  another; `NestInv` says that `kernel_main` is never suspended in the middle of a
  file command; `CalmInv` that without early commands only a disk without files is
  formatted. All are silent about the stage `"torn"`.
- of `Mkdisk`: `NoSharedBlocks` and `ToolOutOfPlace`, by showing that a copy keeps
  the kernel's own `FSInv`, and `NewCopyIsRead` if no name is cut.

**`MemoryProofs`**, from `PmmAssumption`, `MemoryAssumption` (heap and stack page in
the address space, static tables in the kernel image) and `ProgramsAssumption`
(programs are linked above the kernel and inside the address space):

- `PmmCorrect` for the frame allocator alone, and `MemoryImplementsPmm`: every step
  of boot or of a load is a step of `Pmm` or leaves its variables alone, which
  carries `FreePagesExact` and `OwnedAreUsed` over.
- `MappedFramesPrivate`, from `MemInv`: page tables are distinct frames allocated
  for that (`DirectoryOK`), under a page lies its own frame or one allocated for
  data, which no third page has (`FramesOK`), and the frame about to be mapped is
  not mapped yet (`PhysOK`).
- `SegmentsBacked`, from `LoadInv`, if segments end in the pages `elf_load` counts
  and share none (`WellLinked`). `LoadInv` must allow for pages whose page table
  could not be made: `vmm_map` does not report it, and the load goes on to fault
  when it clears the segment.
- `TablesReachable`, from `LowPagesInv`: frames are handed out from below and none
  comes back, and no loop maps a page below the stack page and the programs, so the
  pages of low frames stay mapped to themselves.
- `MemoryTablesAlwaysReachable`, the same without `FramesLow` but for programs that
  are small enough, from `LowInv`: if kernel, heap, program and tables fit below the
  stack page and the program (`WellLinked`, `LowEnough`). `LowInv` counts: it bounds
  the frames in use by the pages mapped so far and the page tables these need.
- `MemoryMappingDescends`, the part of `LoadEnds` that is safety: every step of a
  mapping loop leaves the loops or lowers, lexicographically, the loops, the pages
  of this loop and the steps of this page that are ahead. It needs no hypothesis
  beyond the assumptions, and holds when frames or tables run out.

**`SchedulerProofs`**, from `MaxProcsAssumption`: `OneRunning`, `NoneLost` and
`MaskedUntilEOI`. `SchedInv` says that the process list ascends (`ListAscends`),
which replaces reachability along `next`, that pids not given out are nowhere, that
the end of the list a running `process_create` found is still the end (`Creation`),
and `OneSwitch`: after the first switch interrupts stay off. Without `OneSwitch`
`Creation` is not inductive, and `NoneLost` would be false. `SchedOneSwitch` states
it as a theorem: only the kernel process is ever switched away from.

**`SyscallProofs`**, from `SyscallAssumption`: `OpenFilesExist`, `OpenedExactly` and
`OnlyOpenedChange`. `SyscallInv` adds that a running program has the keyboard
interrupt in service - without it an `rm` could come in between - and that at the
prompt no descriptor from 3 on is in use.

**`AtaProofs`**, from `AtaAssumption`, for all four kinds of drive: `ImplementsDisk`
and `ReadyForCommand`. `AtaInv` says, for each place of the driver, what the drive
may be doing: which command it has, how much of the sector has passed, where the
sector is (buffer, cache or medium), and that the cache is clean outside a write
unless the drive is lazy (`Settled`).
The refinement needs all of it: a write takes effect when the drive stores or
destages, long before or after the driver's own steps. `AddressOfRegisters`
shows that the four registers give the sector number back. Two more theorems are
the part of `TransfersEnd` that is safety. `AtaNeverBothWait`: in a call for a good
sector the guard of a driver or of a drive step is true; it needs that only bad
sectors are refused (`RefusedBad`). `AtaTransferDescends`: every such step lowers
`TransferAhead`, and only a power loss or the drive's own destaging are no such
steps.

**`ConsoleProofs`**, from `TerminalAssumption`, `ConsoleAssumption` (prompt and full
buffer fit the screen; 7 and 255 characters on 2000 cells in the code),
`NumbersAssumption` (a number is shorter than the screen without its last row) and
`RepliesAssumption` (a `%d` has an integer, a `%s` a string): `TypeOK`,
`ShownIsExecuted`, `NoStuckShift` and `NumbersReadBack`. `ShownIsExecuted` alone is
not inductive, for a scroll may push the start of the line off the screen.
`LineShown` therefore says where the line may start: so that a full buffer still
fits (`Room`), wherever it wraps and however often it scrolls. `StringEnds` adds
that the string in the buffer ends at `buffer_pos`. `NumbersReadBack` needs what
`print_uint` computes, digit by digit, and what the terminal's recursive functions
do with a text of any length.

Induction over data. The provers cannot use the library's induction theorems,
which take an operator as a parameter. Where a proof needs induction over naturals
(recursive functions in `ConsoleProofs`, least elements in `SchedulerProofs`), it
takes the least counterexample, which exists because `<` is well founded on the
naturals (`WFMin`, which takes a set), and derives a contradiction.

Only model-checked: liveness - `CallsReturn`, `LoadEnds`, `TransfersEnd` and
`BootEnds` - which needs fairness and `ENABLED` and is outside what TLAPS proves
here. For the first three the theorems above show that a run of steps is finite;
that a step happens is what TLC adds. `BootEnds` has no such theorem: any number of
commands may interrupt `kernel_main`, and the boot ends only if they stop.

## Not modelled

- GDT and TSS: descriptors written once with constants. The serial port:
  `kprintf` copies every character to it, polling until it is ready.
- The TLB, page flags, segment contents, interrupt gate encoding.
- Bytes of heap blocks, and with them `cat`, which terminates a 512-byte buffer
  after a read of 512 bytes (`shell.c:157`); calls to `kmalloc` whose result is
  not checked (`SYS_OPEN`, `cat`, the user stack of `run`) are taken to succeed.
- Interrupts during boot other than file commands and `run`: a command that calls
  `kmalloc` inside the `kmalloc` of `process_init`; and what follows a command
  inside a statement of `fs_init`.
- The unbounded copy of a name into `name[64]` by `write` (`shell.c:133`): names are
  taken to fit. What the replies of the shell's commands say.
- Setting up the PIC and the interrupt gates in `idt_init`.
- A disk that held something else before it was first formatted.
- Host I/O errors of `mkdisk`. CPU exceptions other than those of a user program.
