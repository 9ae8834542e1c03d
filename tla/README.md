# LakeOS in TLA+

A verification project for LakeOS, a 32-bit x86 kernel in C (`src/kernel`) with
a small C library (`src/libc`). It contains TLA+ models of the parts of the kernel
that carry state, TLC configurations that check them on small instances, and TLAPS
proofs about the allocators and user memory, the loading of a program, the interrupts and the clock, the drivers of keyboard,
floppy, disks and screen, sectors, volumes, directories, vnodes and virtual files.

The kernel has one processor, no threads and no preemption of kernel code, but
interrupt handlers run between any two instructions while interrupts are enabled.
It is compiled without optimisation (`Makefile`: no `-O`), so every mention of a
variable in the source is a memory access of its own. All gates are interrupt gates
(`isr.c:447`): a system call or a page fault starts with interrupts disabled. The first `flush_tlb_entry` in it
enables them (`sti`, `vmm.c:23`), whatever they were before, and from there on it can be interrupted like user code.

## 1. Inventory

| Part | State | Operations | Who calls it | What is hard | Modules |
|---|---|---|---|---|---|
| **KMM**, kernel heap (`kmm.c`) | one array; a circular doubly linked list of free blocks in it, headers in front of allocations, static pointer `freelist` | `kmalloc`, `kfree`, `kexpand`/`krealloc`, `ksize` | everything above it | long sequences of calls; merging; in-place growth that moves a list node; its own metadata next to the callers' bytes | `KMM`, `KMMContract`, `MCKMM`, `AllocatorProofs` |
| **PMM**, page frames (`pmm.c`) | bitmap, `last_freed_block` | `PMM_init`, `alloc_page(s)`, `free_page(s)` | VMM, FDC, EXE | rounding of regions; where the bitmap is put; runs of n + 1 frames | `PMM`, `MCPMM`, `AllocatorProofs` |
| **VMM**, page tables (`vmm.c`) | page directory and tables | `vmm_map_page`, `vmm_unmap_page`, `vfree_page`, `virt_to_phys`, `new_page_directory`, page fault handler | UMM, KMM_init, FDC, EXE | a table lives as long as one of its pages; sharing between processes | `VMM` |
| **UMM**, user memory (`umm.c`) | list of blocks of a process | `umap_pages`, `ualloc_pages`, `umm_unmap_*`, growth on a page fault | `sys_mmap`, `sys_munmap`, page faults | list and page tables must agree; splitting; the faults of one access | `UMM`, `MCUMM`, `UMMProofs` |
| **EXE/ELF**, processes (`exe.c`, `elf.c`) | stack of processes | `execute`, `exit_process`, ELF loading | `sys_exec`, `sys_exit` | pointers into the new stack; rounding of segments to pages; frames shared between parent and child | `Loader`, `MCFormats`, `UMMProofs`; initial state of `UMM` |
| **PS2**, keyboard (`ps2.c`) | `keycode`, `ps2_stdin`, PIC mask | interrupt handler, `PS2_read`, `PS2_read_bytes` | DEV, `getchar` | the handler changes `keycode` between two reads of it; `hlt` | `PS2`, `MCDevices`, `DeviceProofs` |
| **FDC**, floppy (`fdc.c`, `dma.c`) | `floppy_irq_fired`, DMA buffer, the controller | reset, calibrate, seek, read, write | SAL | waiting for one's own interrupt; retries; counting interrupts | `FDC`, `MCDevices`, `DeviceProofs` |
| **ATA** (`ata.c`) | drive table, the drives' registers | detection, polled sector I/O in three address formats | SAL | registers shared by master and slave; a write that is stored after it returned; waiting for the timer | `ATA`, `MCDevices`, `DeviceProofs` |
| **SAL**, storage access (`sal.c`) | static buffers, device table | `SAL_read`, `SAL_write` | FAT | head, whole sectors and tail of a transfer | `SAL`, `FilesProofs` |
| **FAT** (`fat.c`) | allocation table, directories, clusters, open files | mount, create, lookup, open, read, write, close, remove, seek | VFS | several structures change in several writes; FAT12 entries share bytes; full volumes | `FATEntry`, `FATLayout`, `FATTree`, `FAT`, `MCFormats`, `MCFAT`, `FATProofs`, `FATTreeProofs`, `FilesProofs` |
| **VFS** (`vfs.c`) | tree of vnodes, `descriptor_list` | open, close, read, write, create, remove, stat, seek | system calls | a cache over three drivers; numbers of freed descriptors | `VFS`, `MCVFS`, `FilesProofs` |
| **VFM** (`vfm.c`) | list of virtual files, their contents and position | driver of VFS | VFS | one position for all descriptors; contents that move when they grow | `VFM`, `MCDevices`, `FilesProofs`; part of `VFS` |
| **DEV** (`dev.c`) | list of device files | driver of VFS | VFS | operations that are NULL | part of `VFS` |
| **SYS** (`sys.c`) | – | system calls | user programs | partial failure of `mmap` | `sys_mmap`, `sys_munmap` in `UMM` |
| **PIC, IRQ, ISR, IDT** (`pic.c`, `irq.c`, `isr.c`, `idt.c`, `isr.s`, `irq.s`) | masks, requests and lines in service; gates | set-up, dispatch, end of interrupt, panic | processor | ending every interrupt at the right controllers; two modules fill the same gates | `Interrupts`, `MCInterrupts`, `InterruptsProofs` |
| **RTC, PIT** (`rtc.c`, `pit.c`) | `time`, ticks, the chip's registers | reading the chip at boot, the timer interrupt, `PIT_sleep` | boot; IRQ 0; ATA | the chip counts while it is read; carries through a calendar | `Clock`, `Interrupts`, `InterruptsProofs` |
| **TTY** (`tty.c`) | screen, position | write, delete, scroll | DEV, libc, PS2 | the edges of the screen | `Terminal`, `MCFormats`, `DeviceProofs` |
| **DMA, GDT, TSS, boot, libc** | tables, ports | set-up | – | – | – |

What makes each part correct, in one line: a heap word or a page frame has one owner and none is lost;
the list of a process's blocks and its page tables describe the same pages; a key or an interrupt is
taken once and for what it was; a byte written to a file, a sector or an offset is the byte read there;
a name and a descriptor stand for one file as long as it exists; the clock shows an instant that was and goes
forward; a program finds its segments and its arguments where it looks for them.

The calls between the parts are synchronous. Modules therefore model one part each, with
the part below reduced to what it promises: SAL sees sectors, FAT sees SAL's bytes as
table entries and clusters, VFS sees drivers that find and create names, UMM
draws frames by number. `UMM` composes `VMM`; `FAT` includes the vnode that VFS
caches, because the cached cluster is part of what can go wrong.

## 2. Modules and code

Every definition that stands for code has an entry in `PROJECT.json` under `map`.
Definitions marked `Wrong on purpose` are mutants: plausible mistakes that the
named property must detect; no specification uses them.

**KMM.** `heap` is a record of the free nodes' `size`, `next`, `prev` and the live
blocks' `alloc` (the header). One action per call: `Kmalloc`, `Kfree`,
`Kexpand`, each the whole call, with `krealloc`'s three paths (absorb the next block,
shift its node, allocate-copy-free). `fault` records when the code damages its own
metadata (the head of the list handed out; the word behind a moved node written by
`memmove`; `krealloc` without a new block); the behaviour after that is not modelled. The
unit is a word (`HDR` = 1, `NODE` = 3 in the instance).

**KMMContract.** The heap as a caller sees it: a function from addresses to
sizes of disjoint blocks. `KMM!Implements` is the refinement `live <- heap.alloc`.

**PMM.** `free` is the set of blocks marked free; `pages` and `runs` record who holds what.
`PMM_init` is a function of the boot loader's map, with the code's roundings. `alloc_pages(n)`
and `free_pages(n)` both handle n + 1 blocks, as in the code.

**PS2.** The handler and `PS2_read` as two processes; every load and store of `keycode` is a step, and so is the `hlt` after the test (`Halt`): an
interrupt in between is lost on the reader, which only the next one, of the keyboard or the timer, makes look again.

**Clock, Interrupts.** The clock chip, in the formats the constant `Formats` names (BCD or binary, 12 or 24 hours), counts while
`RTC_init` reads it register by register, again until two readings agree, and takes the time zone off; `NextSecond`
is what the timer interrupt does with the result. `Interrupts` composes it with the boot order, both interrupt
controllers (requests, masks, service, priorities), the gates as `ISR_init_gates` and `IRQ_init` leave them, the common
stubs and the two dispatchers. Interrupts come in any order from the moment they are enabled; user code traps. `interrupts` is the
processor's flag. In a system call or a page fault (`InKernelService`) `flush_tlb_entry` sets it; interrupts and page faults then nest in it, up to
`MaxNesting` of them, and `resume` is the stack of what they return to. The device handlers touch static data only and never flush, so one of them is not interrupted.

**FDC.** Driver, interrupt line, handler and controller. `FDC_irq_wait` is two steps
(`Spin`: the loop ends; then the flag is cleared). The heads may stop at any cylinder. The motor, `SPECIFY`
and the DMA set-up are left out: nothing the driver reads depends on them.

**ATA.** `IDE_init`'s walk over both channels, a request's way through LBA48, LBA28 or CHS into the port writes
of `IDE_write` (each port has the byte written now and the one before, as LBA48 needs), and the drives, which decode
them, may report an error and store after the driver has gone on. Packet devices are found and skipped.

**VFM.** Contents as a sequence of bytes whose length is the heap block's (`ksize`), the one position of a file, its
open handles. `written` is what each byte should be; `got` compares a read with it.

**Terminal.** The screen as a function from cells to characters, `Written` applies `putchar` to one character of a string after the other; `text` is what has been
written and not taken back. Positions wrap like a `size_t`; `TerminalAssumption` says that it can number the cells of the screen.

**Loader.** `execute` in steps: `new_stack`, each argument copied, the pointers and `argc` pushed, `elf_load` with a step
per segment. `memory` is the mapped part of the new address space, each byte tagged with what it is; `user_pages` are the pages that ring 3 can access.
`umap_pages` maps all pages of a segment at once, each to a fresh frame, one that an earlier segment has filled too (`MapFresh`); the pages of the stack
are mapped for ring 0 only. `InputAssumption` states what the
code takes on trust, as it checks none of it: the segments are in ascending order without overlap and below the stack, none has more bytes in the file than in memory, and the
arguments with the pointers to them fit in the stack. A program may be of any type, its segments may start anywhere in a page and
share pages, and need not end in the page that `elf_load_segments` finds; `ProgramArrives` says what becomes of those that do neither (`WellPlaced`).
TLC evaluates the assumption for the programs and arguments of run `formats`.

**FATLayout.** `FAT_mount`'s numbers and the offsets every other function computes from them, on volumes whose number of sectors is in the
16-bit field or, that being 0, in `long_sectors`.

**FATTree.** Directories of one cluster each: the entries in the clusters, names as `FAT_conv_fname` stores them, the
entries `.` and `..`, creation and removal at any depth, file contents that look like entries. `treeFault` ends the model
where a directory outgrows its cluster, no cluster is free or a removal takes entries that are not the directory's.
A scan of the root directory goes on for `RootReach` entries (`bytes_per_sector * 32` bytes, `fat.c:422`), beyond the `RootEntries` it has: behind them come the
clusters 2, 3, ..., whose entries `FAT_lookup` finds when the root has none of the name (`Reached`, `Strangers`), and `FAT_remove` removes with the others (`misread`).
`FAT_create` looks for nothing, as in the code: neither `VFS_create` nor `FAT_create` asks whether the name is there, so a directory may have a name several times. `TreeAssumption` says of
the names that are created that no two are stored alike (`VFS` is about those that are) and that none is stored like `.` or `..`; the code does not prevent either.

**SAL.** `SAL_read` and `SAL_write` over a byte array and the two static buffers; `image` is the
same device with byte addresses.

**FATEntry.** The three encodings of table entries, over a string of base-`Base` digits (16 in the code), read and written through SAL: of an entry whose two bytes
lie in two sectors (`Splits`) SAL transfers the first byte only.

**FAT.** Table, root directory, who wrote which byte and for which position (`data`), cached vnode clusters and open
files; `FAT_create`, `FAT_lookup` of a name that is not there, `FAT_open`, `FAT_read`, `FAT_write` (with the allocation of clusters),
`FAT_close`, `FAT_remove` and a reboot that forgets vnodes and open files. `orderly` records
whether clients have so far neither created nor opened a file twice nor removed an open one. `full` records that `FindFreeCluster` has answered 0: nobody looks
at that, and the call goes on with cluster 0, which is linked into the chain and stands for the root directory, so that a `FAT_write` overwrites it. The model follows the call to its end (fault `root`,
or `boot` for the boot sector) and stops there. It also stops where a scan of the root directory, which goes on for `RootReach` entries, may take bytes of the first clusters
for an entry (`misread`), where an entry of the table is set that lies across two sectors (`Torn`, fault `torn`), and where a write goes on from entry 0 of the table (`astray`).
`ScanEnd` is what `FindFreeCluster` takes for the number of clusters. It may be more than the volume has (`OnDisk`): clusters behind the disk are handed out,
whose bytes nothing keeps: `OwnBytes` leaves their files out. `FATAssumption` has it in the table, as on volumes with one sector per cluster; with more the search may leave the table (section 5).

**VMM, UMM.** The process starts with `NewSpace`, its stack and the page of the kernel's heap it lies in; its list is empty if the memory
`kmalloc` gives it was zero, and the model stops if not (`wild_list`). FIXED ranges may lie anywhere, the stack and the kernel's part included. `as` holds the number of free frames, the page tables and pages present and the
attribute WRITEABLE; `blocks` is the process's list. Actions: `mmap` (fixed and first fit),
an `mmap` that fails after mapping, `munmap`, an access, and the page fault handler.
`as.fault` ends the model where the code runs out of frames, maps a page
twice, or follows a NULL pointer (the split of the first block, `umm.c:175`).

**VFS.** Vnodes in the order they were made, with their lists of children; the list of descriptors
as pointers into a heap whose freed blocks are given out again. Drivers hold entries with a place in their directory; FAT's keeps a name as `FAT_conv_fname`
makes it (`Spellings`, `Key`), finds the first entry that matches and removes all that do, and has an entry `.` in each directory. A vnode is known by the name that was asked for.
`fault` ends the model where the
code follows NULL (`open` of a missing name, `remove` of the first child), calls a NULL operation of DEV, or
removes a virtual file, which is freed twice. Clients use only descriptors they have open, and create any name, one that is there already too. Files have numbers that are not used again; in
the code a vnode has the first cluster, which is, so a stale vnode may by accident stand for a new file. Left out: the entry `..`, which is not found in a
directory of the root (its cluster is 0), the directory BIN that `VFS_init_rootfs` also makes, and what else removing `.` does (section 5). What a file contains is FAT's matter.

## 3. Runs

| Run | Expected | What it shows | Bounds, and why they are enough |
|---|---|---|---|
| `heap` | pass | blocks disjoint, list sorted and walked completely, `kexpand` grows, contract implemented | 16 words, requests 1, 3, 4, increments 1, 2, 4: at least three blocks, exact fits, remainders of 0, less than and more than one node, each path of `krealloc` |
| `heap_head` | violation | the block `freelist` points to is handed out whole | as above |
| `frames` | pass | one owner, conservation, kernel and bitmap kept out | 22 maps: two regions around a reserved one, every alignment of the boundary to a block of 4, two sizes of memory; runs of 1 and 2 |
| `sectors` | pass | transfers hit their bytes, whatever the buffers held | 3 sectors of 3 bytes, all offsets and lengths except short ones across a boundary; a middle sector needs 3 |
| `sectors_straddle` | violation | a short write across a boundary loses its second part | as above |
| `formats` | pass | table entries read back and end where they should, the parts of a volume apart, directories hold what was created in them, arguments and segments where a program looks for them, the end of the text on the screen | base 4, 5 clusters: odd and even ones with neighbours on both sides, sectors of 4 bytes, so that some entries lie across two; sectors of 4 and 8 bytes, the number of them in either field, 1 or 2 tables, root directories that fill a sector, more and less, types on both sides of the limit; 3 clusters of 4 entries, a root directory of 2 whose scan goes on to 7, names of either kind: nested directories, clusters that are a directory, a file and a directory again; pages of 4 bytes, segments of 0 to 6 bytes at and off a page boundary, up to 3 of them, up to 3 arguments of 0 to 3 characters; a screen of 2 rows of 3, texts of up to 7 characters: several scrolls |
| `volume` | pass | as long as the volume is intact no cluster has two owners and, in orderly use, none is lost, and bytes are the file's own, read from any position; writes keep off boot sector and root directory until the volume is full | 2 clusters of 2 bytes on the disk and one behind it, a root directory of 2 entries whose scan goes on to 3, either media byte, 2 names, 2 descriptors, writes of 1 and 3 bytes: within, up to and across a cluster, full volume, reuse |
| `volume_stray` | violation | removing a file writes entry number EOC | table shorter than EOC, as with any FAT12/16 volume that is not of maximal size |
| `memory` | pass | every block has its pages and every page a block or the stack, list sorted, frames accounted, faults progress | 6 user pages in 3 tables, ranges up to 3 pages: split, trim, both ends, several blocks per table; 10 frames, so that they run out |
| `vfs` | pass | a name has one vnode, vnodes go stale only by a removal under another spelling, descriptors are their own | a file with two spellings, `.`, 2 files beyond the disk's own, 8 vnodes, 2 opens on the block left free by STDIN and STDOUT: removal and recreation, aliases, reuse of a freed descriptor |
| `devices` | pass | typing order and return of `PS2_read`; own interrupt, sectors kept, requests answered for the floppy; the same for the ATA disks; virtual files read as written | keyboard: buffer of 3, 5 scan codes, so more keys than fit, releases and ENTER at each point; floppy: 2 cylinders, 2 heads, 2 tries, a seek that misses once, always, never; disks: three ways to populate two channels, sectors on both sides of the limit of LBA28, a small CHS drive; one virtual file, two handles, 4 bytes |
| `clock` | pass | one instant read, time of day and date carried on, interrupts ended, only exceptions panic | a clock of 2 seconds, 2 minutes and 2 hours, 7 boots around the ends of hour, day, month and year, BCD and binary at 24 hours; 2 ticks to a second, 52 in all: three midnights; lines 0, 1 and 6 (line 2 and so the second controller stay masked), faults 0 and 14, two levels of page faults and interrupts inside a system call or page fault |

**Symmetry** is used for names and descriptors in `FAT` and heap blocks in `VFS`, in
runs that check safety only; the specifications treat these values alike.

**Deadlock** is checked in all passing runs but `vfs`, where the faults and the bounds end behaviours, `formats`, where a mounted
volume and a loaded program are the end, and `clock`, where a panic halts the machine.

**Fairness.** `PS2`, `FDC` and `ATA` state weak fairness of the processor running the driver, of the delivery of
a pending, enabled interrupt, and of the device finishing what it was told. The kernel never preempts a
driver for good, an interrupt that is pending and unmasked is delivered when the flag allows it, and a
controller that never finishes is broken hardware. Nothing is assumed about the outcome: the heads
need not ever arrive; keys may be lost. The timer ticks on, for `PIT_sleep` and for a reader in `hlt`: `PIT_init` is called at boot (`kernel.c:43`) and nobody masks line 0
(a key between the test and `hlt` would otherwise be waited for in vain). With interrupts disabled none of the three properties holds: see section 5.

**Shared runs.** `MCDevices` and `MCFormats` each put several modules that share no state into one run: a variable chosen
in the initial state says which of them moves, and the others keep one of their initial states. The state space is the sum,
not the product, and each property is checked exactly as in a run of its own.

## 4. Proofs

A theorem holds for every value of the constants that the assumptions of its module allow; they say what the code fixes
(a header is smaller than a node, a drive's cylinders fit 16 bits) and how big a machine word is. `Induction` is the base of the
longer ones. The provers cannot instantiate a theorem about an arbitrary predicate, so it states induction over sets
(`Induct`, from the fact that the naturals are well-founded) and derives that a function defined by recursion has the
values it is meant to have (`Recursion`, `CountedRecursion`). Each loop of the code that a module writes as
a recursive function is reasoned about with these. It also holds the pigeonhole principle (`Twice`) and the facts about quotients and about
sequences put together that several proofs need.

**Heap.** `AllocatorProofs` proves for all heap sizes, header and node sizes (`HDR < NODE <= HEAP_SIZE`), all sets
of requests and positive increments:

- `HeapTypeOK`, `HeapNoOverlap`, `HeapListOK`: invariants. The inductive invariant `Inv`
  is "the metadata is damaged or `HeapOK`": type, blocks inside the heap and at least a node long, blocks
  apart, list doubly linked, complete and sorted. None of the four is inductive alone: a merge is
  only sound because list neighbours are address neighbours (sorted) and do not overlap (apart), and sortedness
  after an insertion needs that all nodes are in the list (complete). The argument follows the code: one lemma
  per helper (`UnlinkOK`, `CarveOK`, `TakeOK`, `MergeOK`, `InsertOK`, `ShiftOK`, `AbsorbOK`)
  says that it takes a good heap to a good heap, the calls are compositions of them.
- `HeapExpandGrows`: the action property of `kexpand`.
- `HeapImplementsContract`: every step is a step of `KMMContract` or a stutter, under
  the mapping the run checks.

**Frames.** `AllocatorProofs` also proves `FramesOneOwner` and `FramesConserved` for all memory maps, block sizes and run lengths.
The inductive invariant joins the two with the types of `free`, `pages` and `runs`: that a run found by the scan is disjoint from the
others needs that it is free, and that freeing gives back exactly what was taken needs conservation.
`KernelKept` is about `PMM_init`: on each map of a PC (`PCMemory`: available regions sorted and apart, at page boundaries and
below the virtual addresses the kernel ends at, room for the bitmap; nothing is asked of the others) no frame of the kernel and none of the bitmap is free after it, and
later steps grant only what is free or has been granted. Sums of lengths are those of naturals: usable memory of less than 4 GB.

**User memory.** `UMMProofs` proves `NoFrameLost`, `ListSorted`, `ListMatchesPages` and the action properties `PagesAreKept` and
`FaultsEnd`, for address spaces, page tables and ranges of any size, as long as no fault has ended the model. The invariant `UInv`
is one relation between the list, the page tables and the counter of free frames: the list is sorted and its blocks do not overlap, a page of the user is
present exactly if it is on the stack or in a block (`Agree`; pages in the kernel's part are present for the kernel's reasons too), a page table is present exactly if one of its pages is (`Sane`), and frames, pages and
tables add up. None of these stands alone: unmapping a table's last page frees the table only if the tables are those of the
present pages, and the page that is mapped twice is excluded by the agreement of list and pages. The loops over pages (`umap_pages`, `umm_unmap_pages`,
`umm_free_pages`) take one lemma each, by induction over the pages done; splitting and trimming are the lemmas `Halved` and `Parts`.

**Programs.** `UMMProofs` also proves `ProgramsArrive`: `ProgramArrives`, for pages, stacks, programs and arguments of any size that satisfy
`InputAssumption`. The invariant `LoadInv` follows `execute` from step to step. While arguments are copied, the first `nth - 1` strings are where
`temp_argv` says (`ArgumentsAt`), and `stack_base` is what the strings above it take up (`Used`), so that the next one still falls into the stack.
From `add_entrance_args` on the stack holds `argc`, the pointers, NULL and the strings (`HandedOver`), and what is written later lies below
the stack. While segments are loaded, the first `nth - 1` are in memory (`Image`), their pages and no others are the user's. `umap_pages` wipes every page of a segment, and the
copy zeroes the rest of its last page; `SegmentCopied` shows that neither reaches the earlier ones if no two segments share a page (`OwnPages`). If each segment ends in the page that is found from the page
it starts in (`EndsInPage`, section 5 says what happens otherwise), `EndsBehind` shows that the rounded end is behind it, so that neither a byte of it is missing nor the copy faults.

**Interrupts and clock.** `InterruptsProofs` proves `InterruptsEnded` and `PanicsAreFaults` for all clocks, boots, tick lengths, sets of lines of the
first controller and sets of faults. `NothingInService` alone is not inductive: inside a handler a line is in
service, and the step that ends it must know which, also when the handler interrupted a system call or a page fault. The invariant `Inv` adds that it is the line of the vector being
handled (`OneAtATime`), that the vector is one of those with a gate, and that user code and handlers run only after
`IRQ_init` has overwritten the gates of the controllers (`Handled`); the lemma `Gates` computes the table from there on, and
`EndOfInt` says that ending the interrupt of the only line in service leaves none.

`OneReading` says that what `RTC_init` accepts is the time of one instant, in each format. `Consistent` is the reason: as long as the chip has not counted during
a reading, the registers read so far are the chip's, and a chip that counts between two equal readings would have to stand still. `TimeIsKept` and `DateGoesOn` carry it on through
`NextSecond`, with the arithmetic of seconds, minutes and hours as one number (`SecondOfDay`). They assume 24-hour formats (`Hours24`): in
the other the driver decodes the afternoon wrongly (section 5), and the statement is false.

**Drivers.** `DeviceProofs` proves `KeysInTypingOrder` for any size of the buffer and number of keys. The order of the buffer is inductive
only together with the ages of the two codes on their way: what waits at the keyboard is younger than `keycode`, which is younger
than the buffer until it has been entered (`Ages`). `HandlerInv` is the point of the proof: wherever the reader is, the interrupt
replaces `keycode` by a younger code.

`FloppyOwnInterrupt` and `FloppySectorsKept` hold for all geometries, contents and numbers of tries, with sectors requested
with interrupts enabled or not, and under the assumption of the run that the controller is not in reset at boot (`~InReset`; section 5 says what
happens otherwise). `InStep` ties the driver's place to the controller's state: a command is answered by one interrupt, which is asked for,
pending or taken. `SectorInv` adds what the controller transfers (`Shape`) and the disk as a function of lbas (`Kept`); `OwnPlace`
is the arithmetic of `FDC_lba_to_chs`: two lbas have two places.

`SectorsAreKept` is the same for the ATA disks: any drives at the four positions, of any size that their cylinders can number, every
32-bit sector number. `NumberArrives` is the arithmetic of `IDE_ATA_operation`: each of the three ways to split a number over the registers, sent through ports that remember
two writes, is understood as that number by the drive it is meant for (`CHSMeans`, `FourBytes`, `PortsTold`). `DiskInv` is the protocol: a drive that stores
is the selected one of its channel and stores what was last written (`Synced`, `Stores`), a command is given only to a channel whose drive is not busy, and
what answers at the poll is the operation's own drive (`Answers`), or there was an error.

`FloppyRequestsEnd` and `OperationsEnd` are the part of `Returns` and `OperationReturns` that needs no fairness: until the operation
returns, the guard of a step of the device, the handler or the driver holds (`CanGoOn`, `DiskGoesOn`), and each step there is makes a number smaller: `6 * Tries + 7` at
most for the floppy (six steps a try), 10 for a disk, two of which are for what the drives of both channels were left to store. So no interrupt is waited for that
was taken already, and the drives are not given work without end. The hypotheses are `Interrupts` (with `~InReset` as above) and
`TimerOn`, without which neither is true (section 5).

`ScreenShowsText` is about screens of any width and height of at least two and texts of any length, with any number of scrolls. `OnScreen` relates the screen to a
sheet of rows and is kept by each character (`PutShows`): a full last row scrolls the screen and moves its window on the sheet by
one (`NewRowShows`), a character is the only difference of two sheets (`OnlyOneCell`), for which no two positions may share a cell
(`PlacesApart`). Writing follows from that over the characters of a string (`WriteShows`); taking back is `DrawShows` read backwards (`DeleteShows`), which holds only
where the character taken back is in the row of the cursor: hence `crossed` in the property.

**Sectors, entries, volumes.** `FilesProofs` proves `SectorsAreBytes` and `SectorsReadBack` for all sizes of sectors, disks, buffers and transfers, if no short transfer
straddles two sectors (`~Straddling`, the other half of the finding `sectors_straddle`). The state is just `disk = image`; the work is in the arithmetic of
the head, the whole sectors and the tail (`Parts`: each ends where the next begins) and in one lemma per part saying which
bytes of the disk it changes (`Unaligned`, `Whole`, `LastPart`).

`EntriesKept` has 16 as the base and holds for tables of any length, sectors of any size, FAT12 and FAT16, and cluster numbers below the marks; TLC
checks the same with a smaller base. It is about the entries that SAL transfers whole, among them all of FAT16; a torn one does not read back, but its write leaves the others alone. In digits both parities of a FAT12 cluster come to one form (`First`: entry c
begins at digit 3c), so `SetIs` can say that a set changes the digits of its entry and no others, and `Apart` that entries have no digit in common.

`VolumeParts` says of every formatted volume (`Formatted`: it has clusters, its tables have room for their entries, and its root directory is not longer than
`FAT_absolute_offset` reaches) that tables, root directory and clusters do not meet and
that the driver's offsets for the entries that exist are in the part they mean. It does not say that the driver stops at the last entry of the root (section 5).

`FATProofs` is the heart of the file system: `ClustersAreOwned`, `DataOnlyWritten` and `FilesKeepBytes` for any number of
clusters, files and descriptors and any size of a cluster, as long as the volume is intact: `FindFreeCluster` has found a cluster each time, no scan has taken bytes behind the root directory for an entry,
and no entry that lies across two sectors has been set. The steps that end this are steps of the model; what the disk holds after them is not claimed. The table is a graph (`Graph`): every link ends at a live cluster or at the end mark, no two links meet, and
`ChainsBegin` says, without mentioning paths, that there is no cycle: every set of live clusters has one that no cluster of the set links to.
The second part (`Heads`) says that the directory names the beginnings of chains. Each write to the table is of one of four forms, allocation, extension, the
entry made at creation and the release of a whole chain (`TakenGraph`, `ReturnedGraph`, with `ChainsApart` for what stays). In orderly use `Order` adds that the
clusters of an open file are the file's and that each byte of them is the one written for its position (`Written`); a write of many clusters is a loop over pieces
(`PieceSound`, `TurnsSound`), a read likewise (`ReadPieces`). In the middle of a call the volume may be full already: `Fine` says that nothing has gone wrong so far, and `UnfineSound` that it
stays so if it has.

**Directories.** `FATTreeProofs` proves `DirectoriesAreKept` for any number of clusters, any size of a directory and any names that are stored apart, created any number of times.
The invariant `TreeInv` says that the directories of the tree hold the entries of its files, their own two, free ones and no others (`Holds`), and
that a cluster in use belongs to one file or to what a removal left behind. It is inductive only because it says nothing of the other clusters: a
cluster that is taken again may be full of old entries or of a file's bytes that look like them, and `FAT_init_dir` has to make a directory of it whatever it held
(`Initialised`). `FAT_write_entry` changes one free entry (`Written`), so creation adds one file (`HoldsMore`). Removal takes whatever is
below the entry out of the tree. That this set is closed after as many levels as there are files (`BelowIs`) follows from the pigeonhole principle: a level that adds nothing
is the last, and each level before it adds a cluster. Closedness is what the step needs: no file of a remaining directory goes, and none of a removed directory stays (`HoldsLess`). A removal in the root directory that meets the name in the
clusters behind it ends what is proved (`misread`).

**Vnodes, descriptors, virtual files.** `StaleByTwins`, `NamesHaveOneVnode`, `DescriptorsKept` and `VnodesKept` are about `VFS`, for any files, names, spellings and
descriptors. The vnodes are a tree of depth two below the root (`Tree`, with what each vnode's children are in `Family`); the files of the drivers
are known by numbers that grow (`Numbered`), so that a file that is created again is another one. `DescInv` says that a descriptor in use points to a block in use.
`NamesHaveOneVnode` follows from the tree: only a walk adds vnodes, and it looks among the children first. For `StaleByTwins`, a file goes only with a removal,
whose vnode is then out of the tree, with what is below it and nothing else (`OneLost`, `LostBelow`); a vnode that stays and is stale now was of the same
entry, and so a twin of the one that went (`TwinGone`).

`VirtualFilesKeep` holds for contents and transfers of any length. The invariant says that a file's block agrees with the ghost of what was
written and holds garbage behind it (`Agree`); `Grow` and `Store` are the two things that VFM_write does to it.

**Only model-checked.** Liveness (`ReadReturns`, `Returns`, `OperationReturns`), as fairness is out of the prover's
reach here. What can be said without it is proved for the last two (`FloppyRequestsEnd`, `OperationsEnd`). Every invariant and every action property the passing runs check is stated by a theorem as well.

## 5. Where the code deviates

Three disagreements between the code and its own comments are runs (`findings` in `PROJECT.json`):
`heap_head`, `sectors_straddle`, `volume_stray`. The second reaches FAT12 volumes with sectors of 512 bytes: the entries of the clusters 341, 682, 1365, 1706
and so on lie across two sectors (`EveryEntryReads`).

The following are stated in the modules as well. They are refuted by TLC when checked with the settings
given; the passing runs do not depend on them.

| Property | Setting | What happens |
|---|---|---|
| `KMM!HeadersIntact` | `MCKMM.cfg` | `memmove`'s backward loop starts one word too far and overwrites the next header when `krealloc` moves a node up |
| `PMM!GrantedAvailable` | `MCPMM.cfg` | start rounded up, length rounded down: a frame across the region's end; on PCs with little memory the page at 0x9F000 |
| `PS2!BufferFits` | `MCDevices.cfg` | the terminating zero is written one byte behind the full buffer |
| `PS2!IndexInMap` | `MCDevices.cfg` | `keycode` is tested and read again; 0x58 passes the test |
| `PS2!ReadReturns` | `InterruptsOn = FALSE` | in a system call that has not come to `flush_tlb_entry` `hlt` is never woken |
| `FDC!Returns` | `Interrupts = FALSE` | likewise `FDC_irq_wait` spins for ever |
| `ATA!OperationReturns` | `TimerOn = FALSE` | likewise no tick comes and `PIT_sleep` never ends |
| `FDC!OwnInterrupt` | `InReset = TRUE` | leaving reset in `FDC_set_drive` raises an interrupt of its own, which ends the wait of `FDC_reset` too early; the firmware leaves the controller out of reset when it has used it |
| `FATEntry!GetsWhatWasSet` | `Types = {"FAT_32"}` | the mask `~0xF` clears the low digit |
| `FATEntry!EveryEntryReads` | `MCFormats.cfg` | the second byte of an entry that lies across two sectors is not stored and not read |
| `FATLayout!RootEnds` | `MCFormats.cfg` | `FAT_absolute_offset` lets through offsets behind the last entry of a root directory with fewer than `bytes_per_sector` entries |
| `FATTree!FoundWhereCreated` | `MCFormats.cfg` | a lookup in the root finds a name that was created in a subdirectory, whose cluster the scan reaches |
| `FATTree!RemovesOwn` | `MCFormats.cfg` | removing a name from the root removes it from such a subdirectory too: on the repository's floppy (`Makefile:90`, 224 entries) from those in the clusters 2 to 20 |
| `FAT!ScansOwn` | `MCFAT.cfg` | on such a volume bytes of files are taken for entries |
| `FAT!ClusterOnDisk` | `MCFAT.cfg` | on a full volume the scan finds padding entries, for clusters behind the end of the disk |
| `FAT!NeverOutside` | `MCFAT.cfg` | when those are used up `FindFreeCluster` answers 0, and `FAT_write` goes on with it: the root directory is overwritten, or the boot sector |
| `FAT!FullMeansFull` | `ScanEnd = 0` (16-bit sector count 0: every volume with its number in `long_sectors`) | no cluster is found on an empty volume |
| `FAT!MediaEntry` | `MCFAT.cfg` | a write to a file removed while open, or on a full volume, links into entry 0 |
| `Loader!StackIsUsers` | `MCFormats.cfg` | `valloc_page` maps the pages of the new stack without access for ring 3 (`vmm.c:151`): the program cannot read its arguments |
| `Loader!SharedPageKept` | `MCFormats.cfg` | of two segments in one page `umap_pages` wipes what the first had put there |
| `Loader!LastPageFound` | `MCFormats.cfg` | the last page of a segment that does not start at a page may not be mapped |
| `UMM!FitIsUnused` | `MCUMM.cfg` | `ualloc_pages` answers with pages of the stack, which has no block; they are then mapped a second time |
| `VFS!OneVnode` | `MCVFS.cfg` | a file opened by two spellings, or through `.`, has two vnodes |
| `VFS!NeverStale` | `MCVFS.cfg` | when it is removed by one of them the vnode of the other stays |

For the three rows with interrupts disabled the run needs `CHECK_DEADLOCK FALSE`: the machine is stuck.

Two more deviations are part of the UMM model and visible in how its properties are worded: the frames of an
`mmap` that fails are lost, as `umm_unmap_pages` unmaps without freeing (`lost` in `FramesAccounted`), and
WRITEABLE stays set in an entry after `munmap`, so a later read-only block can be written (`BlocksMapped` says only
that writable blocks are writable).

Other deviations that the models contain, in the wording of a property or as the end of a behaviour:

- **Clock.** `rtc.c` tests bit 6 of status register A, and the chip's update flag is bit 7, so that only the comparison of two
  readings protects `RTC_init` (`OneInstant`). In 12-hour BCD format `BCD_to_bin` scrambles the bit of the afternoon before
  it is tested (`rtc.c:98-112`). `RTC_sub_hours` tests a local `carry`, so the year is not taken back on the first of January.
  Days and months restart at 0 (`pit.c:43-55`), and `inc_day_and_month` leaves the carry of the hours: the year is counted at every midnight,
  so `ForwardOnly` says that the date goes forward, not that it is right. Ticks that come while interrupts are disabled for more than a tick are lost,
  hence `TimeOfDayCounts` counts interrupts and not time.
- **ATA.** The control port is addressed as `CTRL_base + reg - 0x0A` with a base of 0x3F6: `nIEN` is never set (`ata.c:56`, `ata.c:104`).
  A read ends with a cache flush like a write; errors of a command are not looked at; the branches for packet devices cannot be reached.
- **ELF.** `mem_end` is computed from the start of the page (`elf.c:79`) and not from the segment's address: hence `LastPageFound`.
- **User memory.** `new_process` never sets `blocks` of the process it gets from `kmalloc`: whatever is there is taken for a list (`wild_list`; the
  properties are about processes that find zeros). FIXED ranges are not looked at (`sys.c:117-120`): they may lie in the kernel's part, and where a page is
  present already it is mapped again (`remap`). Behind a last block in the kernel's part first fit always sees room (an unsigned difference, `umm.c:88`); a block with a gap of 2 GB or more in front of it does not grow
  (a signed one, `umm.c:104`).
- **FAT volumes.** The search for a free cluster counts `num_sectors * sectors_per_cluster` entries (`fat.c:335`): with several sectors to a cluster that
  can be more than the table has, which `FATAssumption` leaves out, and with `long_sectors` it is none. The other functions go on with the 0 that
  means failure; a write up to the end of a cluster allocates twice, and so links entry 0 to the end mark. A scan of the root directory that ends without a hit
  reads `last_free_cluster` uninitialised (`fat.c:460-473`), and with a 0 in it does not end.
- **VFS.** `.` is a name like others: removing it frees the clusters of the directory it is in, whose own entry stays.
- **FAT directories.** The name of a file with a base of 8 characters loses the last character of its extension (`fat.c:606`),
  and `A` and `A.` are one name, which is why `TreeAssumption` asks for names that differ once stored and `VFS` has `Spellings`. `FAT_write_entry` neither follows the chain of a directory that outgrows its cluster
  nor uses the slot it has found for the next entry (`treeFault = "outgrown"`); creating a directory on a full disk
  erases the root directory (`"full"`). `FAT_remove` of a directory leaves the clusters of what is in it marked as used
  (`orphans`). `..` of a directory in the root has cluster 0, the number that stands for "not found".
- **Terminal.** Taking back a character at the start of a row blanks a cell outside of the row and leaves the column at `TERMINAL_WIDTH`
  (`tty.c:33`); `ShowsEndOfText` is about texts in which that does not happen.
- **Virtual files.** All handles of a file share one position, which `open` resets (`vfm.c:122`), against `vfs.h:31-41`; the size of a file is that
  of its heap block. `VFM_create` allocates one byte less than the name needs (`vfm.c:96`).

Read but not in a model:

- `fdc.c:125` calls `vmm_map_page` without its fourth argument and `exe.c:77` calls `elf_load` without its first, against the
  prototypes (`vmm.h:122`, `elf.h:329`). The models take the evident meaning.
- The first `exec` reads through a NULL `process_stack` (`vmm.c:275`); `block->flags | UMM_BLOCK_FLAG_SHARED` is always true, so every block of the
  parent is copied, and `exit_process` frees frames the parent still has. An `mmap` of length 0 makes an empty block.
- `VFS_seek` fills a gap at the current position and not at the end of the file; `VFS_fstat` and `VFS_stat` call `f_Stat` with
  different kinds of handles (`vfs.c:320`, `vfs.c:327`); `VFM_seek` has no caller that can reach it.
- `FAT_read_dir` returns NULL when the entry is there (`fat.c:988`), and returns an uninitialised `last_free_cluster` in some cases
  (`fat.c:462`); `FAT_fname_conv` drops the dot; `FAT_conv_to_chrono` adds before it masks (`fat.c:786`); the FAT32 layout reads
  the root directory where FAT16 has it.
- `PS2_read_bytes` has no return statement, and `DEV_read` returns its value.

## 6. Not modelled, and the plan

Not modelled: DMA (port values without state that the program reads back; the transfer is part of FDC's controller), segments, the task state
segment and the boot code (set once), libc (stateless but for `strtok`; `memmove` is in KMM), the TLB; switching between processes, since
`new_page_directory` and `new_process` do not get that far (section 5); FAT32 volumes beyond their entries, directories of more
than one cluster, dates of files; `VFS_seek` and `stat`, whose only effects are the deviations above.

Order of the work:

1. Done: heap, frames, keyboard, sectors, table entries, volume, user memory, floppy, vnodes and descriptors.
2. Done: clock, interrupts and their controllers; ATA disks; contents of virtual files; the layout of a volume, its directories and
   reading; loading of a program; the terminal.
3. Processes: `execute` and `exit_process` over UMM and PMM, with the frames a child shares.
4. Composition: SAL over FDC and ATA, FAT over SAL, so that a write of several sectors can fail between two; the windows
   in which a crash leaves table and directory in disagreement.
