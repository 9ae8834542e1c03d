-------------------------------- MODULE PMM --------------------------------
(***************************************************************************)
(* The physical memory manager of LakeOS (kernel/src/pmm.c): a bitmap with *)
(* one bit per page frame, built from the boot loader's memory map, and    *)
(* first-fit allocation from the block that was freed last.                *)
(*                                                                         *)
(* `free' is the set of blocks whose bit is BITMAP_BLOCK_FREE.  The blocks *)
(* in callers' hands are recorded beside it: `pages' for alloc_page and    *)
(* `runs' for alloc_pages.  Callers give back what they got, as they got   *)
(* it (`up to the caller to keep track of allocation sizes').              *)
(***************************************************************************)
EXTENDS Integers, Sequences, FiniteSets

CONSTANTS MEMORY_BLOCK_SIZE,
          KernelBegin, KernelEnd,  \* the addresses of _begin and _end
          MemoryMaps,              \* the boot loader's maps: sequences of regions
          RunLengths               \* arguments of alloc_pages

ASSUME PMMAssumption ==
  /\ MEMORY_BLOCK_SIZE \in Nat \ {0}
  /\ KernelBegin \in Nat /\ KernelEnd \in Nat /\ KernelBegin < KernelEnd
  /\ RunLengths \subseteq Nat

VARIABLES map,               \* the memory map handed over at boot
          free,              \* blocks marked free in the bitmap
          last_freed_block,
          pages,             \* blocks held by callers of alloc_page
          runs               \* <<first block, n>> held by callers of alloc_pages

pmmVars == <<map, free, last_freed_block, pages, runs>>

-----------------------------------------------------------------------------
(* PMM_init                                                                *)

div_round_up(a, b) == IF a % b # 0 THEN a \div b + 1 ELSE a \div b

RegionEnd(r) == r.address + r.length

region_in_kernel(r) == ~(RegionEnd(r) < KernelBegin \/ r.address > KernelEnd)

shrink_region_around_kernel(r) ==
  IF r.address > KernelBegin /\ RegionEnd(r) < KernelEnd
  THEN r
  ELSE IF r.address < KernelBegin /\ RegionEnd(r) <= KernelEnd
  THEN [r EXCEPT !.length = @ - ((RegionEnd(r) - KernelBegin) + 1)]
  ELSE IF r.address >= KernelBegin /\ RegionEnd(r) > KernelEnd
  THEN [r EXCEPT !.address = KernelEnd + 1]
  ELSE r

Shrunk(r) == IF region_in_kernel(r) THEN shrink_region_around_kernel(r) ELSE r

TotalMemory(m) ==
  LET sum[i \in 0 .. Cardinality(DOMAIN m)] ==
        IF i = 0 THEN 0 ELSE sum[i - 1] + m[i].length
  IN  sum[Cardinality(DOMAIN m)]

bitmap_len(m) == TotalMemory(m) \div MEMORY_BLOCK_SIZE

bitmap_size(m) == div_round_up(bitmap_len(m), 8)

\* Only regions that are looked at for the bitmap are shrunk in this pass.
IsTried(m, i) == m[i].available /\ m[i].length >= bitmap_size(m)

HoldsBitmap(m, i) == IsTried(m, i) /\ Shrunk(m[i]).length >= bitmap_size(m)

\* The region that the bitmap goes to.
BitmapRegion(m) ==
  CHOOSE i \in DOMAIN m : HoldsBitmap(m, i) /\ \A j \in 1 .. i - 1 : ~HoldsBitmap(m, j)

BitmapAddress(m) == Shrunk(m[BitmapRegion(m)]).address

\* The regions after the bitmap has been placed.
Placed(m) ==
  [i \in DOMAIN m |->
     IF i = BitmapRegion(m)
     THEN [Shrunk(m[i]) EXCEPT !.address = @ + bitmap_size(m),
                               !.length  = @ - bitmap_size(m)]
     ELSE IF i < BitmapRegion(m) /\ IsTried(m, i) THEN Shrunk(m[i])
     ELSE m[i]]

\* Wrong on purpose: what shrink_region_around_kernel could not separate from
\* the kernel is marked free.
MarkedFreeInKernel(r) ==
  LET first == div_round_up(r.address, MEMORY_BLOCK_SIZE)
  IN  IF r.available THEN first .. first + r.length \div MEMORY_BLOCK_SIZE - 1 ELSE {}

\* The blocks of region r whose bits are cleared: from the first block
\* boundary in the region on, one block for every MEMORY_BLOCK_SIZE bytes of
\* its length.  Reserved regions keep the bits that memset has set.
MarkedFree(r) ==
  LET first == div_round_up(r.address, MEMORY_BLOCK_SIZE)
  IN  IF region_in_kernel(r) \/ ~r.available
      THEN {}
      ELSE first .. first + r.length \div MEMORY_BLOCK_SIZE - 1

PMM_init(m) == UNION {MarkedFree(Shrunk(Placed(m)[i])) : i \in DOMAIN m}

-----------------------------------------------------------------------------
(* Memory maps                                                             *)

Regions == [address : Nat, length : Nat, available : BOOLEAN]

\* External: a memory map of a PC.  Its available regions follow one another,
\* begin at a page and end below the image's virtual addresses (linker.ld), the
\* image begins at a page, and there is room for the bitmap.  Reserved regions
\* lie anywhere, also at the top of the 32-bit addresses.
PCMemory(m) ==
  /\ KernelBegin % MEMORY_BLOCK_SIZE = 0
  /\ m \in Seq(Regions)
  /\ \A i, j \in DOMAIN m :
       i < j /\ m[i].available /\ m[j].available => RegionEnd(m[i]) <= m[j].address
  /\ \A i \in DOMAIN m :
       m[i].available => RegionEnd(m[i]) < KernelEnd /\ m[i].address % MEMORY_BLOCK_SIZE = 0
  /\ \E i \in DOMAIN m : HoldsBitmap(m, i)

-----------------------------------------------------------------------------
(* Allocation                                                              *)

Blocks == 0 .. bitmap_len(map) - 1

Lowest(b, candidates) == b \in candidates /\ \A c \in candidates : b <= c

\* The scans start at last_freed_block and do not wrap around.
Candidates == {b \in Blocks : b >= last_freed_block /\ b \in free}

alloc_page ==
  \/ \E b \in Candidates :
       /\ Lowest(b, Candidates)
       /\ free' = free \ {b}
       /\ pages' = pages \cup {b}
       /\ UNCHANGED <<map, last_freed_block, runs>>
  \/ Candidates = {} /\ UNCHANGED pmmVars          \* returns NULL

free_page(b) ==
  /\ b \in pages
  /\ last_freed_block' = b
  /\ free' = free \cup {b}
  /\ pages' = pages \ {b}
  /\ UNCHANGED <<map, runs>>

\* alloc_pages(n) takes the blocks b .. b + n, one more than it is asked for.
\* The bits behind the last block are set, so no run reaches beyond it.
Run(b, n) == b .. b + n

RunCandidates(n) == {b \in Blocks : b >= last_freed_block /\ Run(b, n) \subseteq free}

\* Wrong on purpose: the last block of the run is not marked.
alloc_pages_unmarked(n) ==
  \E b \in RunCandidates(n) :
    /\ Lowest(b, RunCandidates(n))
    /\ free' = free \ (b .. b + n - 1)
    /\ runs' = runs \cup {<<b, n>>}
    /\ UNCHANGED <<map, last_freed_block, pages>>

alloc_pages(n) ==
  \/ \E b \in RunCandidates(n) :
       /\ Lowest(b, RunCandidates(n))
       /\ free' = free \ Run(b, n)
       /\ runs' = runs \cup {<<b, n>>}
       /\ UNCHANGED <<map, last_freed_block, pages>>
  \/ RunCandidates(n) = {} /\ UNCHANGED pmmVars    \* returns NULL

\* Wrong on purpose: n blocks are given back where alloc_pages took n + 1.
free_pages_short(b, n) ==
  /\ <<b, n>> \in runs
  /\ last_freed_block' = b
  /\ free' = free \cup (b .. b + n - 1)
  /\ runs' = runs \ {<<b, n>>}
  /\ UNCHANGED <<map, pages>>

free_pages(b, n) ==
  /\ <<b, n>> \in runs
  /\ last_freed_block' = b
  /\ free' = free \cup Run(b, n)
  /\ runs' = runs \ {<<b, n>>}
  /\ UNCHANGED <<map, pages>>

PMMInit == /\ map \in MemoryMaps
        /\ free = PMM_init(map)
        /\ last_freed_block = 0
        /\ pages = {}
        /\ runs = {}

PMMNext == \/ alloc_page
        \/ \E b \in pages : free_page(b)
        \/ \E n \in RunLengths : alloc_pages(n)
        \/ \E r \in runs : free_pages(r[1], r[2])

PMMSpec == PMMInit /\ [][PMMNext]_pmmVars

-----------------------------------------------------------------------------
(* Properties                                                              *)

\* The shape of the allocator's state; the scans begin at a frame that
\* free_page or free_pages returned, or at the first.
PMMTypeOK ==
  /\ map \in MemoryMaps
  /\ free \subseteq Int /\ pages \subseteq Int
  /\ runs \subseteq Int \X RunLengths
  /\ last_freed_block \in {0} \cup PMM_init(map)

RunBlocks == UNION {Run(r[1], r[2]) : r \in runs}

\* A frame has at most one owner: whatever the order of alloc_page, free_page,
\* alloc_pages and free_pages, no frame is held by two callers, and no frame
\* that somebody holds is marked free.
OneOwner ==
  /\ pages \cap RunBlocks = {}
  /\ free \cap (pages \cup RunBlocks) = {}
  /\ \A r, s \in runs : r # s => Run(r[1], r[2]) \cap Run(s[1], s[2]) = {}

\* No frame is lost or made up: the frames marked free and the frames held by
\* callers are always exactly those PMM_init marked free, so a reserved frame
\* is never handed out.  Both alloc_pages(n) and free_pages(n) are about
\* n + 1 frames.
Conserved == free \cup pages \cup RunBlocks = PMM_init(map)

Overlaps(b, from, to) ==
  b * MEMORY_BLOCK_SIZE < to /\ from < (b + 1) * MEMORY_BLOCK_SIZE

\* alloc_page never hands out a frame with a byte of the kernel image or of
\* the bitmap itself, wherever PMM_init has put the bitmap.
KernelNotGranted ==
  \A b \in pages \cup RunBlocks :
    /\ ~Overlaps(b, KernelBegin, KernelEnd)
    /\ ~Overlaps(b, BitmapAddress(map), BitmapAddress(map) + bitmap_size(map))

\* `round the size of free regions down': every frame that is handed out lies
\* in a region that the memory map calls available.
GrantedAvailable ==
  \A b \in pages \cup RunBlocks :
    \E i \in DOMAIN map :
      /\ map[i].available
      /\ map[i].address <= b * MEMORY_BLOCK_SIZE
      /\ (b + 1) * MEMORY_BLOCK_SIZE <= RegionEnd(map[i])
=============================================================================
