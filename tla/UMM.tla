-------------------------------- MODULE UMM --------------------------------
(***************************************************************************)
(* The memory of a process (kernel/src/umm.c): the list of its blocks and  *)
(* the pages behind them, as mmap, munmap (kernel/src/sys.c) and the page  *)
(* fault handler (kernel/src/vmm.c) change them.  One process runs; its    *)
(* stack is mapped without a block.                                        *)
(*                                                                         *)
(* Pages 0 .. UserEnd - 1 are user memory, the others the kernel heap;     *)
(* nothing keeps mmap with FIXED from blocks in the latter.                *)
(***************************************************************************)
EXTENDS VMM, Sequences, FiniteSets

CONSTANTS UserEnd,      \* user_memory_end
          StackPages,   \* the pages new_stack maps below user_memory_end
          SignBit,      \* 2^31 bytes in pages: a longer distance is negative
          MaxLen,       \* the longest range in a call
          Kinds         \* the prot and flags of mmap: [write, grows]

ASSUME UMMAssumption ==
  /\ UserEnd \in 1 .. NumPages - 1 /\ StackPages \in 1 .. UserEnd
  /\ MaxLen \in Nat /\ SignBit \in Nat
  /\ Kinds \subseteq [write : BOOLEAN, grows : BOOLEAN]

VARIABLES
  as,      \* the address space
  blocks,  \* the list process->blocks
  touch,   \* the address whose access faulted and is to be tried again
  lost     \* ghost: how many frames failed mmaps have dropped

vars == <<as, blocks, touch, lost>>

UserPages == 0 .. UserEnd - 1
HeapPages == UserEnd .. NumPages - 1
Stack     == UserEnd - StackPages .. UserEnd - 1
Nowhere   == -1

\* A block is never empty: mmap of length 0 is not modelled.
Lens == 1 .. MaxLen

End(b) == b.start + b.len
Within(b) == b.start .. End(b) - 1

\* The state of a call in progress.
Now == [blocks |-> blocks, as |-> as]

Remove(list, i) == SubSeq(list, 1, i - 1) \o SubSeq(list, i + 1, Len(list))

-----------------------------------------------------------------------------
(* Mapping                                                                 *)

\* How many blocks the walk of umap_pages leaves in front of a new block.
Passed(list, v) ==
  CHOOSE k \in 1 .. Len(list) :
    /\ k = Len(list) \/ End(list[k + 1]) > v
    /\ \A j \in 1 .. k - 1 : End(list[j + 1]) <= v

\* Wrong on purpose: a new block always goes to the end of the list.
InsertLast(list, b) == Append(list, b)

\* A new block at the start of the first one replaces the list.
Insert(list, b) ==
  IF list = <<>> \/ b.start = list[1].start THEN <<b>>
  ELSE IF b.start < list[1].start THEN <<b>> \o list
  ELSE LET k == Passed(list, b.start)
       IN  SubSeq(list, 1, k) \o <<b>> \o SubSeq(list, k + 1, Len(list))

umap_pages(s, b) ==
  [blocks |-> Insert(s.blocks, b), as |-> map_new_range(s.as, b.start, End(b), b.write)]

\* The blocks that are followed by a gap of len pages.  Sizes are unsigned:
\* behind a last block that ends above user memory there is always room.
GapAfter(list, len) ==
  {i \in 1 .. Len(list) :
     IF i < Len(list) THEN list[i + 1].start - End(list[i]) >= len
     ELSE UserEnd < End(list[i]) \/ UserEnd - End(list[i]) >= len}

\* Where ualloc_pages puts len pages.
FirstFit(list, len) ==
  IF list = <<>> \/ list[1].start >= len THEN 0
  ELSE IF GapAfter(list, len) = {} THEN Nowhere
  ELSE End(list[CHOOSE i \in GapAfter(list, len) :
                  \A j \in GapAfter(list, len) : i <= j])

\* Where sys_mmap puts the block: at addr with the flag FIXED.
Placed(fixed, addr, len) == IF fixed THEN addr ELSE FirstFit(blocks, len)

\* Bound: ranges lie in the pages that are modelled.  Whether they lie in
\* user memory is not looked at.
Fits(at, len) == at # Nowhere /\ at + len <= NumPages

Block(at, len, k) == [start |-> at, len |-> len, write |-> k.write, grows |-> k.grows]

Calm == touch = Nowhere /\ as.fault = "none"

\* sys_mmap.  A block at address 0 is mapped, and reported as a failure.
sys_mmap(fixed, addr, len, kind) ==
  LET at == Placed(fixed, addr, len)
      s  == umap_pages(Now, Block(at, len, kind))
  IN
  /\ Calm
  /\ fixed \/ addr = 0
  /\ Fits(at, len)
  /\ blocks' = s.blocks /\ as' = s.as
  /\ UNCHANGED <<touch, lost>>

\* umm_unmap_pages looks at the blocks behind the first, drops the frames of
\* the one it removes, and goes on from its successor, which the last block
\* does not have.
Dropped(s, at) == {i \in 2 .. Len(s.blocks) : s.blocks[i].start = at}

unmap_range(a, first, end) ==
  LET upto[n \in Nat] == IF n = 0 THEN a ELSE vmm_unmap_page(upto[n - 1], first + n - 1)
  IN  upto[end - first]

umm_unmap_pages(s, at) ==
  IF Dropped(s, at) = {} THEN s
  ELSE LET i == CHOOSE k \in Dropped(s, at) : TRUE
           a == unmap_range(s.as, at, End(s.blocks[i]))
       IN  [blocks |-> Remove(s.blocks, i),
            as |-> IF i = Len(s.blocks) THEN Fault(a, "null_read") ELSE a]

\* sys_mmap of a file whose offset cannot be set.
sys_mmap_fails(fixed, addr, len, kind) ==
  LET at == Placed(fixed, addr, len)
      s1 == umap_pages(Now, Block(at, len, kind))
      s2 == IF at = 0 \/ s1.as.fault # "none" THEN s1 ELSE umm_unmap_pages(s1, at)
  IN
  /\ Calm
  /\ fixed \/ addr = 0
  /\ Fits(at, len)
  /\ blocks' = s2.blocks /\ as' = s2.as
  /\ lost' = lost + Cardinality(s1.as.page \ s2.as.page)
  /\ UNCHANGED touch

-----------------------------------------------------------------------------
(* Unmapping                                                               *)

Holder(list, v) == {i \in 1 .. Len(list) : v \in Within(list[i])}

\* Wrong on purpose: the page between the two halves stays in the upper one.
split_block_overlapping(s, i, v) ==
  LET b   == s.blocks[i]
      low == [b EXCEPT !.len = v - b.start]
      top == [b EXCEPT !.start = v, !.len = End(b) - v]
      a   == vfree_page(s.as, v)
  IN  IF i = 1
      THEN [blocks |-> [s.blocks EXCEPT ![1] = top], as |-> Fault(a, "null_write")]
      ELSE [blocks |-> SubSeq(s.blocks, 1, i - 1) \o <<low, top>>
                         \o SubSeq(s.blocks, i + 1, Len(s.blocks)),
            as |-> a]

\* The block loses its first page, its last page, or is split around the page.
\* The block in front of the first one is NULL.
umm_split_block(s, i, v) ==
  LET b   == s.blocks[i]
      low == [b EXCEPT !.len = v - b.start]
      top == [b EXCEPT !.start = v + 1, !.len = End(b) - (v + 1)]
      a   == vfree_page(s.as, v)
  IN  IF i = 1
      THEN [blocks |-> [s.blocks EXCEPT ![1] = top], as |-> Fault(a, "null_write")]
      ELSE [blocks |-> SubSeq(s.blocks, 1, i - 1) \o <<low, top>>
                         \o SubSeq(s.blocks, i + 1, Len(s.blocks)),
            as |-> a]

\* What is left of a block whose first or last page goes.
Trimmed(b, v) == IF v = b.start THEN [b EXCEPT !.start = @ + 1, !.len = @ - 1]
                 ELSE [b EXCEPT !.len = @ - 1]

umm_unmap_page(s, v) ==
  IF Holder(s.blocks, v) = {} \/ s.as.fault # "none" THEN s
  ELSE LET i == CHOOSE k \in Holder(s.blocks, v) : TRUE
           b == s.blocks[i]
           c == Trimmed(b, v)
           t == IF b.start < v /\ v < End(b) - 1 THEN umm_split_block(s, i, v)
                ELSE [s EXCEPT !.blocks = IF c.len = 0 THEN Remove(@, i)
                                          ELSE [@ EXCEPT ![i] = c]]
       IN  [t EXCEPT !.as = vfree_page(@, v)]

\* sys_munmap, umm_unmap_range
sys_munmap(addr, len) ==
  LET upto[n \in Nat] == IF n = 0 THEN Now ELSE umm_unmap_page(upto[n - 1], addr + n - 1)
      s == upto[len]
  IN
  /\ Calm
  /\ blocks' = s.blocks /\ as' = s.as
  /\ UNCHANGED <<touch, lost>>

-----------------------------------------------------------------------------
(* Page faults                                                             *)

\* The process accesses a page of user memory that is not present.
Access(v) ==
  /\ Calm
  /\ v \notin as.page
  /\ touch' = v
  /\ UNCHANGED <<as, blocks, lost>>

\* The block right above the address, and the end of the one below it.
Above(v) == {i \in 1 .. Len(blocks) :
               /\ v < blocks[i].start
               /\ \A j \in 1 .. i - 1 : End(blocks[j]) <= v}
Below(i) == IF i = 1 THEN 0 ELSE End(blocks[i - 1])

\* The gap must leave a page free; it is compared as a signed number.
Growable(v) ==
  {i \in Above(v) : blocks[i].grows /\ blocks[i].start - Below(i) \in 2 .. SignBit - 1}

\* Wrong on purpose: the block grows but keeps its start.
GrowInPlace(s, i) ==
  [blocks |-> [s.blocks EXCEPT ![i].len = @ + 1],
   as     |-> map_new_page(s.as, s.blocks[i].start - 1, s.blocks[i].write)]

Grow(s, i) ==
  [blocks |-> [s.blocks EXCEPT ![i].start = @ - 1, ![i].len = @ + 1],
   as     |-> map_new_page(s.as, s.blocks[i].start - 1, s.blocks[i].write)]

\* umm_page_flt_handler: the access is tried again after the block has grown
\* by one page, and faults again until the block reaches the address.  What
\* the handler cannot resolve stops the machine.
umm_page_flt_handler ==
  /\ touch # Nowhere
  /\ as.fault = "none"
  /\ IF Growable(touch) = {}
     THEN /\ as' = Fault(as, IF blocks = <<>> THEN "null_read" ELSE "halt")
          /\ UNCHANGED <<blocks, touch>>
     ELSE LET s == Grow(Now, CHOOSE i \in Growable(touch) : TRUE) IN
          /\ blocks' = s.blocks /\ as' = s.as
          /\ touch' = IF touch \in s.as.page THEN Nowhere ELSE touch
  /\ UNCHANGED lost

\* A page of the kernel heap is mapped when it is first used.
ISR_page_flt_handler(v) ==
  /\ Calm
  /\ v \notin as.page
  /\ as' = map_new_page(as, v, TRUE)
  /\ UNCHANGED <<blocks, touch, lost>>

Stopped == as.fault # "none" /\ UNCHANGED vars

\* The stack and the page of the kernel heap with the process in it.
NewSpace == map_new_page(map_new_range(NoPages, UserEnd - StackPages, UserEnd, TRUE),
                         UserEnd, TRUE)

\* new_process never sets `blocks' of the process that it gets from kmalloc:
\* the list is empty if the memory happens to hold zeros there, and anything
\* else is taken for a block.
Init ==
  /\ as = NewSpace \/ as = Fault(NewSpace, "wild_list")
  /\ blocks = <<>>
  /\ touch = Nowhere
  /\ lost = 0

Next ==
  \/ \E fixed \in BOOLEAN, addr \in Pages, len \in Lens, kind \in Kinds :
       sys_mmap(fixed, addr, len, kind) \/ sys_mmap_fails(fixed, addr, len, kind)
  \/ \E addr \in Pages, len \in Lens : addr + len <= NumPages /\ sys_munmap(addr, len)
  \/ \E v \in UserPages : Access(v)
  \/ umm_page_flt_handler
  \/ \E v \in HeapPages : ISR_page_flt_handler(v)
  \/ Stopped

Spec == Init /\ [][Next]_vars

-----------------------------------------------------------------------------
(* Properties                                                              *)

Intact == as.fault = "none"

\* Every frame is free, or behind a page or a page table, or was dropped by a
\* failed mmap (umm_unmap_pages unmaps pages without free_page).  Nothing else
\* leaks a frame or returns one twice: not the split of a block either, for
\* which umm_unmap_page calls vfree_page twice.  vmm_unmap_page frees a page
\* table with its last page and not before.
FramesAccounted ==
  Intact =>
    /\ as.free + Cardinality(as.page) + Cardinality(as.table) + lost = NumFrames
    /\ as.table = {PAGE_DIR_INDEX(v) : v \in as.page}

\* umap_pages, the trimming and splitting in umm_unmap_page and the growth on
\* a page fault keep the list in the order of the addresses, without overlaps
\* and empty blocks, also with blocks of FIXED ranges above user memory: what
\* every walk of the list relies on.
BlocksSorted ==
  Intact =>
    /\ \A i \in 1 .. Len(blocks) : blocks[i].len > 0
    /\ \A i, j \in 1 .. Len(blocks) : i < j => End(blocks[i]) <= blocks[j].start

InBlock(v) == \E i \in 1 .. Len(blocks) : v \in Within(blocks[i])

\* ualloc_pages looks for pages that belong to no block, and finds some if any
\* in a row do.  That says nothing of the stack, which has no block: its pages
\* can be among them (FitIsUnused does not hold).
FirstFitIsFree ==
  Calm => \A len \in Lens :
            LET at == FirstFit(blocks, len) IN
            /\ at # Nowhere => \A v \in at .. at + len - 1 : ~InBlock(v)
            /\ at = Nowhere => ~\E a \in UserPages :
                 a + len <= UserEnd /\ \A v \in a .. a + len - 1 : ~InBlock(v)

\* The list and the page tables agree after every call: the pages of a block
\* are present, and can be written if the block can, and a page of user memory
\* that is present is in a block or on the stack.
BlocksMapped ==
  /\ Intact =>
       /\ \A i \in 1 .. Len(blocks) :
            /\ Within(blocks[i]) \subseteq as.page
            /\ blocks[i].write => Within(blocks[i]) \subseteq as.write
       /\ \A v \in UserPages : v \in as.page => v \in Stack \/ InBlock(v)
  /\ FirstFitIsFree

\* Not so: the pages that ualloc_pages picks are not in use.
FitIsUnused ==
  Calm => \A len \in Lens :
            LET at == FirstFit(blocks, len)
            IN  at # Nowhere => \A v \in at .. at + len - 1 : v < UserEnd /\ v \notin as.page

\* A page that is present stays until an munmap of a range it is in.
PagesStay ==
  [][\A v \in as.page :
       v \notin as'.page =>
         \E addr \in Pages, len \in Lens :
           v \in addr .. addr + len - 1 /\ sys_munmap(addr, len)]_vars

Distance == blocks[CHOOSE i \in Above(touch) : TRUE].start - touch

\* The faults of one access end: each time the handler returns, the page is
\* present or the growing block has come nearer to it.
FaultProgress ==
  [][touch # Nowhere /\ as'.fault = "none"
       => \/ touch' = Nowhere /\ touch \in as'.page
          \/ touch' = touch /\ Distance' < Distance]_vars
=============================================================================
