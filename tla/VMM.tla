-------------------------------- MODULE VMM --------------------------------
(***************************************************************************)
(* The page tables of one address space (kernel/src/vmm.c).  Addresses are *)
(* page numbers.  `as' is the address space and the frames it draws on:    *)
(*   as.free   how many frames alloc_page can still hand out               *)
(*   as.table  the page tables that are present                            *)
(*   as.page   the pages that are present                                  *)
(*   as.write  the pages whose entry has the attribute WRITEABLE           *)
(*   as.fault  the first use of the address space that went wrong          *)
(* Which frame is handed out is PMM's matter; a frame here is the one that *)
(* a page or a page table holds.                                           *)
(* The window at 0xC03FF000 through which the code reaches a page table is *)
(* set before each use and is not part of the model.                       *)
(***************************************************************************)
EXTENDS Integers

CONSTANTS NumPages,       \* the pages of the address space that are modelled
          PagesPerTable,  \* ENTRIES_PER_STRUCT
          NumFrames       \* the frames of the machine

ASSUME VMMAssumption ==
  /\ NumPages \in Nat \ {0} /\ PagesPerTable \in Nat \ {0} /\ NumFrames \in Nat
  /\ NumPages % PagesPerTable = 0

Pages  == 0 .. NumPages - 1
Tables == 0 .. (NumPages \div PagesPerTable) - 1

PAGE_DIR_INDEX(v) == v \div PagesPerTable
InTable(t) == {v \in Pages : PAGE_DIR_INDEX(v) = t}

Fault(as, what) == IF as.fault = "none" THEN [as EXCEPT !.fault = what] ELSE as

\* A page table that is not present is allocated and cleared.
WithTable(as, t) ==
  IF t \in as.table THEN as
  ELSE [as EXCEPT !.free = @ - 1, !.table = @ \cup {t}, !.write = @ \ InTable(t)]

\* Attributes are only ever added.
SetEntry(as, v, write) ==
  [as EXCEPT !.free = @ - 1, !.page = @ \cup {v},
             !.write = IF write THEN @ \cup {v} ELSE @]

\* The page and the page table it may need.
Needed(as, v) == IF PAGE_DIR_INDEX(v) \in as.table THEN 1 ELSE 2

\* vmm_map_page(alloc_page(), v, write, ...).  The code notices neither that
\* alloc_page answers NULL nor that the entry is in use.
map_new_page(as, v, write) ==
  IF as.fault # "none" THEN as
  ELSE IF as.free < Needed(as, v) THEN Fault(as, "no_frame")
  ELSE IF v \in as.page THEN Fault(as, "remap")
  ELSE SetEntry(WithTable(as, PAGE_DIR_INDEX(v)), v, write)

\* Wrong on purpose: the page table goes with any of its pages.
unmap_page_drop_table(as, v) ==
  LET t == PAGE_DIR_INDEX(v)
  IN  [as EXCEPT !.page = @ \ InTable(t), !.free = @ + 1, !.table = @ \ {t}]

\* The page table goes with its last page.
vmm_unmap_page(as, v) ==
  LET t  == PAGE_DIR_INDEX(v)
      a1 == [as EXCEPT !.page = @ \ {v}]
  IN  IF a1.page \cap InTable(t) # {} THEN a1
      ELSE [a1 EXCEPT !.free = @ + 1, !.table = @ \ {t}]

\* Whether virt_to_phys answers a frame: page table and page are present.
virt_to_phys(as, v) == PAGE_DIR_INDEX(v) \in as.table /\ v \in as.page

\* Wrong on purpose: the frame is returned whether the page is present or not.
vfree_page_always(as, v) ==
  LET a1 == [as EXCEPT !.free = @ + 1]
  IN  IF virt_to_phys(as, v) THEN vmm_unmap_page(a1, v) ELSE a1

vfree_page(as, v) ==
  IF virt_to_phys(as, v) THEN vmm_unmap_page([as EXCEPT !.free = @ + 1], v) ELSE as

NoPages == [free |-> NumFrames, table |-> {}, page |-> {}, write |-> {}, fault |-> "none"]

\* map_new_page for each page from first up to (not including) end.
map_new_range(as, first, end, write) ==
  LET upto[n \in Nat] == IF n = 0 THEN as
                         ELSE map_new_page(upto[n - 1], first + n - 1, write)
  IN  IF end <= first THEN as ELSE upto[end - first]
=============================================================================
