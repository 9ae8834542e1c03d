------------------------------- MODULE MCUMM -------------------------------
(* Model checking of a user memory of five pages and a stack page, with    *)
(* two pages in a page table, and of two pages of kernel heap.  A block is *)
(* read-only, or can be written and grows down.                            *)
EXTENDS UMM

MCKinds == {[write |-> FALSE, grows |-> FALSE], [write |-> TRUE, grows |-> TRUE]}
=============================================================================
