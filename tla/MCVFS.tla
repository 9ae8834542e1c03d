------------------------------- MODULE MCVFS -------------------------------
(* VFS for TLC: a second spelling for a file, and blocks of the heap that  *)
(* can be exchanged for one another.                                       *)
EXTENDS VFS, TLC

TwoSpellings == "A." :> "A"

BlockSymmetry == Permutations(Blocks)
=============================================================================
