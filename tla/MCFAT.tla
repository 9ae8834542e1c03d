------------------------------- MODULE MCFAT -------------------------------
(* Model checking of a FAT volume of three clusters, the last of them      *)
(* behind the end of the disk.  File names and file descriptors are        *)
(* interchangeable.                                                        *)
EXTENDS FAT, TLC

Symmetry == Permutations(Names) \cup Permutations(Fds)
=============================================================================
