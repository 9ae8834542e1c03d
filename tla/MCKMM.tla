------------------------------- MODULE MCKMM -------------------------------
(* Model checking of the kernel heap on a heap of a few words.             *)
EXTENDS KMM, Sequences
=============================================================================
