------------------------------- MODULE MCPMM -------------------------------
(* Model checking of the physical memory manager: blocks of four bytes.    *)
EXTENDS PMM

Region(a, l, av) == [address |-> a, length |-> l, available |-> av]

\* Conventional memory up to `low' with a reserved area behind it, and memory
\* from the kernel image on: the layout of a PC, with the kernel loaded at
\* KernelBegin.  _end is a virtual address (linker.ld), larger than all of
\* these, and the firmware's reserved area lies above it.  The last frame of
\* conventional memory is whole or cut off.
PCMap(low, high) ==
  << Region(0, low, TRUE), Region(low, KernelBegin - low, FALSE),
     Region(KernelBegin, high - KernelBegin, TRUE), Region(KernelEnd + 4, 8, FALSE) >>

PCMaps == {m \in {PCMap(low, high) : low \in 21 .. 31, high \in {44, 52}} : PCMemory(m)}
=============================================================================
