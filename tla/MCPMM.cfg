CONSTANTS
  MEMORY_BLOCK_SIZE = 4
  KernelBegin = 32
  KernelEnd = 1000
  MemoryMaps <- PCMaps
  RunLengths = {1, 2}
SPECIFICATION PMMSpec
INVARIANTS OneOwner Conserved KernelNotGranted
