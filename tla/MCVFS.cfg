SPECIFICATION Spec
CONSTANTS
  DirNames = {"USER"}
  FileNames = {"A", "A."}
  Spellings <- TwoSpellings
  MaxFiles = 4
  MaxVnodes = 8
  MaxFds = 4
  Blocks = {b1, b2, b3}
SYMMETRY BlockSymmetry
INVARIANTS  OwnDescriptor
PROPERTIES  VnodesStay
CHECK_DEADLOCK FALSE
