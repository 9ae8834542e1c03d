SPECIFICATION Spec
CONSTANTS
  NumPages = 8
  PagesPerTable = 2
  NumFrames = 10
  UserEnd = 6
  StackPages = 1
  SignBit = 4
  MaxLen = 3
  Kinds <- MCKinds
INVARIANTS FramesAccounted BlocksSorted BlocksMapped
PROPERTIES PagesStay FaultProgress
