SPECIFICATION Spec
CONSTANTS
  LastCluster = 5
  TableEnd = 7
  ScanEnd = 7
  EOC = 9
  BytesPerClus = 2
  RootSlots = 2
  RootReach = 3
  Torn = {}
  Names = {a, b}
  a = a
  b = b
  Fds = {f, g}
  f = f
  g = g
  WriteLens = {0, 1, 3}
  MaxSize = 5
SYMMETRY Symmetry
INVARIANT FreesInTable
