SPECIFICATION Spec
CONSTANTS
  LastCluster = 3
  TableEnd = 6
  ScanEnd = 5
  EOC = 5
  BytesPerClus = 2
  RootSlots = 2
  RootReach = 3
  Torn = {}
  Names = {a, b}
  a = a
  b = b
  Fds = {f, g}
  f = f
  g = g
  WriteLens = {1, 3}
  MaxSize = 4
SYMMETRY Symmetry
INVARIANTS ClustersOwned OwnBytes WritesToData
