SPECIFICATION FormatsSpec
CONSTANTS
  Base = 4
  sector_size = 4
  Types = {"FAT_12", "FAT_16"}
  MaxCluster = 5
  Values = {0, 1, 27, 61}
  DirEntry = 2
  Max12 = 5
  Max16 = 12
  BootSectors <- MCBootSectors
  PAGE = 4
  WORD = 2
  STACK_TOP = 40
  STACK_PAGES = 4
  Programs <- MCPrograms
  Arguments <- MCArguments
  TERMINAL_WIDTH = 3
  TERMINAL_HEIGHT = 2
  SIZE_T = 256
  Strings <- MCStrings
  MaxText = 7
  FileNames <- MCFileNames
  BaseLen = 2
  NameLen = 4
  TreeClusters = {2, 3, 4}
  PerCluster = 4
  RootEntries = 2
  RootReach = 7
INVARIANTS GetsWhatWasSet PartsApart TreeKept  ShowsEndOfText
CHECK_DEADLOCK FALSE
