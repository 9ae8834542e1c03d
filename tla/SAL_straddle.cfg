SPECIFICATION SALSpec
CONSTANTS
  SectorSize = 3
  NumSectors = 3
  TempSize = 6
  MaxByte = 1
  Straddling = TRUE
INVARIANT DiskIsImage
