CONSTANTS
  NumSectors = 8
  SectorSize = 4
  SectorNumPerList = 2
  Files <- MCFiles
  FileSizes <- MCFileSizes
  Reserved <- MCReserved

SPECIFICATION Spec
INVARIANT AllocateNeverAborts
