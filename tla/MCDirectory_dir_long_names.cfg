CONSTANTS
  Names <- MCLongNames
  NumDirEntries = 2
  Sectors <- MCSectors
  RootSector = 1
  Reserved <- MCReserved
  MaxDepth = 2
  Stored <- MCStoredLong

SPECIFICATION Spec

INVARIANT PathsNameDistinctFiles
