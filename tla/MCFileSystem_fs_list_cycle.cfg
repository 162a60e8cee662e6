CONSTANTS
  Names <- MCNames
  NumDirEntries = 2
  MaxDepth = 2
  Stored <- MCStored
  NumSectors = 9
  SectorSize = 4
  SectorNumPerList = 1
  RootSector = 1
  Reserved <- MCReserved
  DirectoryFileSize = 4
  FileSizes <- MCFileSizes

SPECIFICATION Spec


CONSTRAINT CallsBound
INVARIANT RecursiveListTerminates
