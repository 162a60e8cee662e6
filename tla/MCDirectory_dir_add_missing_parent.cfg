CONSTANTS
  Names <- MCNames
  NumDirEntries = 2
  Sectors <- MCSectors
  RootSector = 1
  Reserved <- MCReserved
  MaxDepth = 2
  Stored <- MCStored

SPECIFICATION Spec
INVARIANT AddReportsMissingParent
