SPECIFICATION Spec
CONSTANTS
  Programs <- WrittenPrograms
  Jobs <- WrittenJobs
  CommandLines <- WrittenLines
  Placements <- MCPlacements
  SegOf <- MCSegOf
  RegLike <- MCRegLike
  Spelling <- MCSpelling
  GetConstMaxDepth = 2
  OpenFails = FALSE
  Lines <- MCLines
  MaxLines = 1
PROPERTY OptionsAsWritten
CHECK_DEADLOCK FALSE
