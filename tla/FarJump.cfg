SPECIFICATION Spec
CONSTANTS
  Programs <- AllPrograms
  Jobs <- MCJobs
  CommandLines <- MCCommandLines
  Placements <- MCPlacements
  SegOf <- MCSegOf
  RegLike <- MCRegLike
  Spelling <- MCSpelling
  GetConstMaxDepth = 2
  OpenFails = FALSE
  Lines <- MCLines
  MaxLines = 1
INVARIANT FarOffsetKept
CHECK_DEADLOCK FALSE
