SPECIFICATION Spec
CONSTANTS
  Programs <- UnlikePrograms
  Jobs <- UnlikeJobs
  CommandLines <- MCCommandLines
  Placements <- MCPlacements
  SegOf <- MCSegOf
  RegLike <- MCRegLike
  Spelling <- MCSpelling
  GetConstMaxDepth = 2
  OpenFails = FALSE
  Lines <- MCLines
  MaxLines = 1
INVARIANT RecordsWhereBytes
CHECK_DEADLOCK FALSE
