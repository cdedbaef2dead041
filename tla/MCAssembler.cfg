SPECIFICATION FairSpec
CONSTANTS
  Programs <- AllPrograms
  Jobs <- MCJobs
  CommandLines <- MCCommandLines
  Placements <- MCPlacements
  SegOf <- MCSegOf
  RegLike <- MCRegLike
  Spelling <- MCSpelling
  GetConstMaxDepth = 2
  OpenFails = TRUE
  Lines <- MCLines
  MaxLines = 3
INVARIANTS TypeOK LinksRight ObjectReadable ExeHeaderFresh OutputOnlyIfClean PassesLayOutAlike ReferencesResolved RelocsPatchable ImportIdsUnique ExportsComplete
PROPERTIES OptionsSettle ImportsKeepIds ActsAsOnePass Termination
CHECK_DEADLOCK FALSE
