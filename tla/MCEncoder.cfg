SPECIFICATION Spec
CONSTANTS
  Lines <- MCLines
  Symbols <- MCSymbols
  Before <- MCBefore
  Stale <- MCStale
  SegOf <- MCSegOf
  RegLike <- MCRegLike
  GetConstMaxDepth = 2
INVARIANTS TypeOK DecodesBack RelocsOnOperand ChunksMeasure OnlySalCrashes
CHECK_DEADLOCK FALSE
