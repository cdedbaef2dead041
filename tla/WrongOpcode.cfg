SPECIFICATION Spec
CONSTANTS
  Lines <- OrLines
  Symbols <- MCSymbols
  Before <- MCBefore
  Stale <- MCStale
  SegOf <- MCSegOf
  RegLike <- MCRegLike
  GetConstMaxDepth = 2
INVARIANT EncodesAsWritten
CHECK_DEADLOCK FALSE
