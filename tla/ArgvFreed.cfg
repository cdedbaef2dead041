SPECIFICATION FairSpec
CONSTANTS
  Sources <- EndInInclude
  Main = "main"
  MacroMax = 2
  IncludeMax = 2
  ArgMax = 2
  Keywords <- MCKeywords
INVARIANT ArgvNeverFreed
CHECK_DEADLOCK FALSE
