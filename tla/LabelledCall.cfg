SPECIFICATION FairSpec
CONSTANTS
  Sources <- LabelledCalls
  Main = "main"
  MacroMax = 2
  IncludeMax = 2
  ArgMax = 2
  Keywords <- MCKeywords
INVARIANT AsDocumented
CHECK_DEADLOCK FALSE
