SPECIFICATION FairSpec
CONSTANTS
  Sources <- MCSources
  Main = "main"
  MacroMax = 2
  IncludeMax = 2
  ArgMax = 2
  Keywords <- MCKeywords
INVARIANTS TypeOK StackDiscipline ScopeClosed NamesLive ExtraMatchesType Attribution PassesAgree PastedInPlace
PROPERTIES ArgvFreedOnlyByStop Termination
CHECK_DEADLOCK FALSE
