SPECIFICATION FairSpec
CONSTANTS
  NULL = NULL
  Name <- Names
  Bundle <- Bundles
  Traffic <- EveryOp
  NormSize = 8
  CopyLimit = 10
  MaxEntries = 2
  MaxName = 8
  MaxValue = 8
  FieldSize = 2
  ResolvedSize = 6
  LineSize = 4
  ScratchSize = 2
  Room = 3
  MaxArg = 1
  Word = 4
INVARIANTS
  PushedPrefix
  NothingLeft
PROPERTIES
  ImplementsBindings
  SettledExpansions
  ProgramsEnd
