SPECIFICATION FairLoad
CONSTANTS
  NULL = NULL
  p1 = p1
  p2 = p2
  p3 = p3
  Ptr = {p1, p2, p3}
  Name <- Names
  NBuckets = 2
  Hash <- TwoChains
  NormSize = 8
  CopyLimit = 10
  SmallSize = 1
  NextAt = 1
  LineSize = 17
  PreviewSize = 2
  MaxArg = 2
  Word = 8
  MaxEntries = 3
  Entries <- EveryEntry
INVARIANTS
  SnapshotInHand
PROPERTIES
  LoadedStay
  LoadEnds
