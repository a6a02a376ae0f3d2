SPECIFICATION FairSpec
CONSTANTS
  NULL = NULL
  p1 = p1
  p2 = p2
  Ptr = {p1, p2}
  Name <- Names
  NBuckets = 1
  Hash <- OneChain
  NormSize = 8
  CopyLimit = 10
  SmallSize = 1
  NextAt = 2
  LineSize = 17
  PreviewSize = 2
  MaxArg = 5
  Word = 8
  Codec = {"hex"}
  Traffic <- EveryOp
INVARIANTS
  CacheSound
  AnswersExact
  RequestFreed
PROPERTIES
  ImplementsVersions
  LockReleased
