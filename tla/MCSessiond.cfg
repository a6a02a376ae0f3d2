SPECIFICATION FairSpec
CONSTANTS
  NULL = NULL
  p1 = p1
  p2 = p2
  b1 = b1
  b2 = b2
  echo = echo
  Ptr = {p1, p2}
  Buf = {b1, b2}
  Handler = {echo}
  SessMax = 1
  DeferMax = 1
  MinCap = 1
  MaxData = 1
  MaxArg = 1
  Word = 4
  Traffic <- EveryOp
INVARIANTS
  LockDiscipline
  NoArgumentLeft
  DeferSameSession
PROPERTIES
  LockReleased
  WaitsOnlyWhileOtherServed
