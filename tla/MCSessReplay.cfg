SPECIFICATION FairReplay
CONSTANTS
  NULL = NULL
  p1 = p1
  p2 = p2
  p3 = p3
  b1 = b1
  b2 = b2
  echo = echo
  Ptr = {p1, p2, p3}
  Buf = {b1, b2}
  Handler = {echo}
  SessMax = 2
  DeferMax = 1
  MinCap = 1
  MaxData = 2
  MaxArg = 2
  Word = 4
  MaxRecords = 5
  Records <- EveryRecord
INVARIANTS
  RecordInHand
PROPERTIES
  ReplayEnds
