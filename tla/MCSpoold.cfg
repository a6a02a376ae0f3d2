SPECIFICATION FairSpec
CONSTANTS
  NULL = NULL
  p1 = p1
  p2 = p2
  b1 = b1
  b2 = b2
  raster = raster
  text = text
  Ptr = {p1, p2}
  Buf = {b1, b2}
  Meta = {}
  Filter = {raster, text}
  Consuming = {text}
  SpoolMax = 2
  MinCap = 1
  MaxDoc = 2
  MaxArg = 1
  Word = 8
  Traffic <- EveryOp
INVARIANTS
  PumpInsideLock
  NeverConsumed
  FlushedEmpty
PROPERTIES
  LockReleased
