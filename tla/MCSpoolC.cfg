SPECIFICATION FairBatch
CONSTANTS
  NULL = NULL
  p1 = p1
  p2 = p2
  b1 = b1
  b2 = b2
  m1 = m1
  m2 = m2
  raster = raster
  text = text
  Ptr = {p1, p2}
  Buf = {b1, b2}
  Meta = {m1, m2}
  Filter = {raster, text}
  Consuming = {text}
  SpoolMax = 2
  MinCap = 1
  MaxDoc = 2
  MaxArg = 2
  Word = 8
  MaxRecords = 4
  Records <- EveryRecord
INVARIANTS
  JobsOwnWhatTheyHold
PROPERTIES
  BatchEnds
