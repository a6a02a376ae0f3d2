SPECIFICATION SpoolSpec
CONSTANTS
  NULL = NULL
  p1 = p1
  p2 = p2
  p3 = p3
  b1 = b1
  b2 = b2
  b3 = b3
  b4 = b4
  m1 = m1
  m2 = m2
  raster = raster
  text = text
  Ptr = {p1, p2, p3}
  Buf = {b1, b2, b3}
  Meta = {m1, m2}
  Filter = {raster, text}
  Consuming = {text}
  SpoolMax = 2
  MinCap = 1
  MaxDoc = 2
  MaxArg = 3
  Word = 8
SYMMETRY Symmetry
INVARIANTS
  SpoolTypeOK
  DocumentsOwned
  NothingLeaked
PROPERTIES
  JobFaultsHaveCause
  JobsImplementHandleTable
