SPECIFICATION SpoolSpec
CONSTANTS
  NULL = NULL
  p1 = p1
  p2 = p2
  p3 = p3
  b1 = b1
  b2 = b2
  b3 = b3
  b4 = b4
  m1 = m1
  m2 = m2
  raster = raster
  text = text
  Ptr = {p1, p2, p3}
  Buf = {b1, b2, b3, b4}
  Meta = {}
  Filter = {raster}
  Consuming = {}
  SpoolMax = 3
  MinCap = 1
  MaxDoc = 1
  MaxArg = 0
  Word = 4
SYMMETRY Symmetry
INVARIANTS
  JobTableConsistent
  QueueSound
PROPERTIES
  ImplementsReadyQueue
