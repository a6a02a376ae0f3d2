SPECIFICATION StoreSpec
CONSTANTS
  NULL = NULL
  p1 = p1
  p2 = p2
  p3 = p3
  b1 = b1
  b2 = b2
  b3 = b3
  echo = echo
  Ptr = {p1, p2, p3}
  Buf = {b1, b2, b3}
  Handler = {echo}
  SessMax = 2
  DeferMax = 2
  MinCap = 1
  MaxData = 1
  MaxArg = 2
  Word = 4
SYMMETRY Symmetry
INVARIANTS
  TypeOK
  TableConsistent
  BuffersOwned
  BatchInBounds
PROPERTIES
  FaultsHaveCause
  ImplementsHandleTable
