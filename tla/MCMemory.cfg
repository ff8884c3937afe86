SPECIFICATION MemSpec
CONSTANTS
  Node = {n1, n2, n3, n4, n5}
  NULL = NULL
  maxVal = 6
  UINT = 16
  RequestSize <- MCRequestSize
SYMMETRY Perms
CONSTRAINT Explored
INVARIANTS
  MemTypeOK
  ListIsSound
  RefusesOnlyWhenFull
PROPERTY ImplementsFirstFit
CHECK_DEADLOCK FALSE
