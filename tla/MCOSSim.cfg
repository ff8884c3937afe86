SPECIFICATION Spec
CONSTANTS
  Node = {n1, n2, n3, n4, n5}
  NULL = NULL
  maxVal = 3
  UINT = 16
  RequestSize <- MCRequestSize
  Device = {harddisks}
  size <- MCSize
  RawPriority <- MCRawPriority
  RawIndex <- MCRawIndex
  MaxPid = 4
SYMMETRY Perms
INVARIANTS
  SameProcesses
  WildHasACause
CHECK_DEADLOCK FALSE
