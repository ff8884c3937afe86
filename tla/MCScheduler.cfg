SPECIFICATION SchedSpec
CONSTANTS
  Process = {p1, p2, p3, p4}
  NULL = NULL
  harddisks = harddisks
  printers = printers
  Device = {harddisks, printers}
  size <- MCSize
  RawPriority <- MCRawPriority
  RawIndex <- MCRawIndex
INVARIANTS
  SchedTypeOK
  PriorityRespected
  QueueOfItsPriority
  OnePlace
PROPERTY ImplementsDispatch
