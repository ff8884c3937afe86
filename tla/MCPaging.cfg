SPECIFICATION Spec
CONSTANTS
  NULL = NULL
  numOfFrames = 3
  hardDisks = 1
  Page = {0, 1}
  RawIndex = {0, 1}
  MaxPid = 2
  MaxTime = 6
INVARIANTS
  TypeOK
  OnePlace
PROPERTIES
  ImplementsLRU
  NeglectedOnlyByReturn
CHECK_DEADLOCK FALSE
