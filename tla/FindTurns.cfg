SPECIFICATION Spec
CONSTANTS
  child = child
  parent = parent
  Turns = 3
  InitialValue = {1}
  InitialErr = {1}
INVARIANT AcquiresEveryTurn
CHECK_DEADLOCK FALSE
