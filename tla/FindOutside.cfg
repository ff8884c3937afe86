SPECIFICATION Spec
CONSTANTS
  Coord = {0, 1, 2}
  Rows = 2
  Cols = 2
INVARIANT EndsMayLieOutside
CHECK_DEADLOCK FALSE
