SPECIFICATION MemSpec
CONSTANTS
  Node = {n1, n2, n3, n4, n5}
  NULL = NULL
  maxVal = 4
  UINT = 16
  RequestSize = {1, 2}
INVARIANT ScreenshotShowsEntries
CHECK_DEADLOCK FALSE
