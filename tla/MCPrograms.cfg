SPECIFICATION Spec
CONSTANTS
  MaxSignals = 3
  MaxKills = 2
  Logger = {"l1", "l2"}
  Began = 3600
  MaxTime = 60
  Name = {"a", "bbb"}
  NameLen <- MCNameLen
  Kind = {"file"}
  NAME_MAX = 3
  PATH_MAX = 9
  StartLen = {2, 9}
  MaxDepth = 3
  MaxFiles = 3
  MaxChanges = 1
  Editor = {"e1", "e2"}
  Word = {"w"}
  Row = {0, 1}
  InitRows <- MCInitRows
  MaxEdits = 2
  Sizes = {4, 11}
  Coord <- MCCoord
  Rows = 4
  Cols = 3
  Pixels = 2
  Value = {0, 100, 255, 300}
  Levels = 255
  Threshold = {50, 200}
  Program = {1, 2}
  Room <- MCRoom
  BufferCells = 5
  child = child
  parent = parent
  Rounds = 2
  InitialValue = {0, 1, 2}
  InitialErr <- MCInitialErr
INVARIANTS
  SignalsAreSafe
  ReportsAreRight
  LogStaysWhole
  WalkIsRight
  RowsAreKept
  ProductIsRight
  LineIsRight
  FileIsReadRight
  SemaphoreCounts
  SemaphoreExcludes
PROPERTY Progress
CHECK_DEADLOCK FALSE
