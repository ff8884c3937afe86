SPECIFICATION MCSpec
CONSTANTS
  Student <- MCStudent
  Name = {ann, bob}
  Grade = {A, B}
  Record <- MCStudent
  Roll = {r1, r2}
  Mark = {A, B}
INVARIANTS
  TraversalIsRight
  
PROPERTIES
  ImplementsBag
  ImplementsObjectMap
  ImplementRosters
  Ends
CHECK_DEADLOCK FALSE
