SPECIFICATION Spec
CONSTANTS
  Client = {c1, c2}
  Server = {s1, s2}
  main = main
  nobody = nobody
  MaxLines = 3
  Answers = {1, 2}
INVARIANTS
  TypeOK
  OneServer
  RequestsAccounted
  NoLostWakeup
  RequestsInOrder
PROPERTIES
  EveryRequestAnswered
  Terminates
