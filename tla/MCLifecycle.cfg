SPECIFICATION Spec
CONSTANTS
  c1 = c1
  c2 = c2
  Conns <- MCTwoConns
  Pool = 1
  MaxStarts = 2
  FdSetTraps = TRUE
INVARIANTS
  TypeOK
  OneServer
  PlacesExact
  NoAcceptorLeft
PROPERTIES
  StopEnds
  ConnectionEnds
CHECK_DEADLOCK FALSE
