SPECIFICATION Spec
CONSTANTS
  c1 = c1
  c2 = c2
  Conns <- MCTwoConns
  Pool = 1
  MaxStarts = 2
  FdSetTraps = FALSE
INVARIANT StopsGracefully
CHECK_DEADLOCK FALSE
