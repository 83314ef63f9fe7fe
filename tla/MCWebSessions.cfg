SPECIFICATION Spec
CONSTANTS
  r1 = r1
  r2 = r2
  t1 = t1
  t2 = t2
  t3 = t3
  t4 = t4
  Requests <- TwoRequests
  Tokens <- FourTokens
  NSlots = 3
  Timeout = 2
  MaxAge = 1
  MaxTime = 4
  None = None
SYMMETRY Symmetry
INVARIANTS
  TypeOK
  LogoutFinal
  LifeBounded
PROPERTIES
  EvictsIdlest
