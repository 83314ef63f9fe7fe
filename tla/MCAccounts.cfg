SPECIFICATION Spec
CONSTANTS
  n1 = n1
  n2 = n2
  c1 = c1
  u1 = u1
  u2 = u2
  None = None
  Users <- OneUser
  Sessions <- ThreeSessions
  Cccam <- OneCccam
  MaxConnections <- TwoEach
  MaxGen = 1
  ReloadOn = FALSE
  RemoveOn = FALSE
  DeleteOn = FALSE
  AddOn = TRUE
  ReloginOn = FALSE
SYMMETRY Newcamds
INVARIANTS
  ActiveExact
  MaxRespected
