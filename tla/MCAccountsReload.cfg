SPECIFICATION Spec
CONSTANTS
  n1 = n1
  n2 = n2
  c1 = c1
  u1 = u1
  u2 = u2
  None = None
  Users <- TwoUsers
  Sessions <- MixedSessions
  Cccam <- OneCccam
  MaxConnections <- NoLimit
  MaxGen = 1
  ReloadOn = TRUE
  RemoveOn = TRUE
  DeleteOn = TRUE
  AddOn = TRUE
  ReloginOn = TRUE
VIEW WithoutActive
CONSTRAINT OneBusy
CHECK_DEADLOCK FALSE
INVARIANTS
  RegisteredLinksLive
  UnlinkedIsKilled
