SPECIFICATION BanFairSpec
CONSTANTS
  ip1 = ip1
  ip2 = ip2
  t1 = t1
  t2 = t2
  t3 = t3
  Unset = Unset
  Ips <- TwoIps
  Attempts <- ThreeAttempts
  MaxFails = 2
  BanSecs = 2
  MaxClears = 1
  MaxBasic = 1
INVARIANTS
  LoginGuessesBounded
PROPERTIES
  BanEnds
