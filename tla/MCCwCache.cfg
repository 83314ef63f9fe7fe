SPECIFICATION Spec
CONSTANTS
  s1 = s1
  s2 = s2
  e1 = e1
  e2 = e2
  e3 = e3
  faking = faking
  keyed = keyed
  keyless = keyless
  None = None
  Sessions <- TwoSessions
  Accounts <- ThreeAccounts
  Ecms <- ThreeEcms
  Shards = 2
  Slots = 2
  Hash <- Collisions
  FakeAccounts <- FakingOnly
  Opens <- KeyedOpensAll
  TTL = 2
INVARIANTS
  TypeOK
  AnswerFits
PROPERTIES
  ImplementsMemo
