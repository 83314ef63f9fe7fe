SPECIFICATION Spec
CONSTANTS
  w1 = w1
  w2 = w2
  f1 = f1
  f2 = f2
  cut = cut
  hash = hash
  u1 = u1
  Empty = Empty
  Mixed = Mixed
  None = None
  Threads <- TwoThreads
  Settings <- TwoSettings
  Default = cut
  Users <- OneUser
  AsRead <- CutAtHash
  Inodes <- TwoFiles
  MaxJobs = 3
SYMMETRY Symmetry
INVARIANTS
  RestMatches
  RequestKept
  NoTmpLeft
