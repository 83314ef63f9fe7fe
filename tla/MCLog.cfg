SPECIFICATION FairSpec
CONSTANTS
  t1 = t1
  t2 = t2
  page = page
  Main = Main
  None = None
  Threads <- TwoThreads
  Readers <- OneReader
  WqSize = 3
  RingMax = 2
  MaxPoll = 1
  MaxLines = 3
  MaxFiles = 1
INVARIANTS
  TypeOK
  QueueIsFifo
  FileFollows
  FlushedMeansShown
  
PROPERTIES
  OwedIsShown
  ShutdownEnds
