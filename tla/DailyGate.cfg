CONSTANTS
  Interval = 3
  Midnight = 2
  Deadline = 1
  MaxAge = 4
SPECIFICATION FairSpec
INVARIANTS
  TypeOK
  GreenMeansPassPublished
  NoFalseStale
  DeadDagBlocks
PROPERTIES
  RecoversWhenHealthy
  ImplementsDailyVerdict
