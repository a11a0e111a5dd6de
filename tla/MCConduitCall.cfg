CONSTANTS
  Null = Null
  LongestCall = 1
  MaxTime = 2
  Pace = 1
SPECIFICATION FairCallSpec
INVARIANTS
  DeadlineWithinRange
  NoOrphanedStream
PROPERTIES
  PromiseSpec
  CutReachesUser
