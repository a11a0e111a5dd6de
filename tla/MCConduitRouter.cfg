CONSTANTS
  Null = Null
  LongestCall = 0
  s1 = s1
  s2 = s2
  d1 = d1
  d2 = d2
  Servers = {s1, s2}
  Owning = {s1}
  Routes = {0, 1}
  Disposers = {d1, d2}
  MaxConduits = 2
SPECIFICATION FairSpec
INVARIANTS
  TypeOK
  OwnershipRespected
  WalkDisposesAll
  OnceDespiteManyRoutes
  QuietMeansComplete
PROPERTY DisposalEnds
CHECK_DEADLOCK FALSE
