CONSTANTS
  Null = Null
  LongestCall = 1
  MaxTime = 5
  Pace = 1
  LongestName = 2
  LongestStay = 2
  Window = 1
  AppInfos <- Infos
SPECIFICATION NetSpec
INVARIANT CancelledMeansCancelled
