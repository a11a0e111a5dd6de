\* A request may arrive just before its deadline, one unit or two after it;
\* the timer of a call without a deadline runs out before the clock does.
CONSTANTS
  Null = Null
  LongestCall = 1
  MaxTime = 5
  Pace = 1
  LongestName = 2
  LongestStay = 2
  Window = 1
  AppInfos <- Infos
SPECIFICATION FairNetSpec
INVARIANTS
  AlwaysBounded
  OutcomeJustified
  InfoSurvives
PROPERTIES
  ResponsesPromise
  StayBounded
