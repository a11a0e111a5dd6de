CONSTANTS
  Null = Null
  LongestCall = 1
  MaxTime = 2
  Pace = 1
SPECIFICATION CallSpec
INVARIANT EveryCallHasDeadline
