CONSTANTS
  Null = Null
  LongestCall = 0
  MaxItems = 2
SPECIFICATION Spec
INVARIANT NormalEndMeansAll
