CONSTANTS
  Null = Null
  LongestCall = 2
  MaxTime = 2
  Pace = 1
SPECIFICATION Spec
PROPERTY CutNeverEndsNormally
