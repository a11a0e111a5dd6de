CONSTANTS
  Null = Null
  LongestCall = 0
  MaxItems = 2
SPECIFICATION FairSpec
INVARIANTS
  NormalEndAfterRequests
PROPERTIES
  RequestsKept
  ResponsesKept
  CancelEnds
  ConduitNotForgotten
