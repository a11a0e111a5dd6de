\* Three instants, one item per stream and instant.
CONSTANTS
  Null = Null
  LongestCall = 2
  MaxTime = 2
  Pace = 1
SPECIFICATION FairSpec
INVARIANTS
  TypeOK
  LateNeverDelivered
  VerdictJustified
  InOrder
  CutIsPrompt
  RequestsInOrder
  LossIsRecorded
  CutAnswersReplaced
  CompleteMeansAll
PROPERTY CutLeadsToEnd
