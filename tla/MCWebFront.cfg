\* Three attempts: a first, a last, and one between.
CONSTANTS
  Null = Null
  LongestCall = 1
  LongestName = 2
  MaxAttempts = 3
  Texts <- SomeTexts
SPECIFICATION FairWebSpec
INVARIANTS
  SuccessIsAnswered
  ParseFaithful
PROPERTIES
  LinkClosesMenu
  LoadingEnds
