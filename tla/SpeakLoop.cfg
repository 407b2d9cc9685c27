SPECIFICATION Spec
CONSTANTS
  Sessions <- MCSessions
  Lower <- LowerCase
INVARIANTS TypeOK SsmlAccepted TextInItsTags RangesAgree BookmarksInPlace OneSynthesis NobodyLeftInside
PROPERTY SpeakReturns
CHECK_DEADLOCK FALSE
