SPECIFICATION Spec
CONSTANTS
  Downloads = {d1, d2}
  Clears = {c1}
  Flushes = {f}
INVARIANTS TypeOK DeletedOnce TeardownComplete NameIsAnswered ClearingScheduled
PROPERTIES ImplementsJobs WholeFileStays TokensExpire
CHECK_DEADLOCK FALSE
