SPECIFICATION Spec
CONSTANTS
  e1 = e1
  e2 = e2
  e3 = e3
  Events = {e1, e2, e3}
  NoEvent = NoEvent
  EventAt <- At
  ChunkCount = 3
  ChunkLen = 2
  HoldLimit = 3
  Interested = TRUE
  Optimize = TRUE
  MaxFailures = 1
INVARIANT NoOverrun
\* A turn ends.
CHECK_DEADLOCK FALSE
