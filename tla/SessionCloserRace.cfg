SPECIFICATION Spec
CONSTANT MaxPushes = 2
PROPERTY CloserOnlyAfterIncomplete
CHECK_DEADLOCK FALSE
