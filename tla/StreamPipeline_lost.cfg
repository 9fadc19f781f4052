SPECIFICATION Spec
CONSTANTS
  MaxRows = 3
  BatchSize = 2
  ChanCap = 4
INVARIANT CompletedWritesAll
CHECK_DEADLOCK FALSE
