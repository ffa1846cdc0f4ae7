SPECIFICATION Spec
CONSTANTS
  Capacity = 2
  RetryLimit = 2
  MaxFrames = 4
  MaxRestarts = 2
INVARIANTS
  WindowSorted
  ResumeIsComplete
PROPERTIES
  AckRetiresExactly
  RetryAllOrNothing
CHECK_DEADLOCK FALSE
