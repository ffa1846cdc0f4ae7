SPECIFICATION Spec
CONSTANTS
  Capacity = 2
  RetryLimit = 2
  MaxFrames = 4
  MaxRestarts = 2
PROPERTIES
  SnapshotIsDurable
CHECK_DEADLOCK FALSE
