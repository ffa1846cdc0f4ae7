SPECIFICATION Spec
CONSTANTS
  DataChannels = {1, 2, 3}
  ByteLimit = 6
  ItemSizes = {2}
  MaxWrite = 3
  MaxItems = 2
  OneNumbering = FALSE
INVARIANTS
  QueuedBytesExact
  StreamExact
  BoundedBypass
PROPERTIES
  AcceptedIsWritten
CHECK_DEADLOCK FALSE
