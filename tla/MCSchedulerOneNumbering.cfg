SPECIFICATION Spec
CONSTANTS
  DataChannels = {1, 2}
  ByteLimit = 4
  ItemSizes = {2}
  MaxWrite = 3
  MaxItems = 2
  OneNumbering = TRUE
PROPERTIES
  AcceptedIsWritten
CHECK_DEADLOCK FALSE
