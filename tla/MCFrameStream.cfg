SPECIFICATION Spec
CONSTANTS
  MaxFrame = 19
  MaxHeader = 12
  Radix = 2
  MaxVarint = 3
  MaxLength = 5
  MaxFramesInspected = 2
  PingSize = 1
  LargeControl = 1
  DataChannels = {1, 2}
  ByteLimit = 50
  Rooms = {6}
  Chunks = {1, 4}
  Scripts <- AllScripts
  Cells <- AllCells
INVARIANTS
  CutsDoNotMatter
  NothingForged
  OnlyCutWritesHurt
  DamageIsReported
CHECK_DEADLOCK FALSE
