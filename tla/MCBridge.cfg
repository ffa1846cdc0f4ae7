SPECIFICATION Spec
CONSTANTS
  L = L
  R = R
  left = L
  right = R
  Cases <- AllCases
  MaxNumber = 9
  MaxByte = 3
  FragmentSize = 2
  Executor = FALSE
  ExecutorCapacity = 0
  HandshakeTimeout = 1
  IdlePing = 1
  PongTimeout = 1
  DrainTimeout = 1
  FragmentGap = 1
  MaxMessage = 2
  MaxChannels = 2
  MaxGeneration = 2
  ChannelWindow = 2
  MaxSequence = 9
  Capacity = 3
  DataChannels = {1, 2}
  ByteLimit = 9
INVARIANTS
  MessagesCross
  PolicySurvives
CHECK_DEADLOCK FALSE
