SPECIFICATION Spec
CONSTANTS
  a = a
  b = b
  Endpoints <- TwoEndpoints
  Uses <- FourUses
  FragmentSize = 1
  Executor = TRUE
  ExecutorCapacity = 1
  HandshakeTimeout = 2
  IdlePing = 3
  PongTimeout = 2
  DrainTimeout = 1
  FragmentGap = 1
  MaxMessage = 2
  MaxChannels = 2
  MaxGeneration = 2
  ChannelWindow = 2
  MaxSequence = 9
  Capacity = 2
  DataChannels = {1, 2}
  ByteLimit = 9
INVARIANTS
  DeliveredIsPrefix
  ResponsesFollowDelivery
  EndsAgree
  HealthyLinkStaysOpen
  DeadPeerIsNoticed
  DrainIsBounded
  LossShows
PROPERTIES
  ResetIsFinal
CHECK_DEADLOCK FALSE
