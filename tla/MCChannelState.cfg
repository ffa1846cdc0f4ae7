SPECIFICATION BothSpec
CONSTANTS
  MaxMessage = 3
  MaxChannels = 2
  MaxGeneration = 2
  ChannelWindow = 1
  MaxSequence = 3
  MaxIncarnations = 4
  Sequence = {m1, m2}
  Byte = {b0, b1}
SYMMETRY Symmetry
INVARIANTS
  StaleIdsFindNothing
  HalfCloseCoherent
  CreditConserved
  RetainedIsExact
  RangesAgree
  NothingCompleteIsKept
  DeliversWhatWasSent
PROPERTIES
  SendSequencesUnique
  ImplementsLifecycle
