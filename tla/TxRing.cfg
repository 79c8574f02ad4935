SPECIFICATION FairSpec
CONSTANTS
  N = 4
  BatchSize = 2
  NbPages = 1
  PageSize = 4
  MaxTransfer = 2
  Lengths <- MCLengths
  Configs = TRUE
  Starts <- MCStarts
  MaxUnreported = 1
INVARIANTS
  RingOrder
  SignalTellsCompletion
  NicHoldsPublished
  ChunkWithinPage
  RequestContiguous
PROPERTIES
  CallsReturn
