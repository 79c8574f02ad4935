SPECIFICATION RtxFairSpec
CONSTANTS
  N = 6
  BatchSize = 2
  NbPages = 2
  PageSize = 8
  Quantum = 2
  MaxTransfer = 2
  Lengths <- MCOneLength
  Configs = TRUE
  Starts <- MCStarts
  MaxUnreported = 100
  Choices <- MCOneChoice
  Width = 8
INVARIANTS
  AppNeverOwnsInFlight
  InFlightIsPending
  RxNeverOverwrites
