SPECIFICATION PathFairSpec
CONSTANTS
  N = 8
  BatchSize = 2
  NbPages = 1
  PageSize = 8
  Quantum = 2
  MaxTransfer = 4
  Lengths <- MCLengths
  Configs = TRUE
  Starts <- MCStarts
  MaxUnreported = 100
PROPERTY
  AllocateBufReturns
