SPECIFICATION RtxFairSpec
CONSTANTS
  N = 5
  BatchSize = 1
  NbPages = 1
  PageSize = 10
  Quantum = 2
  MaxTransfer = 2
  Lengths <- MCLengths
  Configs = FALSE
  Starts <- MCStarts
  MaxUnreported = 100
  Choices <- MCChoices
  Width = 8
INVARIANTS
  CompletionsMatchRequests
  NoByteLost
  CreditConserved
PROPERTIES
  PipeCallsReturn
