SPECIFICATION FairSpec
CONSTANTS
  NoData = NoData
  Queues <- MCQueues
  Data <- MCData
  Files <- MCFiles
  Vals <- MCVals
  Capacity = 2
  Overlap = FALSE
  Restart = FALSE
INVARIANTS
  AnswersMatch
PROPERTIES
  
  OperationReturns
CHECK_DEADLOCK FALSE
