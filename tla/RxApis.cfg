SPECIFICATION FairSpec
CONSTANTS
  NbPipes = 1
  PipeSize = 3
  N = 6
  MaxPkt = 1
  HeadUpdLimit = 1
  StageLen = 1
  BatchSize = 2
  Apis <- MCApis
  Partial = TRUE
  MaxAsked = 2
INVARIANTS
  PipeOrder
  NotifRingOrder
  
PROPERTIES
  DataIsReceived
