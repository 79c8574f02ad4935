SPECIFICATION Spec
CONSTANTS
  NbPipes = 2
  PipeSize = 3
  N = 3
  MaxPkt = 2
  HeadUpdLimit = 2
  StageLen = 1
  BatchSize = 2
  Apis <- MCRecv
  Partial = FALSE
  MaxAsked = 2
INVARIANTS
  NotifRingOrder
  SingleToken
