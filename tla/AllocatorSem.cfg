SPECIFICATION Spec
CONSTANTS
  a = a
  b = b
  Handles <- MCHandles
  NbRings = 2
  NbPipes = 4
  ByteBits = 2
  Word = 8
  PipeCallers = 1
  LastFirst = TRUE
  DMA_SUPPORTED = TRUE
INVARIANT
  RingExclusive
