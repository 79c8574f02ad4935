SPECIFICATION Spec
CONSTANTS
  Bars <- MCBars
  Bar <- MCBar
  Counts <- MCCounts
  CmdOffsets <- MCCmdOffsets
  SeekTo <- MCSeekTo
  MAX_TRANSFER_SIZE = 64
  Width = 32
  MaxPos = 130
INVARIANTS
  TransactionsLegal
  BytesMoved
  TouchedOnce
  BufferBounded
