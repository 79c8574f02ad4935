SPECIFICATION FairSpec
CONSTANTS
  Devices <- MCDevices
  Virtual <- MCVirtual
  DMA_SUPPORTED = FALSE
  Faults <- MCFaults
  Handles <- MCHandles
  KmemUsers <- MCKmemUsers
  Sizes <- MCSizes
  MaxRegions = 2
  MaxGhosts = 1
INVARIANTS
  
  CountsHandles
  
  MappedAllocated
PROPERTIES
  CallReturns
