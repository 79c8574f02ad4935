SPECIFICATION FairSpec
CONSTANTS
  MaxDescs = 3
  Discipline = TRUE
INVARIANTS
  SendCompletes
  
PROPERTIES
  SendReturns
