SPECIFICATION FairSpec
CONSTANTS
  WordBits = 2
  BlockWords = 2
  NumDisks = 2
  NumBlocks = 1
  PipeCap = 3
  Garbage <- MCGarbage
  Data <- MCMixedBlock
  Killable = {0, 2}
  Faults = TRUE
  MaxOps = 3
INVARIANT SavedParity
PROPERTIES ExitReturns NoOrphan
CHECK_DEADLOCK FALSE
