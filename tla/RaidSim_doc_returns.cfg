SPECIFICATION FairSpec
CONSTANTS
  WordBits = 2
  BlockWords = 1
  NumDisks = 2
  NumBlocks = 2
  PipeCap = 6
  Garbage <- MCGarbage
  Data <- MCExitBlock
  Killable = {0}
  Faults = FALSE
  MaxOps = 2
PROPERTY CommandReturns
CHECK_DEADLOCK FALSE
