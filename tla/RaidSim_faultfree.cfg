SPECIFICATION FairSpec
CONSTANTS
  WordBits = 2
  BlockWords = 1
  NumDisks = 2
  NumBlocks = 2
  PipeCap = 3
  Garbage <- MCGarbage
  Data <- MCExitBlock
  Killable = {}
  Faults = FALSE
  MaxOps = 3
INVARIANT ParityInv
PROPERTIES ImplementsStore AllSaved
