SPECIFICATION Spec
CONSTANTS
  WordBits = 2
  BlockWords = 1
  NumDisks = 2
  NumBlocks = 2
  PipeCap = 6
  Garbage <- MCGarbage
  Data <- MCExitBlock
  Killable = {0, 2}
  Faults = FALSE
  MaxOps = 3
INVARIANTS TypeOK ParityInv SavedParity InStep RebuiltFromOthers
PROPERTIES Isolated ReadsTrue OneFailureSurvives
CHECK_DEADLOCK FALSE
