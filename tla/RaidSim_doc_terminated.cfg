SPECIFICATION Spec
CONSTANTS
  WordBits = 2
  BlockWords = 1
  NumDisks = 2
  NumBlocks = 3
  PipeCap = 6
  Garbage <- MCGarbage
  Data <- MCExitBlock
  Killable = {0}
  Faults = FALSE
  MaxOps = 2
PROPERTY ReturnsWhenAllTerminated
CHECK_DEADLOCK FALSE
