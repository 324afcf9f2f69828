SPECIFICATION Spec
CONSTANTS
  WordBits = 2
  BlockWords = 1
  NumRows = 3
INVARIANTS ParityOfRows RestoresRow
