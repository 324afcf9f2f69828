SPECIFICATION FairSpec
CONSTANTS
  HeapSize = 5
  Values = {1, 2}
  MaxOps = 7
INVARIANT ListOK
PROPERTIES IsSequence ListImplementsPool ListFreed
