SPECIFICATION FairSpec
CONSTANTS
  HeapSize = 12
  Names = {"x", "y"}
  MaxDepth = 2
  MaxOps = 5
INVARIANTS HeapOK Frontier
PROPERTIES RemoveIsLocal ImplementsPool AllFreed
