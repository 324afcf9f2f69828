SPECIFICATION FairSpec
CONSTANTS
  c1 = c1
  c2 = c2
  c3 = c3
  Clients = {c1, c2, c3}
  MAX_CONNECTIONS = 2
  Units <- MCUnits
CHECK_DEADLOCK FALSE
INVARIANTS TableAgrees Relayed AllHear
PROPERTIES DroppedForAnother Served Admitted
