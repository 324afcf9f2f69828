SPECIFICATION FairSpec
CONSTANTS
  BUFSIZE = 4
  TIMES = 2
  MINCHARS = 2
  MAXCHARS = 3
  MaxMessage = 5
INVARIANTS LinesOfRead OnlyLongLinesLost
PROPERTY ConnectionEnds
