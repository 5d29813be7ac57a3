SPECIFICATION FairSpec
CONSTANTS
  Sizes = {s1, s2}
  MaxSignals = 0
  MaxKeys = 1
PROPERTIES
  QuitExits
CHECK_DEADLOCK FALSE
