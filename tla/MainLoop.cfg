SPECIFICATION FairSpec
CONSTANTS
  Sizes = {s1, s2}
  MaxSignals = 3
  MaxKeys = 2
INVARIANTS
  InterruptIsFresh
  LogIsFaithful
PROPERTIES
  SignalsAreServed
CHECK_DEADLOCK FALSE
