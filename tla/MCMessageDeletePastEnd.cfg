SPECIFICATION Spec
CONSTANTS
  MaxMsgs = 2
  Kinds <- LifeKinds
  Filters <- LifeFilters
  Windows <- OneWindow
  ScrollModes = {"normal"}
  Commands = {"enqueue", "last", "delete"}
INVARIANTS
  NoCrash
