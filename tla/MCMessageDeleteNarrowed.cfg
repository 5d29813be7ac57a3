SPECIFICATION Spec
CONSTANTS
  MaxMsgs = 3
  Kinds <- LifeKinds
  Filters <- LifeFilters
  Windows <- OneWindow
  ScrollModes = {"normal"}
  Commands = {"enqueue", "next", "filter", "deleteexpungecur"}
PROPERTIES
  CurrentIsExpunged
