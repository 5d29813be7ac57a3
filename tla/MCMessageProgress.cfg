SPECIFICATION FairSpec
CONSTANTS
  MaxMsgs = 2
  Kinds <- ProgressKinds
  Filters <- ProgressFilters
  Windows <- OneWindow
  ScrollModes = {"normal"}
  Commands <- ProgressCommands
PROPERTIES
  IdsGrow
  ArrivalsAreShown
