SPECIFICATION Spec
CONSTANTS
  MaxMsgs = 3
  Kinds <- ScrollKinds
  Filters <- ScrollFilters
  Windows <- ScrollWindows
  ScrollModes = {"normal", "paged", "center"}
  Commands <- ScrollCommands
PROPERTIES
  CurmsgStaysOnScreen
