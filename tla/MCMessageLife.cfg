SPECIFICATION Spec
CONSTANTS
  MaxMsgs = 3
  Kinds <- LifeKinds
  Filters <- LifeFilters
  Windows <- OneWindow
  ScrollModes = {"top"}
  Commands <- LifeCommands
INVARIANTS
  ViewIsNarrowedList
  NoMissedRedisplay
PROPERTIES
  CursorStays
