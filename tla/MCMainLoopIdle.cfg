CONSTANTS
  ResetSortTimeout = 5
  CloseLimit = 20
  Events <- EveryEvent
SPECIFICATION FairSpec
PROPERTIES
  IdleIsSorted
CHECK_DEADLOCK FALSE
