\* Lists sorted by unsigned numbers, where a long is wider than they are.
CONSTANTS
  Pid = {1}
  Reaper = 1
  Directions <- Both
  Toggles = {}
  ForkPid = {}
  PidReuse = FALSE
  MaxChanges = 0
  NULL = NULL
  UIntModulus = 8
  LongModulus = 1024
  RateUnit = 2
  OrderPid = {1, 2}
  FieldLists <- MCUnsignedLists
  TitleLen <- MCTitleLen
  MaxScroll = 0
SPECIFICATION MCSpec
PROPERTY SortedByColumn
