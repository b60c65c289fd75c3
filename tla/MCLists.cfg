\* Every forest of four while nothing changes, and processes that come and go
\* during the scans where there are three; no pid comes back within a scan.
\* Lists of three processes sorted by columns of every kind that is compared with
\* its sign; a rate is counted in halves, and a pid is smaller than half a long.
CONSTANTS
  Pid = {1, 2, 3, 4}
  Reaper = 1
  Directions <- Both
  Toggles = {2}
  ForkPid = {1, 2, 3}
  PidReuse = FALSE
  MaxChanges = 2
  NULL = NULL
  UIntModulus = 1024
  LongModulus = 1024
  RateUnit = 2
  OrderPid = {1, 2, 3}
  FieldLists <- MCFieldLists
  TitleLen <- MCTitleLen
  MaxScroll = 1
SPECIFICATION MCSpec
INVARIANTS
  TreeIsRight
  NoLoopInTree
  ClickFindsTitle
PROPERTIES
  SortedByColumn
