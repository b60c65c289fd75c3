CONSTANTS
  Pid = {1, 2, 3}
  KernelPid = {2}
  RunState = {"R", "S"}
  Obj = {o1, o2, o3}
  NULL = NULL
  NoList = NoList
  HideKernelThreads = TRUE
  HideUserlandThreads = TRUE
  UpdateProcessNames = TRUE
  MaxChanges = 2
  ResetSortTimeout = 5
  CloseLimit = 20
  Events = {"timeout", "stray", "default", "handled", "refresh", "quit"}
SPECIFICATION MCSpec
INVARIANTS
  TableMatchesVector
  NoDanglingNoLeak
  VisitedStaysPut
  TotalsAndFlagsFit
  ClosesOnlyInBurst
PROPERTIES
  ImplementsSnapshot
  ScanEnds
  ScansForever
  IdleIsSortedAfterKeys
