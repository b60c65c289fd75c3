CONSTANTS
  Pid <- Processes
  Parent <- Chain
  Hideable = {2}
  Mine = {1, 2}
  WhiteList <- Processes
  Matching <- Texts
  Page = 2
  Commands <- AllCommands
  Procs = {1, 2}
  MayHide = {2}
  NiceMin = 0
  NiceMax = 2
  IoRows <- MCIoRows
  IoOther = "other"
  Realtime = {"rt"}
  KernelCpus = {0, 1, 3}
  CpuCount = 3
  LongBits = 2
  Signals = {0, 15}
  SIGTERM = 15
  MaxChanges = 2
SPECIFICATION MCSpec
INVARIANTS
  RowsAreCurrent
  FollowedIsSelected
  ShownIsKernels
PROPERTIES
  SignalIsConfirmed
  ActionsReachAsked
