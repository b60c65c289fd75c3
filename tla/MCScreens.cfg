CONSTANTS
  Type <- Meters
  Foreign = {"Systemd"}
  Param <- Numbers
  DefaultMode <- FirstMode
  Modes = 2
  Defaults <- DefaultHeader
  Field = {"PID", "COMM"}
  Comm = "COMM"
  DefaultFields <- PidComm
  Files <- FirstFiles
  NoFile = NoFile
  MaxStarts = 2
  MaxOpenings = 1
  MaxMeters = 2
  MaxFields = 3
  Kinds = {"snapshot", "trace"}
  Letter = {1, 2}
  NL = 0
  Output = {0, 1}
  Outcomes <- MCOutcomes
  INCMODE_MAX = 2
  ReadSize = 3
  StdioSize = 4
  PipeSize = 4
  MaxLines = 4
  MaxWritten = 5
  Platforms = {"freebsd", "dragonfly", "openbsd", "solaris", "darwin", "unsupported"}
  NULL = NULL
  Pid = {1, 2, 3}
  Jid = {5}
  Tasks <- MCTasks
  Sorts <- MCSorts
  DEFAULT_SIZE = 1
  TableSize = 2
  MaxChanges <- MCMaxChanges
SPECIFICATION MCSpec
INVARIANTS
  SetupShowsSettings
  InfoShowsText
  ListIsSnapshot
  ListFollowsProcesses
PROPERTIES
  NoMeterIsLost
  SettingsAreSaved
  FilterKeepsSelected
  SortIsStable
CHECK_DEADLOCK FALSE
