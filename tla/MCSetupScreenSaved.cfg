CONSTANTS
  Type <- Meters
  Foreign = {"Systemd"}
  Param <- Numbers
  DefaultMode <- FirstMode
  Modes = 2
  Defaults <- DefaultHeader
  Field = {"PID", "COMM"}
  Comm = "COMM"
  DefaultFields <- PidComm
  Files <- OneCpu
  NoFile = NoFile
  MaxStarts = 2
  MaxOpenings = 1
  MaxMeters = 2
  MaxFields = 3
SPECIFICATION Spec
PROPERTY MetersChangeInSetup
CHECK_DEADLOCK FALSE
