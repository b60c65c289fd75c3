\* A pid may come back within a scan.
CONSTANTS
  Pid = {1, 2, 3}
  Reaper = 1
  Directions = {1}
  Toggles = {}
  ForkPid = {1, 2, 3}
  PidReuse = TRUE
  MaxChanges = 2
SPECIFICATION TreeSpec
INVARIANT NoLoopInTree
