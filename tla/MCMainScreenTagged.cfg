CONSTANTS
  Pid <- Processes
  Parent <- Chain
  Hideable = {2}
  Mine = {1, 2}
  WhiteList <- Processes
  Matching <- Texts
  Page = 2
  Commands = {"move", "tag", "untag", "filter", "kill"}
SPECIFICATION Spec
PROPERTIES
  SignalGoesToTagged
