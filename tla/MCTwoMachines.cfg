SPECIFICATION Spec
CONSTANTS
  None = None
  Garbled = Garbled
  Foreign = Foreign
  Clients = {c1, h}
  Hook = h
  Pids = {p1, p2}
  Ops = {"start"}
  MaxRuns = 2
  MaxCrashes = 0
  BirthTimes = FALSE
  PidReuse = FALSE
  PromptMonitor = TRUE
INVARIANT OneVm
CHECK_DEADLOCK FALSE
