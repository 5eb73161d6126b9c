SPECIFICATION PartsSpec
CONSTANTS
  None = None
  Absent = Absent
  Wrong = Wrong
  Garbled = Garbled
  Foreign = Foreign
  Clients = {c1, h}
  Hook = h
  Pids = {p1, p2}
  Ops = {"start", "kill", "inspect", "cleanup"}
  MaxRuns = 2
  MaxCrashes = 1
  BirthTimes = FALSE
  PidReuse = FALSE
  PromptMonitor = TRUE
INVARIANTS PidfileNamesMonitor RunningMachineKeepsNetwork 
CHECK_DEADLOCK FALSE
