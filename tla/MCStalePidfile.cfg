SPECIFICATION Spec
CONSTANTS
  None = None
  Garbled = Garbled
  Foreign = Foreign
  Clients = {c1}
  Hook = None
  Pids = {p1, p2}
  Ops = {"start", "stop"}
  MaxRuns = 1
  MaxCrashes = 1
  BirthTimes = TRUE
  PidReuse = TRUE
  PromptMonitor = TRUE
PROPERTY ProbeFindsOnlyMonitors
CHECK_DEADLOCK FALSE
