SPECIFICATION FairSpec
CONSTANTS
  None = None
  Garbled = Garbled
  Foreign = Foreign
  Clients = {c1, c2, h}
  Hook = h
  Pids = {p1}
  Ops = {"start", "stop", "inspect"}
  MaxRuns = 1
  MaxCrashes = 1
  BirthTimes = TRUE
  PidReuse = TRUE
  PromptMonitor = TRUE
PROPERTIES StopSettles DeathIsNoticed
CHECK_DEADLOCK FALSE
