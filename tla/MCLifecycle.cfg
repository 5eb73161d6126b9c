SPECIFICATION Spec
CONSTANTS
  None = None
  Garbled = Garbled
  Foreign = Foreign
  Clients = {c1, c2}
  Hook = None
  Pids = {p1, p2}
  Ops = {"start", "stop", "wait", "refresh"}
  MaxRuns = 2
  MaxCrashes = 0
  BirthTimes = FALSE
  PidReuse = FALSE
  PromptMonitor = TRUE
INVARIANTS TypeOK TransitionsLegal StopCanComplete AwaitedRunIsOver
PROPERTY ForgetsOnlyTheDead
SYMMETRY Symmetry
CHECK_DEADLOCK FALSE
