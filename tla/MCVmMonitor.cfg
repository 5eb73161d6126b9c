SPECIFICATION MonitorSpec
CONSTANTS
  None = None
  Clients = {c1}
  Registrations = {r1}
  BusCapacity = 2
  Viewers = {a, b}
  Logger = l
  Capacity = 1
  MaxChunks = 2
INVARIANTS PartsTypeOK ReadyIsEarned StreamIsComplete 
PROPERTIES  ConsoleServes
CHECK_DEADLOCK FALSE
