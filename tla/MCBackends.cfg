SPECIFICATION BackendsSpec
CONSTANTS
  None = None
  Waiter = a
  Callers = {a, b}
  Ports = {p}
  VzMain = a
  VzTasks = {a, b}
  VzPorts = {p}
  Endpoints = {e1}
  Initial = 1
  Max = 3
  Err = Err
  Calls = {c, d}
  Queue = 1
  Incoming = 1
  MaxStreams = 3
  HostPorts = {1, 2, 3}
  Low = {1}
  Mapping <- MappingDef
  Clients = {c}
  MaxChanges = 3
INVARIANTS PartsTypeOK BackendAnswers 
PROPERTIES BackendsSettle 
CHECK_DEADLOCK FALSE
