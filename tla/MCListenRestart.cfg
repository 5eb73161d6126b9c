SPECIFICATION EndpointsFairSpec
CONSTANTS
  None = None
  Endpoints = {e1}
  Initial = 1
  Max = 3
PROPERTY RestartPolicyApplied
CHECK_DEADLOCK FALSE
