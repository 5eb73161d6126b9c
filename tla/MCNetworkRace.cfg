SPECIFICATION Spec
CONSTANTS
  None = None
  Private = {}
  Named = {a, b}
  Plain = {}
  StoreFails = FALSE
  MaxNets = 2
  MaxDeaths = 0
  MaxCrashes = 0
INVARIANTS SharedInstanceStays
