SPECIFICATION NetworksSpec
CONSTANTS
  None = None
  Err = Err
  Absent = Absent
  Partial = Partial
  Private = {p}
  Named = {a, b}
  Plain = {}
  Others = {q}
  StoreFails = TRUE
  MaxNets = 3
  MaxDeaths = 1
  MaxCrashes = 0
INVARIANTS NetworksTypeOK  PrivateStays OneNetwork PolicyLoads  SecretsAreKept 
SYMMETRY Symmetry
