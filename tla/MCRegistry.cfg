SPECIFICATION Spec
CONSTANTS
  None = None
  Callers = {c1, c2, c3}
  MaxMachines = 2
  MaxLockId = 1
  MaxInodes = 4
  Names = {n1, n2}
  Specs = {s1, s2}
  StoreFails = TRUE
  MaxCrashes = 1
INVARIANTS TypeOK OneInside LockIdsDistinct SeesLatest 
SYMMETRY Symmetry
