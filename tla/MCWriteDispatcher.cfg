SPECIFICATION DispatcherSpec
CONSTANTS
  Writes = 3
  Scope = {s1, s2}
  Drainer = {d1}
  Stop = Stop
  None = None
SYMMETRY DispatcherSymmetry
INVARIANTS
  OneCallOneCommit
  CloseLeavesNothing
PROPERTIES
  KeepsPromise
CHECK_DEADLOCK FALSE
