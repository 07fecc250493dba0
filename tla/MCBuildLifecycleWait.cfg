SPECIFICATION BuildSpec
CONSTANTS
  Future = {f1, f2}
  Kind <- JobKinds
  Closer = {}
  Sentinel = Sentinel
  None = None
  Attempt = {a1, a2}
  Reader = {"waiter"}
SYMMETRY AttemptSymmetry
INVARIANTS
  NeverBuiltMeansNeverScheduled
CHECK_DEADLOCK FALSE
