SPECIFICATION FairFromGood
CONSTANTS
  Future = {f1, f2, f3, f4, f5, f6, f7, f8}
  Kind <- JobKinds
  Closer = {c1}
  Sentinel = Sentinel
  None = None
  Path = {p1}
  Content = {x, y}
  Broken = {y}
  Absent = Absent
  MaxEdits = 2
  MaxFaults = 1
INVARIANTS
  CleanCloseLosesNothing
PROPERTIES
  WritesReachSearch
CHECK_DEADLOCK FALSE
