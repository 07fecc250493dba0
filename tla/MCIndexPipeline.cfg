SPECIFICATION PipelineSpec
CONSTANTS
  Future = {f1, f2, f3, f4, f5, f6, f7, f8, f9}
  Kind <- JobKinds
  Closer = {}
  Sentinel = Sentinel
  None = None
  Path = {p1, p2}
  Content = {x}
  Broken = {}
  Absent = Absent
  MaxEdits = 2
  MaxFaults = 2
SYMMETRY NoteSymmetry
INVARIANTS
  StaleIsCovered
  RefreshIsABarrier
CHECK_DEADLOCK FALSE
