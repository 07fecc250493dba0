SPECIFICATION StatusSpec
CONSTANTS
  Future = {f1, f2, f3, f4, f5, f6, f7, f8}
  Kind <- JobKinds
  Closer = {}
  Sentinel = Sentinel
  None = None
  Path = {p1}
  Content = {x}
  Broken = {}
  Absent = Absent
  MaxEdits = 2
  MaxFaults = 0
SYMMETRY NoteSymmetry
INVARIANTS
  UnstaleAnswerIsFresh
CHECK_DEADLOCK FALSE
