SPECIFICATION ReindexSpec
CONSTANTS
  Path = {p1}
  Good = {g1, g2}
  Bad = Bad
  Absent = Absent
  Tomb = Tomb
  Reparse = Reparse
  None = None
  Job = {"build", "reindex"}
  MaxEdits = 2
  MaxFaults = 1
SYMMETRY NoteSymmetry
INVARIANTS
  SkipsWereEvaluated
CHECK_DEADLOCK FALSE
