SPECIFICATION ReindexSpec
CONSTANTS
  Path = {p1}
  Good = {g1, g2}
  Bad = Bad
  Absent = Absent
  Tomb = Tomb
  Reparse = Reparse
  None = None
  Job = {"reindex"}
  MaxEdits = 2
  MaxFaults = 0
SYMMETRY NoteSymmetry
INVARIANTS
  ReindexCatchesUp
CHECK_DEADLOCK FALSE
