SPECIFICATION ReindexSpec
CONSTANTS
  Path = {p1, p2}
  Good = {g1, g2}
  Bad = Bad
  Absent = Absent
  Tomb = Tomb
  Reparse = Reparse
  None = None
  Job = {"build", "reindex"}
  MaxEdits = 2
  MaxFaults = 1
SYMMETRY NoteSymmetry
INVARIANTS
  ReindexTypeOK
  StaleIsNoticed
  SecondReindexCatchesUp
  TombstonesAreListed
PROPERTIES
  UnreadKeepsRow
CHECK_DEADLOCK FALSE
