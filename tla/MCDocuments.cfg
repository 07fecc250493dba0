SPECIFICATION DocSpec
CONSTANTS
  a = a
  b = b
  x = x
  y = y
  t1 = t1
  t2 = t2
  c1 = c1
  c2 = c2
  Path = {a, b, x, y}
  Text = {t1, t2}
  Client = {c1, c2}
  Folder <- MCFolder
  Renames <- MCRenames
  FirstDisk <- MCFirstDisk
  Saved <- MCSaved
  Bad = Bad
  Absent = Absent
  None = None
  Protect = TRUE
  MaxOps = 2
  MaxMishaps = 1
SYMMETRY ClientSymmetry
INVARIANTS
  DocTypeOK
  LinksFollow
  EveryChangeIsTold
PROPERTIES
  NoLostUpdate
CHECK_DEADLOCK FALSE
