SPECIFICATION SlotSpec
CONSTANTS
  Reader = {r1, r2}
  Writer = writer
  None = None
  Late = TRUE
  MaxStores = 5
  MaxJobs = 1
  MaxMishaps = 1
SYMMETRY ReaderSymmetry
INVARIANTS
  OnlyDamageMovesAside
CHECK_DEADLOCK FALSE
