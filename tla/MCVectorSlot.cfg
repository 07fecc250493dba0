SPECIFICATION FairSlotSpec
CONSTANTS
  Reader = {r1, r2}
  Writer = writer
  None = None
  Late = FALSE
  MaxStores = 5
  MaxJobs = 2
  MaxMishaps = 1
INVARIANTS
  OnlyDamageMovesAside
  StoresAreClosed
PROPERTIES
  SearchesReturn
CHECK_DEADLOCK FALSE
