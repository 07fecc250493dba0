SPECIFICATION FairHeadSpec
CONSTANTS
  Ext = {e1}
  Loop = loop
  Guest = {hook}
  Start = start
  Build = build
  Nothing = Nothing
  MaxHeads = 3
  MaxBadScans = 1
INVARIANTS
  NothingIsPassedOver
PROPERTIES
  HeadReachesIndex
CHECK_DEADLOCK FALSE
