SPECIFICATION FairGitSpec
CONSTANTS
  Writes = 2
  Scope = {}
  Drainer = {loop, tool}
  Loop = loop
  Tool = {tool}
  Ext = {e1}
  Leftover = {old}
  Sibling = {sib}
  Stop = Stop
  None = None
  MaxFaults = 1
INVARIANTS
  MergeFindsWritesCommitted
  UnpushedIsPending
  ShutdownLeavesNothingUnsaid
PROPERTIES
  PausesEnd
  WritesReachOrigin
CHECK_DEADLOCK FALSE
