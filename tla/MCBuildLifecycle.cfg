SPECIFICATION FairBuildSpec
CONSTANTS
  Future = {f1, f2, f3}
  Kind <- JobKinds
  Closer = {c1}
  Sentinel = Sentinel
  None = None
  Attempt = {a1, a2}
  Reader = {"barrier", "waiter", "status"}
INVARIANTS
  LatestDecides
  PublicMatchesOutcome
  ProceedNeedsSuccess
  FinishedIsNotBuilding
PROPERTIES
  BuildsSettleAndWake
CHECK_DEADLOCK FALSE
