SPECIFICATION FairWriterSpec
CONSTANTS
  Future = {f1, f2, f3}
  Kind = {job}
  Closer = {c1, c2}
  Sentinel = Sentinel
  None = None
INVARIANTS
  WriterTypeOK
  NoOrphanFuture
  CloseTrueIsFinal
PROPERTIES
  EveryFutureSettles
  ShutdownEnds
CHECK_DEADLOCK FALSE
