SPECIFICATION EmbedSpec
CONSTANTS
  Vault = {a, b}
  Note <- MCNote
  None = None
  Bulk = 2
  MaxRequests = 1
  MaxMishaps = 2
SYMMETRY Processes
INVARIANTS
  LeaseIsNotTheOnlyGuard
CHECK_DEADLOCK FALSE
