SPECIFICATION Spec
CONSTANTS
  Documents <- MCDocuments
  ObligationCount = 3
  DepthLimit = 4
INVARIANTS
  VerdictOnCycles
  AcceptedCanProgress
  BlockedIsGrounded
PROPERTIES
  Decides
CHECK_DEADLOCK FALSE
