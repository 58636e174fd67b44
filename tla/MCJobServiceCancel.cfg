CONSTANTS
  p1 = p1
  p2 = p2
  d1 = d1
  d2 = d2
  None = None
  PostReqs <- MCPostReqs
  DeleteReqs <- MCDeleteReqs
  RunNameOf <- MCDistinctNames
  TargetOf <- MCTargetOf
  Keys <- MCKeys
  NetworkFaults = FALSE
SPECIFICATION Spec
INVARIANTS
  CancelledRunDeleted
CHECK_DEADLOCK FALSE
