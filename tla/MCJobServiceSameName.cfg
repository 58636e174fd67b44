CONSTANTS
  p1 = p1
  p2 = p2
  d1 = d1
  d2 = d2
  None = None
  PostReqs <- MCPostReqs
  DeleteReqs <- MCDeleteReqs
  RunNameOf <- MCSameName
  TargetOf <- MCTargetOf
  Keys <- MCKeys
  NetworkFaults = TRUE
SPECIFICATION Spec
INVARIANTS
  SubmittedRunHasSecrets
CHECK_DEADLOCK FALSE
