CONSTANTS
  u1 = u1
  u2 = u2
  None = None
  Users <- MCUsers
  MaxAttempts <- MCMaxAttempts
  MaxCycles <- MCMaxCycles
  StatusWithoutState = FALSE
SPECIFICATION SpecWithStop
INVARIANTS
  LeaksAreReported
CHECK_DEADLOCK FALSE
