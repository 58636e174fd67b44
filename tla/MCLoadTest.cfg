CONSTANTS
  u1 = u1
  u2 = u2
  None = None
  Users <- MCUsers
  MaxAttempts <- MCMaxAttempts
  MaxCycles <- MCMaxCycles
  StatusWithoutState = TRUE
SPECIFICATION Spec
INVARIANTS
  TypeOK
  NamedRunExists
  LeaksAreReported
PROPERTIES
  LeakStepReported
CHECK_DEADLOCK FALSE
