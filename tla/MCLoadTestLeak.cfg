CONSTANTS
  u1 = u1
  u2 = u2
  None = None
  Users <- MCUsers
  MaxAttempts <- MCMaxAttempts
  MaxCycles <- MCMaxCycles
  StatusWithoutState = FALSE
SPECIFICATION Spec
INVARIANTS
  NoRunLeftBehind
CHECK_DEADLOCK FALSE
