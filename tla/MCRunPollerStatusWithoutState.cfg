CONSTANTS
  MaxAttempts <- MCMaxAttempts
  StatusWithoutState = TRUE
SPECIFICATION Spec
PROPERTIES
  AwaitCompletionRefined
CHECK_DEADLOCK FALSE
