CONSTANTS
  MaxAttempts <- MCMaxAttempts
  StatusWithoutState = FALSE
SPECIFICATION Spec
PROPERTIES
  AwaitCompletionRefined
CHECK_DEADLOCK FALSE
