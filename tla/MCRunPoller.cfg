CONSTANTS
  MaxAttempts <- MCMaxAttempts
  StatusWithoutState = TRUE
SPECIFICATION Spec
INVARIANTS
  TypeOK
  PollBudget
  DecoratorEvents
CHECK_DEADLOCK FALSE
