SPECIFICATION Spec
CONSTANTS
  Closers = {a}
  Candidates = 1
  MaxAttempts = 1
  Reconnect = TRUE
  PromptStart = TRUE
  MaxSession = 1
  MaxEpoch = 2
  MaxLate = 1
PROPERTIES FailureKept
CHECK_DEADLOCK FALSE
