SPECIFICATION Spec
CONSTANTS
  Closers = {a, b}
  Candidates = 1
  MaxAttempts = 0
  Reconnect = FALSE
  PromptStart = TRUE
  MaxSession = 2
  MaxEpoch = 2
  MaxLate = 1
PROPERTIES OldSessionHarmless
CHECK_DEADLOCK FALSE
