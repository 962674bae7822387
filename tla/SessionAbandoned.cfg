SPECIFICATION Spec
CONSTANTS
  Closers = {a}
  Candidates = 1
  MaxAttempts = 0
  Reconnect = FALSE
  PromptStart = FALSE
  MaxSession = 2
  MaxEpoch = 2
  MaxLate = 1
INVARIANTS OneSession
CHECK_DEADLOCK FALSE
