SPECIFICATION Spec
CONSTANTS
  Closers = {a}
  Candidates = 1
  MaxAttempts = 1
  Reconnect = TRUE
  PromptStart = TRUE
  MaxSession = 2
  MaxEpoch = 2
  MaxLate = 1
INVARIANTS TypeOK OneSession FreeMeansQuiet
CHECK_DEADLOCK FALSE
