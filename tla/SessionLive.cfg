SPECIFICATION FairSpec
CONSTANTS
  Closers = {a,b}
  Candidates = 2
  MaxAttempts = 2
  Reconnect = TRUE
  PromptStart = TRUE
  MaxSession = 1
  MaxEpoch = 2
  MaxLate = 1
INVARIANTS RecoveryKeepsReceivers
PROPERTIES StopCompletes StateEnds
CHECK_DEADLOCK FALSE
