SPECIFICATION Spec
CONSTANTS
  Threads = {t1}
  NoOne = NoOne
  MaxSessions = 1
PROPERTIES BadFrameDiscarded
CHECK_DEADLOCK FALSE
