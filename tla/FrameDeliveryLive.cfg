SPECIFICATION FairSpec
CONSTANTS
  Publishers = {p1}
  Controllers = {c1}
  Receivers = {r1}
  Options <- LatestAlone
  MaxSession = 2
  MaxSequence = 2
PROPERTIES DeliversNewer StopWakesReaders FramesWakeReaders
CHECK_DEADLOCK FALSE
