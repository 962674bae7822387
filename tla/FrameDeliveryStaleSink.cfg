SPECIFICATION Spec
CONSTANTS
  Publishers = {p1, p2}
  Controllers = {c1}
  Receivers = {r1}
  Options <- LatestAlone
  MaxSession = 2
  MaxSequence = 1
PROPERTIES StaleSinkHarmless
CHECK_DEADLOCK FALSE
