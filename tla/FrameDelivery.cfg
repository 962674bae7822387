SPECIFICATION Spec
CONSTANTS
  Publishers = {p1}
  Controllers = {c1, c2}
  Receivers = {r1}
  Options <- OldestAndNewest
  MaxSession = 2
  MaxSequence = 3
SYMMETRY ThreadSymmetry
INVARIANTS TypeOK NoLostWakeup DropsAccounted QueuesBounded
PROPERTIES DeliversNewer ImplementsFrameStream
CHECK_DEADLOCK FALSE
