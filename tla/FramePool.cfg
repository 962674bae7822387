SPECIFICATION Spec
CONSTANTS
  Publishers = {p1, p2}
  Controllers = {c1}
  Buf = {b1, b2, b3}
  NoBuf = NoBuf
  Lengths = {1, 2}
  Budgets <- SmallBudgets
  MaxSession = 2
  MaxReceived = 2
SYMMETRY PoolSymmetry
INVARIANTS TypeOK ExclusiveWrite LeaseIndexStable SlotsRecoverable WithinBudget MetricsConsistent
CHECK_DEADLOCK FALSE
