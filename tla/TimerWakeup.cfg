SPECIFICATION Spec
CONSTANTS
  NULL = NULL
  Users = {u1, u2}
  Waiters = {w1, w2}
  Timers = {t1, t2}
  Recurring = {t2}
  Periods = {1, 2}
  MaxTimeout = 4
  RolloverWindow = 1
  MaxClock = 2
  MaxOps = 1
  MaxRollbacks = 0
SYMMETRY ThreadSymmetry
INVARIANTS TypeOK IInv CoverInv EarliestCovered KeysDistinct
PROPERTIES NeverEarly
CHECK_DEADLOCK FALSE
