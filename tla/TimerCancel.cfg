SPECIFICATION Spec
CONSTANTS
  NULL = NULL
  Users = {u1, u2}
  Waiters = {w1}
  Timers = {t1}
  Recurring = {t1}
  Periods = {1, 2}
  MaxTimeout = 4
  RolloverWindow = 1
  MaxClock = 3
  MaxOps = 2
  MaxRollbacks = 0
INVARIANTS CancelRemoves
CHECK_DEADLOCK FALSE
