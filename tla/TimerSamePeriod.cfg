SPECIFICATION FairSpec
CONSTANTS
  NULL = NULL
  Users = {u1}
  Waiters = {w1}
  Timers = {t1, t2}
  Recurring = {t1, t2}
  Periods = {2}
  MaxTimeout = 4
  RolloverWindow = 1
  MaxClock = 4
  MaxOps = 0
  MaxRollbacks = 0
PROPERTIES RecurringRejoins
CHECK_DEADLOCK FALSE
