SPECIFICATION FairSpec
CONSTANTS
  NULL = NULL
  Users = {u1}
  Waiters = {w1}
  Timers = {t1, t2}
  Recurring = {t2}
  Periods = {0, 1, 2}
  MaxTimeout = 4
  RolloverWindow = 1
  MaxClock = 2
  MaxOps = 0
  MaxRollbacks = 1
PROPERTIES DueIsServed ListingEnds
CHECK_DEADLOCK FALSE
