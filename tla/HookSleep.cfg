SPECIFICATION HookSpec
CONSTANTS
  NULL = NULL
  Workers = {w1}
  Caller = main
  Scheduling = sched
  Tasks = {f1, f2}
  EarlyReset = FALSE
  Hooked = {w1}
  Calls <- WholeAndShortCalls
  MS = 2
  US = 2
  UINT = 8
  INT = 4
  MaxNow = 2
INVARIANTS HookTypeOK HookInv CurrentFiber NoStaleJump NoAssertFails FreeIsSaved
PROPERTIES SleepEndsInTime SleepEnds
