SPECIFICATION Spec
CONSTANTS
  NULL = NULL
  Workers = {w1}
  Caller = main
  UseCaller = FALSE
  LateWork = FALSE
  Recurs = {}
  Pins = {NULL}
  MaxWork = 2
INVARIANT NoSleepOverTask
