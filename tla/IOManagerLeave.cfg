SPECIFICATION Spec
CONSTANTS
  NULL = NULL
  Workers = {w1}
  Caller = main
  UseCaller = FALSE
  LateWork = FALSE
  Recurs = {FALSE}
  Pins = {NULL}
  MaxWork = 2
INVARIANT WorkHasThread
