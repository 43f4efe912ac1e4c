SPECIFICATION FairSpec
CONSTANTS
  NULL = NULL
  Workers = {w1}
  Caller = main
  UseCaller = TRUE
  LateWork = FALSE
  Recurs = {TRUE, FALSE}
  Pins = {NULL}
  MaxWork = 2
INVARIANTS TypeOK WorkInv WorkHasThread
PROPERTIES ImplementsTaskPool StopReturns
