SPECIFICATION FairSpec
CONSTANTS
  NULL = NULL
  Workers = {w1}
  Caller = main
  UseCaller = TRUE
  UseCallerReads = {TRUE}
  Fibers = {f1}
  Callbacks = {c1}
  MaxPosts = 3
INVARIANTS TypeOK IInv FiberExclusive CountersExact NoAssertFails TaskHasThread StopDrains
PROPERTIES StoppingStable ImplementsTaskPool EveryPostServed StopReturns
