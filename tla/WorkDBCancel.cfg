CONSTANTS
  t1 = t1
  t2 = t2
  build = build
  fuzz = fuzz
  Tasks = {t1, t2}
  WorkTypes = {build}
  Requests <- MixedRequests
  MaxJobs = 2
  MaxCrashes = 0
  MaxFailures = 0
  Limit <- Two
  BatchLimit <- One
  Attempts <- Two
  BATCHSIZE = 2
  Cancellable = {t1}
  Expirable <- ShortLived
  Interruptible = {build}
  AwaitingCallers = TRUE
SPECIFICATION Spec
INVARIANTS Accounted Covered
PROPERTIES NoEntryAfterCancel ImplementsJobQueue
CHECK_DEADLOCK FALSE
