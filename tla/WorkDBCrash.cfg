CONSTANTS
  t1 = t1
  t2 = t2
  build = build
  fuzz = fuzz
  Tasks = {t1, t2}
  WorkTypes = {build, fuzz}
  Requests <- TwoTypeRequests
  MaxJobs = 2
  MaxCrashes = 1
  MaxFailures = 0
  Limit <- One
  BatchLimit <- One
  Attempts <- Two
  BATCHSIZE = 1
  Cancellable = {}
  Expirable <- Nothing
  Interruptible = {}
  AwaitingCallers = TRUE
SPECIFICATION FairSpec
INVARIANTS NothingLost LimitsRespected
PROPERTIES RowsMoveForward Served
CHECK_DEADLOCK FALSE
