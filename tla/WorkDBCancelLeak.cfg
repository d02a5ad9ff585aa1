CONSTANTS
  t1 = t1
  t2 = t2
  build = build
  fuzz = fuzz
  Tasks = {t1, t2}
  WorkTypes = {build}
  Requests <- MixedRequests
  MaxJobs = 2
  MaxCrashes = 0
  MaxFailures = 0
  Limit <- Two
  BatchLimit <- Two
  Attempts <- Two
  BATCHSIZE = 1
  Cancellable = {t1}
  Expirable <- Nothing
  Interruptible = {}
  AwaitingCallers = TRUE
SPECIFICATION FairSpec
PROPERTIES CancelledJobsSettle
CHECK_DEADLOCK FALSE
