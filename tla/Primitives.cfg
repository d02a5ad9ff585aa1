CONSTANTS
  None = None
  Clients = {c1, c2, c3, c4}
  Priorities = {0, 1}
  N = 2
  Tasks = {k1, k2}
  quantum = 2
  wakeup = 1
  tickrate = 0
  StartTime = 1
  MaxTime = 2
  MaxSlots = 2
  MaxQueue = 3
  Coros = {c1, c2, c3}
  Calls = {"get", "fetch_add", "set"}
  Amounts = {1, 3}
  MaxCrashes = 1
  Jobs = {c1, c2, c3}
  Failing = {c2}
  batchsize = 2
  MaxRaises = 1
  MaxStops = 1
  Callers = {c1, c2, c3}
  Keys = {k1, k2, k3, k4}
  Locks = {l1, l2, l3}
  Uncached = {k3}
  maxsize = 1
SPECIFICATION PrimitivesSpec
INVARIANTS SemaphoreKept QueueKept CountersHold SharedCalls
PROPERTIES InOrder Refines
CHECK_DEADLOCK FALSE
