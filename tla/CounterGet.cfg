CONSTANTS
  Coros = {c1, c2}
  Calls = {"get", "fetch_add"}
  Amounts = {1}
  MaxCrashes = 0
  None = None
SPECIFICATION Spec
INVARIANTS CacheIsTable
CHECK_DEADLOCK FALSE
