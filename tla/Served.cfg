CONSTANTS
  c1 = c1
  c2 = c2
  c3 = c3
  k1 = k1
  k2 = k2
  None = None
  Clients = {c1, c2, c3}
  Priorities = {0, 1}
  N = 1
SPECIFICATION ServedSpec
PROPERTIES EverybodyServed TasksSettle
CHECK_DEADLOCK FALSE
