CONSTANTS
  v1 = v1
  p1 = p1
  q1 = q1
  None = None
  Vulns = {v1}
  Reported = {v1}
  Patches = {p1}
  Povs = {q1}
  Slots = {1, 2}
  VulnOf <- OneVuln
  Ratio = 2
  Delta = FALSE
  Verdicts = {"failed", "errored"}
  MaxVerdicts = 1
  MaxTroubles = 1
SPECIFICATION Spec
CHECK_DEADLOCK FALSE
INVARIANTS Accounted NothingLeftUndone
PROPERTIES BundlesAreVetted
