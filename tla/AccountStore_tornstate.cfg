SPECIFICATION Spec
CONSTANTS
  p1 = p1
  p2 = p2
  k1 = k1
  k2 = k2
  k3 = k3
  e1 = e1
  e2 = e2
  None = None
  Torn = Torn
  Envs = {e1, e2}
  Procs = {p1, p2}
  Keys = {k1, k2, k3}
  InodeCount = 5
  MaxRuns = 3
  Removable = {}
INVARIANTS
  CacheIsWhole
CHECK_DEADLOCK FALSE
