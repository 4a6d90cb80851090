SPECIFICATION FairSpec
CONSTANTS
  p1 = p1
  k1 = k1
  k2 = k2
  k3 = k3
  k4 = k4
  e1 = e1
  e2 = e2
  None = None
  Torn = Torn
  Envs = {e1, e2}
  Procs = {p1}
  Keys = {k1, k2, k3, k4}
  InodeCount = 4
  MaxRuns = 3
  Removable = {"account.json"}
INVARIANTS
  TypeOK
  AccountKeyOnDisk
  CacheMatchesKey
PROPERTIES
  ImplementsAccountPromise
  Recovers
CHECK_DEADLOCK FALSE
