SPECIFICATION Spec
CONSTANTS
  r1 = r1
  r2 = r2
  None = None
  Runs = {r1, r2}
  MaxSuffix = 2
  MaxSecond = 1
INVARIANTS
  DownloadedIsWritten
CHECK_DEADLOCK FALSE
