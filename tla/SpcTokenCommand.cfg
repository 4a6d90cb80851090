SPECIFICATION Spec
CONSTANTS
  r1 = r1
  r2 = r2
  r3 = r3
  None = None
  Runs = {r1, r2, r3}
  Settings <- SomeSettings
  Diagnostics = 2
SYMMETRY Symmetry
INVARIANTS
  TypeOK
  FilesAreAsAsked
  TokenVouches
CHECK_DEADLOCK FALSE
