SPECIFICATION Spec
CONSTANTS
  r1 = r1
  r2 = r2
  r3 = r3
  c1 = c1
  None = None
  Runs = {r1, r2, r3}
  Checks = {c1}
SYMMETRY Symmetry
INVARIANTS
  TypeOK
  SoleRunLeavesItsPair
PROPERTIES
  VerdictIsTrue
CHECK_DEADLOCK FALSE
