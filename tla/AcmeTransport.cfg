SPECIFICATION Spec
CONSTANTS
  c1 = c1
  c2 = c2
  c3 = c3
  NoCall = NoCall
  Calls = {c1, c2}
  Retries = 2
  MaxNonce = 6
INVARIANTS
  TypeOK
  AtMostOnce
  ResultsAreTrue
  GiveUpNeedsExpiry
PROPERTIES
  CallsReturn
  ImplementsAtMostOnce
CHECK_DEADLOCK FALSE
