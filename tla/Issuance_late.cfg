SPECIFICATION Spec
CONSTANTS
  PollTimeout = 6
  PollInterval = 1
  MinLifetime = 6
  MaxLifetime = 7
  MaxLatency = 1
  Retries = 2
  MaxListed = 2
  None = None
INVARIANTS
  NoAnswerDiscarded
CHECK_DEADLOCK FALSE
