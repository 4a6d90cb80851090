SPECIFICATION Spec
CONSTANTS
  r1 = r1
  r2 = r2
  None = None
  Runs = {r1, r2}
  MaxSuffix = 2
  MaxSecond = 2
INVARIANTS
  TypeOK
  DirectoryClaimedFirst
  IndexComesLast
  ExitMatchesArtifacts
  RefusedOnlyWithinSecond
PROPERTIES
  ArtifactsNeverChange
  RunsEnd
  ImplementsPromise
CHECK_DEADLOCK FALSE
