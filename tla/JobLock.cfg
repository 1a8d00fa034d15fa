\* Safety and liveness of the job lock: three competing runs, no symmetry.
SPECIFICATION LiveSpec
CONSTANTS
  p1 = p1  p2 = p2  p3 = p3  v1 = v1  v2 = v2  v3 = v3  v4 = v4
  Runs <- MCRuns
  LockValues <- MCLockValues
  NoValue = NoValue
INVARIANTS
  AtMostOneLateCommit
PROPERTIES
  LiveLeaseIsRespected
  JobRunsAgain
