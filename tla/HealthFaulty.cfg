SPECIFICATION FairSpec
CONSTANTS
  Procs = {q1, q2}
  Keys = {k1}
  Absent = Absent
  NoProc = NoProc
  OpenAfter = 1
  Cooldown = 1
  MaxCooldown = 1
  LockTimeout = 1
  DiskErrors = TRUE
  MaxCrashes = 1
PROPERTIES SkipHasRecentFailure OperationsEnd
