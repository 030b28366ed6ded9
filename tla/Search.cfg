SPECIFICATION Spec
CONSTANTS
  OpenAfter = 2
  Cooldown = 1
  MaxCooldown = 1
  Providers <- MCProviders
  Skips <- MCSkips
  SharedProviders = {2}
  QualityGate = {2}
  ShortCircuit = {1}
  EmptyLimit <- MCEmptyLimit
  Timeout = 2
  Overrun = 1
  Total = 7
  Share = 2
  Least = 1
  Headroom = 1
  FailureLimit = 1
  BlockedCooldown = 1
  MaxReopens = 1
  Never = Never  Absent = Absent
INVARIANTS FairShare BlockedReopensBounded
