SPECIFICATION SessionSpec
CONSTANTS
  OpenAfter = 2
  Cooldown = 1
  MaxCooldown = 1
  Threads = {t1, t2}
  Hosts = {h}
  Candidates <- MCCandidates
  Pages <- MCPages
  NoPage = NoPage
  NoHost = NoHost
  Timeout = 3
  Backoff = 1
  LeastRetry = 1
  LeastBrowser = 1
  MostBrowser = 2
  Overrun = 1
  StoreWait = 0
  NoClass = NoClass
  Absent = Absent
  Roots = 2
  MaxPages = 2
  Shown <- MCShown
  MaxHolders = 2
  Pool = {t1}
  NoThread = NoThread
INVARIANTS DeadlineKept DriverReturned ProfileReturned
PROPERTY BlamedForLastAnswer
