SPECIFICATION FairSpec
CONSTANTS
  Products = {1, 2, 3}
  Selections = {{1, 2, 3}, {1, 2}}
  Concurrency = 2
  Timeout = 1
  MaxRuns = 2
INVARIANTS FinishedIsComplete
PROPERTIES SuccessesSurvive RecordsAreHonest RunTerminates
CHECK_DEADLOCK FALSE
