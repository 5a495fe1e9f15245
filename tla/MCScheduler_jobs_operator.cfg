CONSTANTS
  nightly = nightly
  hourly = hourly
  NoFilter = NoFilter
  Store = "sqlite"
  JobIds = {nightly, hourly}
  Stored <- TwoJobs
  LastStored = 2
  Intervals = {0, 1}
  Asks = {"jobs", "create", "delete"}
  Outcomes = {"ok", "timeout"}
  Cap = 1
  MaxRequests = 1
  MaxClock = 2
SPECIFICATION FairSpec
PROPERTIES WatchGetsLock ProvisionedUnlessStuck OperatorIsAnswered
CHECK_DEADLOCK FALSE
