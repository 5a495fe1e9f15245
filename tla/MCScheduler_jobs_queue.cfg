CONSTANTS
  nightly = nightly
  hourly = hourly
  NoFilter = NoFilter
  Store = "mongodb"
  JobIds = {nightly, hourly}
  Stored <- MixedJobs
  LastStored = 2
  Intervals = {1}
  Asks = {"queue", "delete"}
  Outcomes = {"ok", "timeout"}
  Cap = 1
  MaxRequests = 2
  MaxClock = 3
SPECIFICATION Spec
INVARIANTS ProvisionedInOrder QueuedOncePerMinute DeletedJobQueuedOnce
CHECK_DEADLOCK FALSE
