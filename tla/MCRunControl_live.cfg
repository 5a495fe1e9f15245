CONSTANTS
  MaxRequests = 3
  Cap = 1
  RangeSize = 5
  w1 = w1
  w2 = w2
  NoWorker = NoWorker
  Workers <- TwoWorkers
  Placements <- Everywhere
  Workload <- OperatorAndWorker
  RunArgs = {1}
  Reports <- AllReports
SPECIFICATION FairSpec
INVARIANT LoadCoversRuns
 
CHECK_DEADLOCK FALSE
