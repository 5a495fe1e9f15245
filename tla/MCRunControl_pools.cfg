CONSTANTS
  MaxRequests = 3
  Cap = 1
  RangeSize = 1
  w1 = w1
  w2 = w2
  NoWorker = NoWorker
  Workers <- TwoWorkers
  Placements <- Everywhere
  Workload <- Mixed
  RunArgs = {0, 2}
  Reports <- NormalReports
SPECIFICATION Spec
INVARIANTS AtMostOneAnswer RunnerStoreIsAwaited DispatchedOnceAsRecorded  ActiveWasDispatched
PROPERTY StopHitsNamedRun
SYMMETRY WorkerSymmetry
CHECK_DEADLOCK FALSE
