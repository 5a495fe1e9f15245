CONSTANTS
  MaxNumOfSupervisors = 1
  BacklogRoom = 2
  NumModules = 1
  Cap = 1
  Dispatches = 2
  MayStop = FALSE
SPECIFICATION Spec
INVARIANTS KeptUntilDeleted 
CHECK_DEADLOCK FALSE
