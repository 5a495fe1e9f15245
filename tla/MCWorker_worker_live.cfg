CONSTANTS
  MaxNumOfSupervisors = 1
  BacklogRoom = 1
  NumModules = 1
  Cap = 1
  Dispatches = 1
  MayStop = TRUE
SPECIFICATION FairSpec
PROPERTIES  TeardownEnds
CHECK_DEADLOCK FALSE
