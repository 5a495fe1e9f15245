CONSTANTS
  Keys <- NamespaceEach
  NumFunctions = 1
  NumPipes = 1
  MaxRequests = 4
SPECIFICATION Spec
INVARIANTS OneOfEach OneRecordEach  AcknowledgedStatisticsAreShown
PROPERTY StoredAtOnce
CHECK_DEADLOCK FALSE
