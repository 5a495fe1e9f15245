CONSTANTS
  Room = 2
  MaxBreaks = 3
  MaxSends = 3
SPECIFICATION FairSpec
INVARIANTS  DialsAreBounded
PROPERTIES Reconnects ClosesWhenTold SendReturns
CHECK_DEADLOCK FALSE
