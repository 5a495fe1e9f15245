CONSTANTS
  first = first
  second = second
  third = third
  Conns = {first, second}
  Nobody = Nobody
  MaxClients = 1
  Cap = 1
  MaxSends = 2
SPECIFICATION FairSpec
PROPERTIES SendReturnsUnlessGone 
CHECK_DEADLOCK FALSE
