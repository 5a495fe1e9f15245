CONSTANTS
  first = first
  second = second
  third = third
  Conns = {first, second, third}
  Nobody = Nobody
  MaxClients = 2
  Cap = 1
  MaxSends = 1
SPECIFICATION Spec
SYMMETRY Sym
INVARIANTS OneOwner PoolHoldsTheRest 
CHECK_DEADLOCK FALSE
