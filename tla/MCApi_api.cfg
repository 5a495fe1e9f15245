CONSTANTS
  w1 = w1
  w2 = w2
  module1 = module1
  namespace1 = namespace1
  job1 = job1
  user1 = user1
  user2 = user2
  Workers = {w1, w2}
  Modules = {module1}
  Functions <- SomeFunctions
  Offers <- SomeOffers
  StaticMount <- Mounted
  Absent = Absent
  Users = {user1, user2}
  Namespaces = {namespace1}
  Pipelines <- SomePipelines
  Uses <- SomeUses
  Jobs = {job1}
  RunIds = {1}
  Calls <- SomeCalls
  RangeSize = 2
  MaxCalls = 2
  MaxEvents = 5
SPECIFICATION Spec
SYMMETRY Sym
INVARIANTS TypeOK HostsAreListed RegisteredIsOffered  
CHECK_DEADLOCK FALSE
