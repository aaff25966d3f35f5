CONSTANTS
  Requests = {r1, r2}
  Kinds <- AllKinds
  Total = 5
  MinItems = 1
  MaxItems = 3
  Services = {"s1", "s2"}
  RouterService = "router"
  HeavyThreads = 2
  SendOutcomes = {"sent", "false", "throw"}
  MaxUpdates = 1
SPECIFICATION FairSpec
INVARIANT TypeOK
INVARIANT NothingLost
INVARIANT NoItemTwice
INVARIANT OneService
PROPERTY RequestsReturn
CHECK_DEADLOCK FALSE
