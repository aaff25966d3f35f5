CONSTANTS
  h1 = h1
  h2 = h2
  Threads = {t1, t2}
  Lists <- OneHost
  Options <- SomeMethods
  Outcomes = {"ok", "timeout"}
  ConnectionRetry = 1
  TimeoutRetry = 0
  MaxConn = 2
  LocalIp = 8
  DiffRange = 1
  Idc = "y"
  MaxCalls = 1
  MaxUpdates = 1
  MaxBreaks = 1
  NoList = NoList
  NoAddress = NoAddress
SPECIFICATION FairSpec
INVARIANT TypeOK
INVARIANT AttemptsBounded
INVARIANT LostOnlyToBreaks
INVARIANT RoutedAsSelected
INVARIANT RoundRobinEven
PROPERTY SelectionAdvances
PROPERTY CallReturns
CHECK_DEADLOCK FALSE
