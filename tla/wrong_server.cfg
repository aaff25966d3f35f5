\* Two servers of one machine listen on adjacent ports.
CONSTANTS
  h1 = h1
  h2 = h2
  Threads = {t1}
  Lists <- Adjacent
  Options <- RandomOnly
  Outcomes = {"ok", "timeout"}
  ConnectionRetry = 1
  TimeoutRetry = 0
  MaxConn = 2
  LocalIp = 8
  DiffRange = 1
  Idc = "y"
  MaxCalls = 2
  MaxUpdates = 0
  MaxBreaks = 0
  NoList = NoList
  NoAddress = NoAddress
SPECIFICATION Spec
INVARIANT RoutedAsSelected
CHECK_DEADLOCK FALSE
