CONSTANTS
  Services = {s1}
  Values = {v1}
  Clients = {c1}
  Ops = {"register", "unregister"}
  Slots = {1, 2}
  MaxCalls = 2
  MaxFailures = 0
  NoServer = NoServer
  NoService = NoService
  NoRequest = NoRequest
  NoThread = NoThread
  Evb = Evb
SPECIFICATION FairSpec
PROPERTY UnregistrationEnds
CHECK_DEADLOCK FALSE
