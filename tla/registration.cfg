CONSTANTS
  Services = {s1, s2}
  Values = {v1, v2}
  Clients = {c1}
  Ops = {"register", "register_sync", "unregister", "unregister_sync", "unregister_all", "set_weight"}
  Slots = {1, 2}
  MaxCalls = 3
  MaxFailures = 1
  NoServer = NoServer
  NoService = NoService
  NoRequest = NoRequest
  NoThread = NoThread
  Evb = Evb
SPECIFICATION FairSpec
INVARIANT TypeOK
INVARIANT RegisteredBeats
PROPERTY HeartbeatNeverRevives
PROPERTY Published
CHECK_DEADLOCK FALSE
