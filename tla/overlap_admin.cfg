CONSTANTS
  s1 = s1
  s2 = s2
  Services = {s1}
  Models = {1}
  Versions = {1, 2}
  Posts <- OverlapPosts
  Handlers = {h1, h2}
  Workers = {w1, w2}
  LoadOutcomes = {TRUE, FALSE}
  AdminOps = {"register", "unregister", "weight", "work_mode", "stress", "shutdown"}
  DefaultWeight = 5
  StaticWeights = {3}
  AlwaysTrust = FALSE
  ClientWaits = FALSE
  MaxCalls = 2
  NoService = NoService
  NoVersion = NoVersion
  NoRecord = NoRecord
  NoSet = NoSet
  NoThread = NoThread
  NoPost = NoPost
SPECIFICATION FairSpec
INVARIANT TypeOK
INVARIANT BoundModelsServable
INVARIANT RouterMatchesServiceMap
PROPERTY ServingSpec
CHECK_DEADLOCK FALSE
 
