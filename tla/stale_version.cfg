CONSTANTS
  s1 = s1
  s2 = s2
  Services = {s1}
  Models = {1}
  Versions = {1, 2}
  Posts <- TwoVersions
  Handlers = {h1}
  Workers = {w1, w2, w3}
  LoadOutcomes = {TRUE}
  AdminOps = {}
  DefaultWeight = 5
  StaticWeights = {3}
  AlwaysTrust = TRUE
  ClientWaits = FALSE
  MaxCalls = 2
  NoService = NoService
  NoVersion = NoVersion
  NoRecord = NoRecord
  NoSet = NoSet
  NoThread = NoThread
  NoPost = NoPost
SPECIFICATION Spec
INVARIANT PostedVersionServed
CHECK_DEADLOCK FALSE
