CONSTANTS
  s1 = s1
  s2 = s2
  Services = {s1, s2}
  Models = {1, 2}
  Versions = {1, 2}
  Posts <- ThreePosts
  Handlers = {h1}
  Workers = {w1, w2}
  LoadOutcomes = {TRUE, FALSE}
  AdminOps = {}
  DefaultWeight = 5
  StaticWeights = {3}
  AlwaysTrust = TRUE
  ClientWaits = TRUE
  MaxCalls = 3
  NoService = NoService
  NoVersion = NoVersion
  NoRecord = NoRecord
  NoSet = NoSet
  NoThread = NoThread
  NoPost = NoPost
SPECIFICATION FairSpec
INVARIANT Converged
INVARIANT ReportedVersionServed
INVARIANT ReportedWeightPublished
 
PROPERTY RegistersPostedVersion
CHECK_DEADLOCK FALSE
