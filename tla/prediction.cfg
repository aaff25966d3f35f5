CONSTANTS
  r1 = r1
  r2 = r2
  ma = ma
  mb = mb
  Requests = {r1, r2}
  ModelsOf <- TwoRequests
  Models = {ma, mb}
  Loaded = {mb}
  Tensorflow = {mb}
  Total = 3
  BadItems = {1}
  MinItems = 1
  TaskNums = {1, 2}
  Sizes = {1, 2}
  Percents <- SecondOnly
  MaxThrows = 1
  MaxLoads = 1
  MaxResets = 1
  MaxUpdates = 1
SPECIFICATION FairSpec
INVARIANT TypeOK
INVARIANT OneFreshModel
INVARIANT EveryItemAnswered
PROPERTY RequestsReturn
CHECK_DEADLOCK FALSE
