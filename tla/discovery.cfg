CONSTANTS
  Services = {a}
  Names = {n1, e1}
  Edge = {e1}
  Sharded = {}
  Shards = {}
  Partitions = {p1}
  DefaultShard = 0
  Workers = {w1}
  Slots = {1}
  MaxChanges = 1
  MaxFailures = 1
  NoEntry = NoEntry
SPECIFICATION FairSpec
INVARIANT TypeOK
INVARIANT PartitionsTracked
PROPERTY ShardsStayRoutable
PROPERTY CacheFollowsServers
 
