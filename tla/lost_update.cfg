CONSTANTS
  Services = {a, b}
  Names = {n1}
  Edge = {}
  Sharded = {}
  Shards = {}
  Partitions = {p1}
  DefaultShard = 0
  Workers = {w1, w2}
  Slots = {1, 2}
  MaxChanges = 0
  MaxFailures = 0
  NoEntry = NoEntry
SPECIFICATION Spec
PROPERTY UpdatesIndependent
