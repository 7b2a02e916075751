CONSTANTS
  Partitions = {pa, pb}
  Ops = {w1, w2, w3}
  MaxPartitions = 1
  MaxTables = 2
SPECIFICATION FairSpec
CHECK_DEADLOCK FALSE
INVARIANTS CounterExact PartitionLimit QuerySeesUnpersisted
PROPERTY PermitsReturn
