CONSTANTS
  Replica = {p1, p2}
  NoReplica = NoReplica
  Releases = {1, 2}
  MaxFaults = 1
  Client = {c1}
  Burst = 2
  Cost = 2
  Rate = 1
  PruneEvery = 1
  PruneAfter = 2
SPECIFICATION FairSpec
INVARIANTS
  TypeOK
  MigratedOnce
PROPERTIES
  BucketSpec
  EventuallyServes
