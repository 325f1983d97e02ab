CONSTANTS
  w1 = w1
  w2 = w2
  Worker = {w1, w2}
  Job = {c1}
  Owner = {o1}
  Intervals = {1, 2}
  NoOwner = NoOwner
  Gone = Gone
  NoJob = NoJob
  Ahead = 1
  Skew <- MCSkew
  MaxSkew = 1
  LeaseTime = 2
  MaxAge = 3
  MaxDelay = 2
  Limit = 2
  BackoffBase = 2
  BackoffCap = 2
  MaxFailures = 1
  MaxConfigs = 2
  Faults = {"stop", "dbError"}
SPECIFICATION FairSpec
INVARIANTS
  TypeOK
  ExclusiveWithinLease
PROPERTIES
  OperatorConfigKept
  OwnersEventuallyScreened
