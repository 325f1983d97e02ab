CONSTANTS
  w1 = w1
  w2 = w2
  Worker = {w1, w2}
  Job = {m1, u1}
  Unroutable = {u1}
  NoOwner = NoOwner
  Gone = Gone
  NoJob = NoJob
  Ahead = 1
  Skew <- MCSkew
  MaxSkew = 1
  LeaseTime = 2
  MaxAge = 3
  MaxDelay = 2
  Limit = 2
  BackoffBase = 1
  BackoffCap = 2
  MaxAttempts = 1
  Faults = {"stop", "dbError", "lostReply"}
SPECIFICATION FairSpec
INVARIANTS
  TypeOK
  ExclusiveWithinLease
PROPERTIES
  AtLeastOnceSpec
  AttemptFromFreshClaim
  SendsWithinLease
  EventuallyDelivered
