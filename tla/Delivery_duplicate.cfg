CONSTANTS
  w1 = w1
  w2 = w2
  Worker = {w1, w2}
  Job = {m1, m2, m3}
  Unroutable = {}
  NoOwner = NoOwner
  Gone = Gone
  NoJob = NoJob
  Ahead = 0
  Skew <- MCSkew
  MaxSkew = 0
  LeaseTime = 2
  MaxAge = 3
  MaxDelay = 2
  Limit = 2
  BackoffBase = 1
  BackoffCap = 2
  MaxAttempts = 1
  Faults = {}
SPECIFICATION Spec
INVARIANTS
  NoDuplicateDelivery
