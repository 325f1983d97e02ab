CONSTANTS
  c1 = c1
  c2 = c2
  ref = ref
  Request = {r1, r2}
  Key = {k1}
  Customer = {c1}
  Payload <- ReplayPayload
  NoTxn = NoTxn
  NoRef = NoRef
  LargeAmount = 2
  HighRiskCountry = {"IR"}
SPECIFICATION Spec
INVARIANTS
  ReplayReturnsOriginal
