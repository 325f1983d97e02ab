CONSTANTS
  c1 = c1
  c2 = c2
  ref = ref
  Request = {r1, r2, r3}
  Key = {k1, k2}
  Customer = {c1, c2}
  Payload <- MCPayload
  NoTxn = NoTxn
  NoRef = NoRef
  LargeAmount = 2
  HighRiskCountry = {"IR"}
SPECIFICATION Spec
INVARIANTS
  TypeOK
  RecordsComplete
  AnswersTrue
  NeverStuck
PROPERTIES
  LedgerSpec
SYMMETRY Symmetry
