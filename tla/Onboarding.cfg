CONSTANTS
  Request = {r1, r2, r3, r4}
  Actor = {maker, checker}
  NoActor = NoActor
  Ref = {ref}
  NoRef = NoRef
  Factors <- MCFactors
  NoRisk = NoRisk
SPECIFICATION Spec
INVARIANTS
  TypeOK
  MakerChecker
  OkIsTrue
  RefsUnique
  RiskOrdered
SYMMETRY Symmetry
