CONSTANTS
  Request = {r1, r2, r3}
  Actor = {maker, checker}
  NoActor = NoActor
  Ref = {ref}
  NoRef = NoRef
  Factors <- MCFactors
  NoRisk = NoRisk
SPECIFICATION Spec
INVARIANT
  IndependentReview
SYMMETRY Symmetry
