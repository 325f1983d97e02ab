CONSTANTS
  Request = {r1, r2, r3, r4, r5}
  Alert = {a1}
  Operations = {"create", "assign", "comment", "resolve", "close"}
SPECIFICATION Spec
INVARIANTS
  TrailExplainsTables
  ChecksHold
  AnswersTrue
  NeverStuck
PROPERTIES
  WorkflowSpec
SYMMETRY Symmetry
