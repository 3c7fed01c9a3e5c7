SPECIFICATION Spec
CONSTANTS
  Worker = {w1, w2}
  Items <- MCItems
  Value = {1}
  Whole = TRUE
  MaxUpdates = 3
INVARIANTS ReEvaluationsReach SummariesHeal
PROPERTY AssignedKindsAreSafe
CHECK_DEADLOCK FALSE
