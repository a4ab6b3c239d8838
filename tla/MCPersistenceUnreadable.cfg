SPECIFICATION Spec
CONSTANTS
  Bounds <- TwoReadsFail
INVARIANTS
  AckedSurvives
CHECK_DEADLOCK FALSE
