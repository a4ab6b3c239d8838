SPECIFICATION SpecFaults
CONSTANTS
  Bounds <- AllFaults
INVARIANTS
  AckedSurvives
PROPERTIES
  LoadIsRecent
  LoadsNeverGoBack
  LastReadableKept
CHECK_DEADLOCK FALSE
