SPECIFICATION FairSpec
CONSTANTS
  Bounds <- CrashesAndErrors
INVARIANTS
  TypeOK
PROPERTIES
  ImplementsStore
  Reopens
CHECK_DEADLOCK FALSE
