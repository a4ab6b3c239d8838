SPECIFICATION SpecScripts
CONSTANTS
  Callers = {a, b}
  NoSave = NoSave
  NoSnapshot = NoSnapshot
  MaxVersions = 2
  AutoSaveModes = {"off", "on-commit"}
  ScriptCalls <- Calls
INVARIANTS
  ScriptsTypeOK
  CleanIsSaved
  AutoSaved
  FileIsCommitted
  ReportsMatchEffects
PROPERTIES
  ImplementsAsyncDatabase
SYMMETRY Symmetry
