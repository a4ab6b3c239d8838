SPECIFICATION SpecOneSave
CONSTANTS
  Callers = {a, b}
  NoSave = NoSave
  NoSnapshot = NoSnapshot
  AutoSaveModes = {"off", "on-commit", "after-mutation"}
  MaxVersions = 1
INVARIANTS
  CleanMeansSaved
