SPECIFICATION Spec
CONSTANTS
  Names = {demo, other}
  Demo = demo
  NoPath = NoPath
  NoFile = NoFile
  NoSnapshot = NoSnapshot
  Rejected = Rejected
  MaxVersions = 3
  MaxRefusals = 1
  Texts <- SqlTexts
  InitialSql <- Initial
  ExampleSql <- Examples
  NoTab = NoTab
  MaxRecords = 3
  Users <- PaletteUsers
  Loading = Loading
  NoWarning = NoWarning
INVARIANT
  TransactionKept
