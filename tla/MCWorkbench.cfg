SPECIFICATION Spec
CONSTANTS
  Names = {demo, other}
  Demo = demo
  NoPath = NoPath
  NoFile = NoFile
  NoSnapshot = NoSnapshot
  Rejected = Rejected
  MaxVersions = 3
  MaxRefusals = 1
  Texts <- SqlTexts
  InitialSql <- Initial
  ExampleSql <- Examples
  NoTab = NoTab
  MaxRecords = 3
  Users <- AllUsers
  Loading = Loading
  NoWarning = NoWarning
INVARIANTS
  TypeOK
  ShownIsReal
  CleanMeansStored
  MenuKeepsTransactions
  OneActiveTab
  DetailsHaveEntries
  GoneStaysGone
PROPERTIES
  ReloadKeepsTabs
