SPECIFICATION Spec
CONSTANTS
  Tables <- AllTables
  Selects <- AllSelects
  Mutations <- AllMutations
  MaxRows = 3
  ScopedScalar <- RowScalar
  ScopedPredicate <- RowPredicate
  SubexpressionsOf <- PartsOf
  TextOf <- NameOf
  Texts <- AllTexts
  LocaleBefore <- TextComesBefore
INVARIANTS
  TypeOK
  JoinsAreComplete
  GroupsAreClasses
  OrderIsRespected
  MutationsTouchWhatSelectShows
