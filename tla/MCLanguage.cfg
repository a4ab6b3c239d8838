SPECIFICATION Spec
CONSTANTS
  Keyboards <- AllKeyboards
  Rows <- AllRows
INVARIANTS
  ModeAgrees
  SlicesReparse
  ParserFollowsGrammar
  LabelsParseBack
  PredicatesAreKleene
  ConstraintsInAnyOrder
