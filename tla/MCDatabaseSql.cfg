SPECIFICATION Spec
CONSTANTS
  TableNames = {"parent", "child"}
  ColumnNames = {"id", "ref"}
  DataTypes = {"INTEGER", "DECIMAL"}
  ValuesOf <- TwoNumbers
  CreateRequests <- ParentAndChild
  MaxRows = 2
  JsonOf <- JsonValues
  zero = zero
  minusZero = minusZero
  one = one
  text = text
  Null = Null
  NoReference = NoReference
  NoSnapshot = NoSnapshot
INVARIANTS
  ConstraintsHold
  RollbackPossible
  StateSaveable
  CleanIsSaved
CONSTRAINTS
  TreeIsAlone
  RoomIsLeft
