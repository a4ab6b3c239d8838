SPECIFICATION ApiSpec
CONSTANTS
  TableNames = {"parent", "child"}
  ColumnNames = {"id", "ref"}
  DataTypes = {"INTEGER", "TEXT"}
  ValuesOf <- TwoTypes
  CreateRequests <- Recreated
  MaxRows = 1
  JsonOf <- JsonValues
  zero = zero
  minusZero = minusZero
  one = one
  text = text
  Null = Null
  NoReference = NoReference
  NoSnapshot = NoSnapshot
INVARIANTS
  RollbackPossible
