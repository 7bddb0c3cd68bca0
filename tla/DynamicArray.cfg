SPECIFICATION Spec
CONSTANTS
  Array = {variables, statements}
  Element = {x, y}
  Garbage = Garbage
  Address = {p1, p2, p3}
  Null = Null
  Growth = 2
  MaxCount = 5
CHECK_DEADLOCK FALSE
INVARIANTS
  TypeOK
  StorageHoldsElements
  StorageOwned
PROPERTIES
  ImplementsAppendOnly
