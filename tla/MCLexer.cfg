SPECIFICATION Spec
CONSTANTS
  Char <- MCChar
  MaxLength = 5
INVARIANTS
  TypeOK
  Tiling
  MaximalMunch
PROPERTIES
  ImplementsTokenStream
