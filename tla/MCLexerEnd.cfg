SPECIFICATION Spec
CONSTANTS
  Char <- MCChar
  MaxLength = 2
INVARIANT EndOfBufferIsEnd
