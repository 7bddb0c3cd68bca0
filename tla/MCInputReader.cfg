SPECIFICATION Spec
CONSTANTS
  Sources <- MCSources
INVARIANTS
  TypeOK
  DataIsInput
  ErrorsAreReal
PROPERTIES
  NoByteAfterError
