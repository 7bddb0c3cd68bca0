SPECIFICATION TestSpec
CONSTANTS
  MaxBytes = 4
  Programs <- MCPrograms
  Sources <- MCSources
  optree <- Tree
  instrDefinitions <- Definitions
INVARIANTS
  InstructionsTile
  LengthIsParts
  RestIsShort
  DecodesIffExpressible
PROPERTIES
  GetsFurther
