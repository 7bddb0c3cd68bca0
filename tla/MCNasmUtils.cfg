SPECIFICATION AsmSpec
CONSTANTS
  W = 2
  Arguments <- MCArguments
  Garbage <- MCGarbage
INVARIANTS
  Spells
  RestoresCaller
PROPERTIES
  PrintReturns
