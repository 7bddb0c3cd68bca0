SPECIFICATION Spec
CONSTANTS
  Programs <- MCPrograms
  Types <- MCTypes
  MainName = "Main"
  RestOfFile = 20
  BufferSize = 4096
INVARIANTS
  ArgumentsFromRegisters
