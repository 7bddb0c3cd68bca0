SPECIFICATION Spec
CONSTANTS
  Programs <- MCPrograms
  Types <- MCTypes
  MainName = "Main"
  RestOfFile = 20
  BufferSize = 96
INVARIANTS
  BufferHolds
