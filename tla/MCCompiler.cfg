SPECIFICATION MainSpec
CONSTANTS
  Name = {"Main", "S8", "F64"}
  NoName = NoName
  Operator = {"Plus"}
  MaxTokens = 9
  PrefixOf <- MCPrefixOf
  Types <- MCTypes
  MainName = "Main"
  RestOfFile = 20
  BufferSize = 4096
INVARIANTS
  WrittenIffCompilable
  ParametersArrive
  Custody
PROPERTIES
  ImplementsDriver
  MainTermination
