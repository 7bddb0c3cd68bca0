SPECIFICATION Spec
CONSTANTS
  Name = {"S", "Sx"}
  NoName = NoName
  Operator = {"Plus"}
  MaxTokens = 12
  PrefixOf <- MCPrefixOf
  Types <- MCTypes
INVARIANTS
  TypeOK
  ScopeFollowsStack
  ProceduresAttachedOnce
  ParametersPrecedeStatements
  DefineBeforeUse
  StatementText
PROPERTIES
  FinishedBlocksFrozen
  Termination
