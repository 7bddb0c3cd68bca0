----------------------------- MODULE MCCompiler -----------------------------
EXTENDS Compiler

(* No name begins another; "Main" is no type, "S8" and "F64" are.          *)
MCPrefixOf == {<<name, name>> : name \in Name}

MCTypes ==
  << [name |-> "S8", size |-> 1, kind |-> "IntType"],
     [name |-> "S64", size |-> 8, kind |-> "IntType"],
     [name |-> "F64", size |-> 8, kind |-> "FloatType"] >>
=============================================================================
