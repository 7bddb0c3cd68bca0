------------------------------ MODULE MCParser ------------------------------
EXTENDS Parser

(* "S" begins "Sx" and the names of the signed types, "Sx" no type's name.  *)
MCPrefixOf == {<<"S", "S">>, <<"S", "Sx">>, <<"Sx", "Sx">>, <<"S", "S8">>, <<"S", "S64">>}

MCTypes ==
  << [name |-> "S8", size |-> 1, kind |-> "IntType"],
     [name |-> "S64", size |-> 8, kind |-> "IntType"],
     [name |-> "F64", size |-> 8, kind |-> "FloatType"] >>
=============================================================================
