----------------------------- MODULE MCCodegen -----------------------------
(* Trees the parser builds: root, and up to two procedures defined in it.  *)
EXTENDS Codegen

MCTypes ==
  << [name |-> "S8", size |-> 1, kind |-> "IntType"],
     [name |-> "S64", size |-> 8, kind |-> "IntType"],
     [name |-> "F64", size |-> 8, kind |-> "FloatType"] >>

Operands(operands, operations) == [operands |-> operands, operations |-> operations]

Parameter(type) == [type |-> type, textLength |-> 1, init |-> Operands(<< >>, << >>)]
Statement(init, length) == [type |-> 2, textLength |-> length, init |-> init]

Procedure(name, inputs, outputs, statements) ==
  LET parameters == [k \in DOMAIN (inputs \o outputs) |-> Parameter((inputs \o outputs)[k])]
  IN  [name       |-> name,
       variables  |-> parameters \o statements,
       statements |-> [k \in DOMAIN statements |-> Len(parameters) + k],
       procedures |-> << >>,
       inputCount |-> Len(inputs)]

Tree(procedures) ==
  << [name |-> "", variables |-> << >>, statements |-> << >>, inputCount |-> 0,
      procedures |-> [k \in DOMAIN procedures |-> k + 1]] >> \o procedures

(* Statements over a first variable: a literal, a copy, a product, sums.   *)
Statements == {
  << Statement(Operands(<<0>>, << >>), 3) >>,
  << Statement(Operands(<<1>>, << >>), -1) >>,
  << Statement(Operands(<<1, 1>>, <<"Asterisk">>), 4) >>,
  << Statement(Operands(<<1, 1>>, <<"Plus">>), 4) >>,
  << Statement(Operands(<<0, 1, 1>>, <<"Plus", "Minus">>), 4) >> }

UpTo(S, n)  == UNION {[1 .. k -> S] : k \in 0 .. n}
AllIntegers == {[k \in 1 .. n |-> 2 - (k % 2)] : n \in 5 .. 7}

WithInputs ==
  {Procedure(name, inputs, outputs, << >>) :
     name \in {"Main", "f"}, inputs \in UpTo({0, 1, 2, 3}, 3) \cup AllIntegers,
     outputs \in UpTo({1, 2}, 1)}
WithStatements ==
  {Procedure("f", <<1>>, outputs, statements) :
     outputs \in UpTo({1, 2}, 1), statements \in Statements}

First    == {Procedure("Main", << >>, << >>, << >>), Procedure("f", <<1, 1>>, << >>, << >>)}
(* The tree of test.sky.                                                   *)
Sample ==
  Tree(<< Procedure("f", <<2, 2>>, <<2>>, << Statement(Operands(<<1, 2>>, <<"Plus">>), 4) >>),
          Procedure("Main", << >>, << >>, << Statement(Operands(<<0, 0>>, <<"Plus">>), 4) >>) >>)

MCPrograms ==
  {Tree(<< >>), Sample}
    \cup {Tree(<<p>>) : p \in WithInputs \cup WithStatements}
    \cup {Tree(<<p, q>>) : p \in First, q \in WithInputs \cup WithStatements}

=============================================================================
