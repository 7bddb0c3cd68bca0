---------------------------- MODULE ParserProofs ----------------------------
(***************************************************************************)
(* What is proved of the parser for every set of names, every table of     *)
(* types and every length of the token stream.                             *)
(***************************************************************************)
EXTENDS Parser, TLAPS, SequenceTheorems, NaturalsInduction, WellFoundedInduction

(* A nonempty set of numbers has a least element, so SelectInSeq finds one. *)
LEMMA LeastIndex ==
  ASSUME NEW I \in SUBSET Nat, I # {}
  PROVE  Min(I) \in I
<1> DEFINE Less == {p \in Nat \X Nat : p[1] < p[2]}
<1>0. Less = OpToRel(<, Nat)
  BY Zenon DEF OpToRel
<1>1. PICK x \in I : \A y \in I : <<y, x>> \notin Less
  <2>1. IsWellFoundedOn(Less, Nat)
    BY <1>0, NatLessThanWellFounded
  <2> HIDE DEF Less
  <2> QED  BY <2>1, WFMin, Zenon
<1>2. ASSUME NEW y \in I  PROVE x <= y
  <2>1. ~(y < x)
    BY <1>1, <<y, x>> \in Nat \X Nat
  <2> QED  BY <2>1
<1> QED  BY <1>2 DEF Min

(* FindVariable returns 0 or the index of a variable of the block it searches. *)
LEMMA FindVariableRange ==
  ASSUME NEW block, NEW name, block.variables \in Seq(Variable)
  PROVE  FindVariable(name, block) \in {0} \cup DOMAIN block.variables
<1> DEFINE I == {i \in 1 .. Len(block.variables) : <<block.variables[i].name, name>> \in PrefixOf}
<1>1. FindVariable(name, block) = IF I # {} THEN Min(I) ELSE 0
  BY DEF FindVariable, SelectInSeq
<1>2. I \in SUBSET Nat /\ I \subseteq DOMAIN block.variables
  OBVIOUS
<1>3. I # {} => Min(I) \in I
  BY <1>2, LeastIndex
<1> QED  BY <1>1, <1>2, <1>3

(* FindTypeFromToken returns 0 or an index. *)
LEMMA FindTypeRange ==
  ASSUME NEW name
  PROVE  FindTypeFromToken(name) \in 0 .. Len(Types)
<1> USE TypesAssumption
<1> DEFINE I == {i \in 1 .. Len(Types) : <<name, Types[i].name>> \in PrefixOf}
<1>1. FindTypeFromToken(name) = IF I # {} THEN Min(I) ELSE 0
  BY DEF FindTypeFromToken, SelectInSeq
<1>2. I \in SUBSET Nat
  BY TypesAssumption
<1>3. I # {} => Min(I) \in I
  BY <1>2, LeastIndex
<1> QED  BY <1>1, <1>2, <1>3

(* Replacing a block by a block leaves a sequence of blocks of the same length. *)
LEMMA UpdateBlock ==
  ASSUME blocks \in Seq(Block), NEW b \in DOMAIN blocks, NEW new \in Block
  PROVE  /\ [blocks EXCEPT ![b] = new] \in Seq(Block)
         /\ DOMAIN [blocks EXCEPT ![b] = new] = DOMAIN blocks
  OBVIOUS

(* Adding a well-typed variable to a block gives a block. *)
LEMMA AddVariableType ==
  ASSUME NEW block \in Block, ident \in Identifier,
         NEW type \in 0 .. Len(Types), NEW init \in Expression, NEW length \in Int
  PROVE  AddVariable(block, type, init, length) \in Block
<1> DEFINE v == [name |-> ident.name, type |-> type, init |-> init,
                 text |-> ident.text, textLength |-> length]
<1>1. v \in Variable
  BY DEF Variable, Expression, Identifier
<1>2. block.variables \in Seq(Variable)
  BY DEF Block
<1>3. Append(block.variables, v) \in Seq(Variable)
  BY <1>1, <1>2
<1>4. AddVariable(block, type, init, length) = [block EXCEPT !.variables = Append(@, v)]
  BY DEF AddVariable, ArrayAdd
<1> HIDE DEF v
<1>5. [block EXCEPT !.variables = Append(@, v)] \in Block
  BY <1>3 DEF Block
<1> QED  BY <1>4, <1>5

-----------------------------------------------------------------------------
(***************************************************************************)
(* Types.  ParseStatement stores the difference of two counts; it is a     *)
(* natural number because the inputs were counted before the outputs.      *)
(***************************************************************************)
InputsCounted == \A b \in DOMAIN blocks : blocks[b].inputCount <= Len(blocks[b].variables)

TypeInv == TypeOK /\ InputsCounted

(* Reading a token keeps token and pos in their types. *)
LEMMA StreamType ==
  ASSUME token \in Token, pos \in 0 .. MaxTokens, LexNextToken
  PROVE  token' \in Token /\ pos' \in 0 .. MaxTokens
  BY MaxTokensAssumption
  DEF LexNextToken, NextLexeme, NextEndOfBuffer, Token

(* The initial state is typed. *)
LEMMA TypeInit == Init => TypeInv
<1> SUFFICES ASSUME Init PROVE TypeInv
  OBVIOUS
<1>1. EmptyBlock(NoName, 0) \in Block
  BY DEF EmptyBlock, Block
<1>2. blocks \in Seq(Block) /\ blocks # << >> /\ DOMAIN blocks = {1} /\ blocks[1] = EmptyBlock(NoName, 0)
  BY <1>1 DEF Init
<1>3. TypeOK
  BY <1>2, MaxTokensAssumption
  DEF Init, TypeOK, Token, Final, Point, Identifier, Expression, Frame, Root, NoExpr
<1>4. InputsCounted
  BY <1>2 DEF InputsCounted, EmptyBlock
<1> QED  BY <1>3, <1>4 DEF TypeInv

(* A step that leaves the blocks and the scope alone keeps the types when what it
   assigns is typed. *)
LEMMA TypeSimple ==
  ASSUME TypeInv, token' \in Token, pos' \in 0 .. MaxTokens,
         pc' \in Point,
         UNCHANGED <<stack, currentBlock, blocks>>,
         ident' \in Identifier,
         list' \in {"none", "inputs", "outputs"},
         expr' \in Expression
  PROVE  TypeInv'
  BY DEF TypeInv, TypeOK, InputsCounted, Frame

(* So does a step that replaces one block by another whose inputs are counted. *)
LEMMA TypeUpdate ==
  ASSUME TypeInv, token' \in Token, pos' \in 0 .. MaxTokens,
         pc' \in Point,
         NEW b \in DOMAIN blocks, NEW new \in Block, new.inputCount <= Len(new.variables),
         blocks' = [blocks EXCEPT ![b] = new],
         currentBlock' \in DOMAIN blocks,
         stack' \in Seq(Frame),
         UNCHANGED <<ident, list, expr>>
  PROVE  TypeInv'
<1>1. blocks' \in Seq(Block) /\ DOMAIN blocks' = DOMAIN blocks
  BY UpdateBlock DEF TypeInv, TypeOK
<1>2. Frame' = Frame
  BY <1>1 DEF Frame
<1>3. TypeOK'
  BY <1>1, <1>2 DEF TypeInv, TypeOK
<1>4. InputsCounted'
  BY <1>1 DEF TypeInv, TypeOK, InputsCounted
<1> QED  BY <1>3, <1>4 DEF TypeInv

(* TypeS64 is 0 or an index of the types. *)
LEMMA TypeS64Range == TypeS64 \in 0 .. Len(Types)
<1> DEFINE I == {i \in 1 .. Len(Types) : Types[i].name = "S64"}
<1>1. TypeS64 = IF I # {} THEN Min(I) ELSE 0
  BY DEF TypeS64, SelectInSeq
<1>2. I \in SUBSET Nat
  BY TypesAssumption
<1>3. I # {} => Min(I) \in I
  BY <1>2, LeastIndex
<1> QED  BY <1>1, <1>2, <1>3

(* Adding a variable cannot make the count of inputs exceed the variables. *)
LEMMA AddVariableCount ==
  ASSUME NEW block \in Block, NEW type, NEW init, NEW length, block.inputCount <= Len(block.variables)
  PROVE  AddVariable(block, type, init, length).inputCount
           <= Len(AddVariable(block, type, init, length).variables)
<1> DEFINE v == [name |-> ident.name, type |-> type, init |-> init,
                 text |-> ident.text, textLength |-> length]
<1>1. AddVariable(block, type, init, length) = [block EXCEPT !.variables = Append(@, v)]
  BY DEF AddVariable, ArrayAdd
<1> HIDE DEF v
<1> QED  BY <1>1 DEF Block

(* Adding an operand to the expression keeps the types. *)
LEMMA AddOperandType ==
  ASSUME TypeInv, NEW v \in Nat, NEW e \in Int, AddOperand(v, e)
  PROVE  TypeInv'
<1>1. token \in Token /\ pos \in 0 .. MaxTokens /\ expr \in Expression
  BY DEF TypeInv, TypeOK, Expression
<1>2. expr' \in Expression
  <2>1. Append(expr.operands, v) \in Seq(Nat)
    BY <1>1 DEF Expression
  <2> QED  BY <1>1, <2>1 DEF AddOperand, Expression
<1>3. token' \in Token /\ pos' \in 0 .. MaxTokens
  BY <1>1, StreamType DEF AddOperand
<1> QED  BY <1>2, <1>3, TypeSimple DEF AddOperand, TypeInv, TypeOK, Point

(* Every action keeps the types. *)
LEMMA TypeStep == TypeInv /\ [Next]_vars => TypeInv'
<1> SUFFICES ASSUME TypeInv, [Next]_vars PROVE TypeInv'
  OBVIOUS
<1> USE DEF TypeInv
<1>0. /\ token \in Token /\ pos \in 0 .. MaxTokens
      /\ LexNextToken => token' \in Token /\ pos' \in 0 .. MaxTokens
      /\ blocks \in Seq(Block) /\ currentBlock \in DOMAIN blocks
      /\ \A b \in DOMAIN blocks : blocks[b] \in Block
  BY StreamType DEF TypeOK
<1>1. CASE ParseFile
  BY <1>1, <1>0, TypeSimple
  DEF ParseFile, TypeOK, Final, Point, Identifier, Expression, Token, Lexeme,
      Invalid, EndOfBuffer
<1>2. CASE ParseStatement
  BY <1>2, <1>0, TypeSimple
  DEF ParseStatement, TypeOK, Final, Point, Identifier, Expression, Token, Lexeme,
      Invalid, EndOfBuffer
<1>3. CASE ParseFileReturns
  BY <1>3, <1>0, TypeSimple
  DEF ParseFileReturns, EatBlockClose, TypeOK, Final, Point, Identifier, Expression, Token, Lexeme,
      Invalid, EndOfBuffer
<1>4. CASE ParseProcedureReturns
  <2> DEFINE b   == Head(stack).thisBlock
             new == [blocks[b] EXCEPT !.procedures = Append(@, Head(stack).procedure)]
  <2>1. stack \in Seq(Frame) /\ stack # << >>
    BY <1>4 DEF ParseProcedureReturns, TypeOK
  <2>2. Head(stack) \in Frame /\ Tail(stack) \in Seq(Frame)
    BY <2>1
  <2>3. b \in DOMAIN blocks /\ Head(stack).procedure \in DOMAIN blocks
    BY <2>2 DEF Frame
  <2>4. new \in Block /\ new.inputCount <= Len(new.variables)
    <3>1. blocks[b] \in Block /\ blocks[b].inputCount <= Len(blocks[b].variables)
      BY <2>3, <1>0 DEF InputsCounted
    <3>2. Head(stack).procedure \in Nat
      BY <2>3, <1>0
    <3>3. Append(blocks[b].procedures, Head(stack).procedure) \in Seq(Nat)
      BY <3>1, <3>2 DEF Block
    <3> HIDE DEF b
    <3> QED  BY <3>1, <3>3 DEF Block
  <2>5. blocks' = [blocks EXCEPT ![b] = new]
    BY <1>4, <2>3 DEF ParseProcedureReturns, AttachTo, CallerBlock, ArrayAdd
  <2>6. /\ currentBlock' = b /\ stack' = Tail(stack) /\ UNCHANGED <<pc, ident, list, expr>>
        /\ token' \in Token /\ pos' \in 0 .. MaxTokens
    BY <1>4, <1>0 DEF ParseProcedureReturns, CallerBlock, PopFrame, EatBlockClose
  <2> HIDE DEF b, new
  <2> QED  BY <2>2, <2>3, <2>4, <2>5, <2>6, TypeUpdate DEF TypeOK, Point
<1>5. CASE DeclareVariable
  BY <1>5, <1>0, TypeSimple
  DEF DeclareVariable, NoExpr, TypeOK, Final, Point, Identifier, Expression, Token, Lexeme,
      Invalid, EndOfBuffer
<1>6. CASE DefineProcedure
  <2> DEFINE new == EmptyBlock(ident.name, currentBlock)
             p   == Len(blocks) + 1
  <2>1. new \in Block /\ new.inputCount <= Len(new.variables)
    <3>1. ident.name \in Name \cup {NoName} /\ currentBlock \in Nat
      BY <1>0 DEF TypeOK, Identifier
    <3> QED  BY <3>1 DEF EmptyBlock, Block
  <2>2. blocks' = Append(blocks, new)
    BY <1>6 DEF DefineProcedure
  <2> HIDE DEF new
  <2>3. /\ blocks' \in Seq(Block) /\ DOMAIN blocks' = DOMAIN blocks \cup {p}
        /\ p \in DOMAIN blocks' /\ blocks'[p] = new
        /\ \A b \in DOMAIN blocks : blocks'[b] = blocks[b]
    BY <1>0, <2>1, <2>2
  <2>4. stack \in Seq(Frame') /\ [thisBlock |-> currentBlock, procedure |-> p] \in Frame'
    <3>1. Frame \subseteq Frame' /\ [thisBlock |-> currentBlock, procedure |-> p] \in Frame'
      BY <1>0, <2>3 DEF Frame
    <3>2. stack \in Seq(Frame)
      BY DEF TypeOK
    <3> QED  BY <3>1, <3>2, SeqMonotonic
  <2>5. stack' \in Seq(Frame')
    BY <1>6, <2>4 DEF DefineProcedure
  <2>6. TypeOK'
    BY <1>6, <1>0, <2>3, <2>5 DEF DefineProcedure, TypeOK, Point
  <2>7. InputsCounted'
    BY <2>1, <2>3 DEF InputsCounted
  <2> QED  BY <2>6, <2>7
<1>7. CASE UnknownStatement
  BY <1>7, <1>0, TypeSimple
  DEF UnknownStatement, Abort, TypeOK, Final, Point, Identifier, Expression, Token, Lexeme,
      Invalid, EndOfBuffer
<1>8. CASE ParseLiteral
  BY <1>8, <1>0, AddOperandType DEF ParseLiteral
<1>9. CASE ParseReference
  <2> DEFINE variables == blocks[currentBlock].variables
             found     == FindVariable(token.name, blocks[currentBlock])
  <2>1. variables \in Seq(Variable)
    BY <1>0 DEF Block
  <2>2. found \in {0} \cup DOMAIN variables
    BY <2>1, FindVariableRange
  <2>3. CASE found = 0
    BY <1>9, <2>3, <1>0, TypeSimple DEF ParseReference, Abort, TypeOK, Final, Point
  <2>4. CASE found # 0
    <3>2. AddOperand(found, variables[found].text + variables[found].textLength)
      BY <1>9, <2>4 DEF ParseReference
    <3> HIDE DEF variables, found
    <3>3. found \in 1 .. Len(variables)
      BY <2>1, <2>2, <2>4
    <3>4. found \in Nat /\ variables[found] \in Variable
      BY <2>1, <3>3
    <3>1. variables[found].text + variables[found].textLength \in Int
      BY <3>4 DEF Variable
    <3> QED  BY <3>1, <3>2, <3>4, <1>0, AddOperandType
  <2> QED  BY <2>3, <2>4
<1>10. CASE NoOperand
  BY <1>10, <1>0, TypeSimple
  DEF NoOperand, Abort, TypeOK, Final, Point, Identifier, Expression, Token, Lexeme,
      Invalid, EndOfBuffer
<1>11. CASE ParseOperator
  <2>1. expr' \in Expression
    <3>1. token.type \in Operator /\ pos + 1 \in Int /\ expr \in Expression
      BY <1>11, <1>0, MaxTokensAssumption DEF ParseOperator, TypeOK, Expression
    <3>2. Append(expr.operations, token.type) \in Seq(Operator)
      BY <3>1 DEF Expression
    <3> QED  BY <1>11, <3>1, <3>2 DEF ParseOperator, Expression
  <2> QED  BY <1>11, <1>0, <2>1, TypeSimple DEF ParseOperator, TypeOK, Point
<1>12. CASE FinishVariable
  <2> DEFINE added == AddVariable(blocks[currentBlock], TypeS64, expr, TextLength(expr.end))
             new   == [added EXCEPT !.statements = ArrayAdd(Len(added.variables), @)]
  <2>1. TypeS64 \in 0 .. Len(Types)
    BY TypeS64Range
  <2>2. TextLength(expr.end) \in Int
    BY DEF TextLength, TypeOK, Expression, Identifier
  <2>3. added \in Block
    BY <1>0, <2>1, <2>2, AddVariableType DEF TypeOK, Expression
  <2>4. added.inputCount <= Len(added.variables)
    BY <1>0, AddVariableCount DEF InputsCounted
  <2>5. blocks' = [blocks EXCEPT ![currentBlock] = new]
    BY <1>12 DEF FinishVariable
  <2>6. UNCHANGED <<token, pos, stack, currentBlock, ident, list, expr>> /\ pc' = "block"
    BY <1>12 DEF FinishVariable
  <2> HIDE DEF added
  <2>7. new \in Block /\ new.inputCount <= Len(new.variables)
    <3>1. Len(added.variables) \in Nat /\ added.statements \in Seq(Nat)
      BY <2>3 DEF Block
    <3>2. Append(added.statements, Len(added.variables)) \in Seq(Nat)
      BY <3>1
    <3> QED  BY <2>3, <2>4, <3>2 DEF Block, ArrayAdd
  <2> HIDE DEF new
  <2> QED  BY <1>0, <2>5, <2>6, <2>7, TypeUpdate DEF TypeOK, Point
<1>13. CASE ParseArgumentList
  BY <1>13, <1>0, TypeSimple
  DEF ParseArgumentList, TypeOK, Final, Point, Identifier, Expression, Token, Lexeme,
      Invalid, EndOfBuffer
<1>14. CASE NoArgumentList
  BY <1>14, <1>0, TypeSimple
  DEF NoArgumentList, NextPart, TypeOK, Final, Point, Identifier, Expression, Token, Lexeme,
      Invalid, EndOfBuffer
<1>15. CASE Argument
  BY <1>15, <1>0, TypeSimple
  DEF Argument, TypeOK, Final, Point, Identifier, Expression, Token, Lexeme,
      Invalid, EndOfBuffer
<1>16. CASE ArgumentColon
  BY <1>16, <1>0, TypeSimple
  DEF ArgumentColon, TypeOK, Final, Point, Identifier, Expression, Token, Lexeme,
      Invalid, EndOfBuffer
<1>17. CASE ArgumentType
  <2> DEFINE new == AddVariable(blocks[currentBlock], FindTypeFromToken(token.name), NoExpr, 1)
  <2>1. NoExpr \in Expression
    BY DEF NoExpr, Expression
  <2>2. new \in Block
    BY <1>0, <2>1, FindTypeRange, AddVariableType DEF TypeOK
  <2>3. new.inputCount <= Len(new.variables)
    BY <1>0, AddVariableCount DEF InputsCounted
  <2>4. blocks' = [blocks EXCEPT ![currentBlock] = new]
    BY <1>17 DEF ArgumentType
  <2>5. /\ UNCHANGED <<stack, currentBlock, ident, list, expr>> /\ pc' = "next"
        /\ token' \in Token /\ pos' \in 0 .. MaxTokens
    BY <1>17, <1>0 DEF ArgumentType
  <2> HIDE DEF new
  <2> QED  BY <1>0, <2>2, <2>3, <2>4, <2>5, TypeUpdate DEF TypeOK, Point
<1>18. CASE ArgumentComma
  BY <1>18, <1>0, TypeSimple
  DEF ArgumentComma, TypeOK, Final, Point, Identifier, Expression, Token, Lexeme,
      Invalid, EndOfBuffer
<1>19. CASE ArgumentListReturns
  <2> DEFINE new == CountList(blocks[currentBlock])
  <2>1. new \in Block /\ new.inputCount <= Len(new.variables)
    <3> DEFINE block == blocks[currentBlock]
    <3>1. block \in Block /\ block.inputCount <= Len(block.variables)
      BY <1>0 DEF InputsCounted
    <3>2. /\ Len(block.variables) \in Nat
          /\ Len(block.variables) - block.inputCount \in Nat
      BY <3>1 DEF Block
    <3> HIDE DEF block
    <3>3. /\ CountList(block) \in Block
          /\ CountList(block).inputCount <= Len(CountList(block).variables)
      <4>1. CASE list = "inputs"
        <5> DEFINE n == Len(block.variables)
        <5>1. CountList(block) = [block EXCEPT !.inputCount = n] /\ n \in Nat
          BY <3>2, <4>1 DEF CountList
        <5>2. n <= Len([block EXCEPT !.inputCount = n].variables)
          BY <3>1, <3>2 DEF Block
        <5> HIDE DEF n
        <5> QED  BY <3>1, <5>1, <5>2 DEF Block
      <4>2. CASE list # "inputs"
        <5> DEFINE n == Len(block.variables) - block.inputCount
        <5>1. CountList(block) = [block EXCEPT !.outputCount = n] /\ n \in Nat
          BY <3>2, <4>2 DEF CountList
        <5> HIDE DEF n
        <5> QED  BY <3>1, <5>1 DEF Block
      <4> QED  BY <4>1, <4>2
    <3> QED  BY <3>3 DEF block
  <2>2. blocks' = [blocks EXCEPT ![currentBlock] = new]
    BY <1>19 DEF ArgumentListReturns, NextPart
  <2>3. /\ UNCHANGED <<stack, currentBlock, ident, list, expr>> /\ pc' \in {"outputs", "body"}
        /\ token' \in Token /\ pos' \in 0 .. MaxTokens
    BY <1>19, <1>0 DEF ArgumentListReturns, NextPart
  <2> HIDE DEF new
  <2> QED  BY <1>0, <2>1, <2>2, <2>3, TypeUpdate DEF TypeOK, Point
<1>20. CASE ArgumentListFails
  BY <1>20, <1>0, TypeSimple
  DEF ArgumentListFails, Abort, TypeOK, Final, Point, Identifier, Expression, Token, Lexeme,
      Invalid, EndOfBuffer
<1>21. CASE ParseBody
  BY <1>21, <1>0, TypeSimple
  DEF ParseBody, TypeOK, Final, Point, Identifier, Expression, Token, Lexeme,
      Invalid, EndOfBuffer
<1>22. CASE NoBody
  BY <1>22, <1>0, TypeSimple
  DEF NoBody, Abort, TypeOK, Final, Point, Identifier, Expression, Token, Lexeme,
      Invalid, EndOfBuffer
<1>23. CASE LogNodeFaults
  BY <1>23, <1>0, TypeSimple
  DEF LogNodeFaults, TypeOK, Final, Point, Identifier, Expression, Token, Lexeme,
      Invalid, EndOfBuffer
<1>24. CASE UNCHANGED vars
  BY <1>24, TypeSimple DEF vars, TypeOK
<1> QED
  BY <1>1, <1>2, <1>3, <1>4, <1>5, <1>6, <1>7, <1>8, <1>9, <1>10, <1>11, <1>12, <1>13,
     <1>14, <1>15, <1>16, <1>17, <1>18, <1>19, <1>20, <1>21, <1>22, <1>23, <1>24
  DEF Next, Step, Terminated

(* Every variable of the parser keeps its type; in particular the count of outputs,
   a difference of unsigned numbers, never wraps (ParseStatement, main.cpp:326 and 336). *)
THEOREM TypeCorrect == Spec => []TypeOK
<1>1. TypeInv => TypeOK
  BY DEF TypeInv
<1> QED  BY TypeInit, TypeStep, <1>1, PTL DEF Spec

(* A sequence is a prefix of itself. *)
LEMMA PrefixSelf ==
  ASSUME NEW S, NEW s \in Seq(S)
  PROVE  IsPrefix(s, s)
  BY DEF IsPrefix

(* It is a prefix of itself with an element appended. *)
LEMMA PrefixAppend ==
  ASSUME NEW S, NEW s \in Seq(S), NEW e \in S
  PROVE  IsPrefix(s, Append(s, e))
<1>1. Len(s) <= Len(Append(s, e))
  OBVIOUS
<1>2. SubSeq(s, 1, Len(s)) = SubSeq(Append(s, e), 1, Len(s))
  OBVIOUS
<1> QED  BY <1>1, <1>2 DEF IsPrefix

(* What a step may do to a block that exists. *)
Grows(old, new) ==
  /\ new.parent = old.parent
  /\ new.variables = old.variables
       \/ \E v \in Variable : new.variables = Append(old.variables, v)
  /\ new.procedures = old.procedures
       \/ \E p \in Nat : new.procedures = Append(old.procedures, p)

(* A block left alone grows, by nothing. *)
LEMMA SameBlockGrows == \A block : Grows(block, block)
  BY DEF Grows

(* A block that gains a variable grows. *)
LEMMA AddVariableGrows ==
  ASSUME NEW block \in Block, ident \in Identifier,
         NEW type \in 0 .. Len(Types), NEW init \in Expression, NEW length \in Int
  PROVE  Grows(block, AddVariable(block, type, init, length))
<1> DEFINE v == [name |-> ident.name, type |-> type, init |-> init,
                 text |-> ident.text, textLength |-> length]
<1>1. v \in Variable
  BY DEF Variable, Expression, Identifier
<1>2. AddVariable(block, type, init, length) = [block EXCEPT !.variables = Append(@, v)]
  BY DEF AddVariable, ArrayAdd
<1> HIDE DEF v
<1> QED  BY <1>1, <1>2 DEF Grows, Block

(* A step only appends to what a block holds, never moves it to another parent, and
   touches no block but the current one and the one returned to. *)
LEMMA StepGrows ==
  ASSUME TypeInv, [Next]_vars
  PROVE  \A b \in DOMAIN blocks :
           /\ b \in DOMAIN blocks'
           /\ Grows(blocks[b], blocks'[b])
           /\ b \notin {currentBlock, currentBlock'} => blocks'[b] = blocks[b]
<1> USE DEF TypeInv
<1>0. /\ blocks \in Seq(Block) /\ currentBlock \in DOMAIN blocks
      /\ \A b \in DOMAIN blocks : blocks[b] \in Block
  BY DEF TypeOK
<1>1. CASE UNCHANGED blocks
  BY <1>1, SameBlockGrows
<1>2. CASE DefineProcedure
  <2>1. blocks' = Append(blocks, EmptyBlock(ident.name, currentBlock))
    BY <1>2 DEF DefineProcedure
  <2>2. \A b \in DOMAIN blocks : b \in DOMAIN blocks' /\ blocks'[b] = blocks[b]
    BY <1>0, <2>1
  <2> QED  BY <2>2, SameBlockGrows
<1>3. ASSUME NEW b \in DOMAIN blocks, NEW new, Grows(blocks[b], new),
             b \in {currentBlock, currentBlock'}, blocks' = [blocks EXCEPT ![b] = new]
      PROVE  \A c \in DOMAIN blocks :
               /\ c \in DOMAIN blocks'
               /\ Grows(blocks[c], blocks'[c])
               /\ c \notin {currentBlock, currentBlock'} => blocks'[c] = blocks[c]
  BY <1>0, <1>3, SameBlockGrows
<1>4. CASE ParseProcedureReturns
  <2> DEFINE b   == Head(stack).thisBlock
             new == [blocks[b] EXCEPT !.procedures = Append(@, Head(stack).procedure)]
  <2>1. b \in DOMAIN blocks /\ Head(stack).procedure \in Nat
    <3>1. Head(stack) \in Frame
      BY <1>4 DEF ParseProcedureReturns, TypeOK
    <3> QED  BY <3>1, <1>0 DEF Frame
  <2>2. blocks' = [blocks EXCEPT ![b] = new] /\ currentBlock' = b
    BY <1>4, <2>1 DEF ParseProcedureReturns, AttachTo, CallerBlock, ArrayAdd
  <2>3. blocks[b] \in Block
    BY <1>0, <2>1
  <2>4. Grows(blocks[b], new)
    BY <2>1, <2>3 DEF Grows, Block
  <2> HIDE DEF b, new
  <2> QED  BY <1>3, <2>1, <2>2, <2>4
<1>5. CASE FinishVariable
  <2> DEFINE added == AddVariable(blocks[currentBlock], TypeS64, expr, TextLength(expr.end))
             new   == [added EXCEPT !.statements = ArrayAdd(Len(added.variables), @)]
  <2>1. TextLength(expr.end) \in Int
    BY DEF TextLength, TypeOK, Expression, Identifier
  <2>2. added \in Block /\ Grows(blocks[currentBlock], added)
    BY <1>0, <2>1, TypeS64Range, AddVariableType, AddVariableGrows DEF TypeOK, Expression
  <2>3. blocks' = [blocks EXCEPT ![currentBlock] = new]
    BY <1>5 DEF FinishVariable
  <2> HIDE DEF added
  <2>4. Grows(blocks[currentBlock], new)
    BY <2>2 DEF Grows, Block
  <2> HIDE DEF new
  <2> QED  BY <1>0, <1>3, <2>3, <2>4
<1>6. CASE ArgumentType
  <2> DEFINE new == AddVariable(blocks[currentBlock], FindTypeFromToken(token.name), NoExpr, 1)
  <2>1. NoExpr \in Expression
    BY DEF NoExpr, Expression
  <2>2. Grows(blocks[currentBlock], new)
    BY <1>0, <2>1, FindTypeRange, AddVariableGrows DEF TypeOK
  <2>3. blocks' = [blocks EXCEPT ![currentBlock] = new]
    BY <1>6 DEF ArgumentType
  <2> HIDE DEF new
  <2> QED  BY <1>0, <1>3, <2>2, <2>3
<1>7. CASE ArgumentListReturns
  <2> DEFINE new == CountList(blocks[currentBlock])
  <2>1. blocks' = [blocks EXCEPT ![currentBlock] = new]
    BY <1>7 DEF ArgumentListReturns, NextPart
  <2>2. Grows(blocks[currentBlock], new)
    BY <1>0 DEF CountList, Grows, Block
  <2> HIDE DEF new
  <2> QED  BY <1>0, <1>3, <2>1, <2>2
<1> QED
  BY <1>1, <1>2, <1>4, <1>5, <1>6, <1>7
  DEF Next, Step, Terminated, vars, ParseFile, ParseStatement, ParseFileReturns,
      DeclareVariable, LogNodeFaults, UnknownStatement, ParseLiteral, ParseReference, NoOperand,
      ParseOperator, ParseArgumentList, NoArgumentList, Argument, ArgumentColon,
      ArgumentComma, ArgumentListFails, ParseBody, NoBody, Abort, AddOperand

-----------------------------------------------------------------------------
(***************************************************************************)
(* Scopes.  ScopeFollowsStack is inductive once the types are known.       *)
(***************************************************************************)
Others ==
  \/ ParseFile \/ ParseStatement \/ ParseFileReturns \/ DeclareVariable
  \/ LogNodeFaults \/ UnknownStatement \/ ParseLiteral \/ ParseReference \/ NoOperand
  \/ ParseOperator
  \/ FinishVariable \/ ParseArgumentList \/ NoArgumentList \/ Argument \/ ArgumentColon
  \/ ArgumentType \/ ArgumentComma \/ ArgumentListReturns \/ ArgumentListFails
  \/ ParseBody \/ NoBody \/ UNCHANGED vars

(* The steps that move between scopes, and the others. *)
LEMMA NextCases == [Next]_vars => ParseProcedureReturns \/ DefineProcedure \/ Others
  BY DEF Next, Step, Terminated, Others

(* The others do not move. *)
LEMMA OthersKeepScope == Others => UNCHANGED <<stack, currentBlock>>
  BY DEF Others, vars, ParseFile, ParseStatement, ParseFileReturns,
      DeclareVariable, LogNodeFaults, UnknownStatement, ParseLiteral, ParseReference, NoOperand,
      ParseOperator, FinishVariable, ParseArgumentList, NoArgumentList, Argument,
      ArgumentColon, ArgumentType, ArgumentComma, ArgumentListReturns,
      ArgumentListFails, ParseBody, NoBody, Abort, AddOperand

ScopeInv == TypeInv /\ ScopeFollowsStack

(* Every action keeps the current block on the chain the stack spells out. *)
LEMMA ScopeStep == ScopeInv /\ [Next]_vars => ScopeInv'
<1> SUFFICES ASSUME ScopeInv, [Next]_vars PROVE ScopeFollowsStack'
  BY TypeStep DEF ScopeInv
<1> USE DEF ScopeInv
<1>1. /\ blocks \in Seq(Block) /\ currentBlock \in DOMAIN blocks /\ stack \in Seq(Frame)
      /\ DOMAIN stack = 1 .. Len(stack) /\ Len(stack) \in Nat
      /\ \A k \in DOMAIN stack : stack[k].procedure \in DOMAIN blocks
  <2>1. blocks \in Seq(Block) /\ currentBlock \in DOMAIN blocks /\ stack \in Seq(Frame)
    BY DEF TypeInv, TypeOK
  <2>2. \A k \in DOMAIN stack : stack[k] \in Frame
    BY <2>1
  <2> QED  BY <2>1, <2>2 DEF Frame
<1>2. \A k \in DOMAIN stack :
        blocks'[stack[k].procedure].parent = blocks[stack[k].procedure].parent
  BY <1>1, StepGrows DEF Grows
<1>3. CASE ParseProcedureReturns
  <2>1. stack # << >> /\ stack' = Tail(stack) /\ currentBlock' = stack[1].thisBlock
    BY <1>3, <1>1 DEF ParseProcedureReturns, PopFrame, CallerBlock
  <2>2. /\ Len(stack') = Len(stack) - 1 /\ stack' \in Seq(Frame)
        /\ \A k \in DOMAIN stack' : k + 1 \in DOMAIN stack /\ stack'[k] = stack[k + 1]
    BY <2>1, <1>1
  <2>3. currentBlock' = IF stack' = << >> THEN Root ELSE Head(stack').procedure
    <3>1. 1 \in DOMAIN stack
      BY <2>1, <1>1
    <3>2. currentBlock' = IF 1 = Len(stack) THEN Root ELSE stack[2].procedure
      <4>1. stack[1].thisBlock = IF 1 = Len(stack) THEN Root ELSE stack[1 + 1].procedure
        BY <3>1, Zenon DEF ScopeFollowsStack
      <4> QED  BY <2>1, <4>1
    <3>3. CASE Len(stack) = 1
      <4>1. stack' = << >>
        BY <3>3, <2>2, EmptySeq
      <4> QED  BY <3>2, <3>3, <4>1
    <3>4. CASE Len(stack) # 1
      <4>1. stack' # << >> /\ 1 \in DOMAIN stack' /\ Head(stack') = stack[2]
        BY <3>1, <3>4, <2>2, <1>1
      <4> QED  BY <3>2, <3>4, <4>1
    <3> QED  BY <3>3, <3>4
  <2>4. ASSUME NEW k \in DOMAIN stack'
        PROVE  /\ stack'[k].thisBlock = IF k = Len(stack') THEN Root
                                        ELSE stack'[k + 1].procedure
               /\ blocks'[stack'[k].procedure].parent = stack'[k].thisBlock
    BY <2>2, <1>1, <1>2 DEF ScopeFollowsStack
  <2> QED  BY <2>3, <2>4 DEF ScopeFollowsStack
<1>4. CASE DefineProcedure
  <2> DEFINE p     == Len(blocks) + 1
             frame == [thisBlock |-> currentBlock, procedure |-> p]
  <2>1. /\ stack' = <<frame>> \o stack /\ currentBlock' = p
        /\ blocks'[p].parent = currentBlock
    BY <1>4, <1>1 DEF DefineProcedure, EmptyBlock
  <2>2. /\ Len(stack') = Len(stack) + 1 /\ stack' # << >> /\ stack'[1] = frame
        /\ DOMAIN stack' = 1 .. Len(stack')
        /\ \A k \in DOMAIN stack' \ {1} : k - 1 \in DOMAIN stack /\ stack'[k] = stack[k - 1]
    BY <2>1, <1>1
  <2>3. currentBlock' = IF stack' = << >> THEN Root ELSE Head(stack').procedure
    BY <2>1, <2>2
  <2>4. ASSUME NEW k \in DOMAIN stack'
        PROVE  /\ stack'[k].thisBlock = IF k = Len(stack') THEN Root
                                        ELSE stack'[k + 1].procedure
               /\ blocks'[stack'[k].procedure].parent = stack'[k].thisBlock
    <3>1. CASE k = 1
      <4>1. /\ stack'[k].thisBlock = currentBlock
            /\ blocks'[stack'[k].procedure].parent = stack'[k].thisBlock
        BY <3>1, <2>1, <2>2
      <4>2. CASE stack = << >>
        BY <3>1, <4>1, <4>2, <2>2, <1>1 DEF ScopeFollowsStack
      <4>3. CASE stack # << >>
        <5>1. 1 \in DOMAIN stack /\ stack'[2] = stack[1] /\ k # Len(stack')
          <6>1. Len(stack) > 0
            BY <4>3, <1>1, EmptySeq
          <6> QED  BY <3>1, <6>1, <2>2, <1>1, SMTT(30)
        <5>2. currentBlock = stack[1].procedure
          BY <4>3, <1>1 DEF ScopeFollowsStack
        <5> QED  BY <3>1, <4>1, <5>1, <5>2
      <4> QED  BY <4>2, <4>3
    <3>2. CASE k # 1
      <4>1. k - 1 \in DOMAIN stack /\ stack'[k] = stack[k - 1]
        BY <3>2, <2>2
      <4>2. /\ stack[k - 1].thisBlock = IF k - 1 = Len(stack) THEN Root ELSE stack[k].procedure
            /\ blocks'[stack'[k].procedure].parent = stack'[k].thisBlock
        <5> DEFINE j == k - 1
        <5>1. /\ stack[j].thisBlock = IF j = Len(stack) THEN Root ELSE stack[j + 1].procedure
              /\ blocks[stack[j].procedure].parent = stack[j].thisBlock
          BY <4>1, Zenon DEF ScopeFollowsStack
        <5>2. j + 1 = k
          BY <2>2
        <5>3. blocks'[stack[j].procedure].parent = blocks[stack[j].procedure].parent
          BY <4>1, <1>2
        <5> QED  BY <4>1, <5>1, <5>2, <5>3
      <4>3. ASSUME k # Len(stack')  PROVE stack'[k + 1] = stack[k]
        <5>1. k \in Nat /\ k + 1 \in DOMAIN stack' /\ k + 1 # 1 /\ (k + 1) - 1 = k
          BY <3>2, <2>2, <1>1, <4>3
        <5> QED  BY <5>1, <2>2
      <4> QED  BY <4>1, <4>2, <4>3, <2>2, <1>1
    <3> QED  BY <3>1, <3>2
  <2> QED  BY <2>3, <2>4 DEF ScopeFollowsStack
<1>5. CASE Others
  BY <1>5, <1>2, OthersKeepScope DEF ScopeFollowsStack
<1> QED  BY <1>3, <1>4, <1>5, NextCases

(* It starts at root with nothing on the stack. *)
LEMMA ScopeInit == Init => ScopeInv
  BY TypeInit DEF Init, ScopeInv, ScopeFollowsStack

(* ParseStatement leaves currentBlock as it found it: whatever the file holds, the
   current block is the procedure whose body is open innermost (main.cpp:317-319, 348). *)
THEOREM ScopeCorrect == Spec => []ScopeFollowsStack
<1>1. ScopeInv => ScopeFollowsStack
  BY DEF ScopeInv
<1> QED  BY ScopeInit, ScopeStep, <1>1, PTL DEF Spec

Frozen ==
  \A b \in DOMAIN blocks :
    /\ b \notin Open => blocks'[b] = blocks[b]
    /\ IsPrefix(blocks[b].variables, blocks'[b].variables)
    /\ IsPrefix(blocks[b].procedures, blocks'[b].procedures)

(* A step changes no block that is not open, and only appends to one that is. *)
LEMMA StepFrozen == ScopeInv /\ [Next]_vars => Frozen
<1> SUFFICES ASSUME ScopeInv, [Next]_vars, NEW b \in DOMAIN blocks
             PROVE  /\ b \notin Open => blocks'[b] = blocks[b]
                    /\ IsPrefix(blocks[b].variables, blocks'[b].variables)
                    /\ IsPrefix(blocks[b].procedures, blocks'[b].procedures)
  BY DEF Frozen
<1>1. blocks \in Seq(Block) /\ stack \in Seq(Frame) /\ TypeInv
  BY DEF ScopeInv, TypeInv, TypeOK
<1>2. Grows(blocks[b], blocks'[b]) /\ (b \notin {currentBlock, currentBlock'} => blocks'[b] = blocks[b])
  BY <1>1, StepGrows
<1>3. currentBlock \in Open
  BY <1>1 DEF ScopeInv, ScopeFollowsStack, Open
<1>4. b = currentBlock' => b \in Open
  <2>1. CASE ParseProcedureReturns
    <3>1. stack # << >> /\ currentBlock' = stack[1].thisBlock
      BY <2>1, <1>1 DEF ParseProcedureReturns, CallerBlock
    <3> QED  BY <3>1, <1>1 DEF ScopeInv, ScopeFollowsStack, Open
  <2>2. CASE DefineProcedure
    BY <2>2, <1>1 DEF DefineProcedure
  <2>3. CASE Others
    BY <2>3, <1>3, OthersKeepScope
  <2> QED  BY <2>1, <2>2, <2>3, NextCases
<1>5. blocks[b] \in Block
  BY <1>1
<1>6. IsPrefix(blocks[b].variables, blocks'[b].variables)
  <2>1. blocks[b].variables \in Seq(Variable)
    BY <1>5 DEF Block
  <2>2. CASE blocks'[b].variables = blocks[b].variables
    BY <2>1, <2>2, PrefixSelf
  <2>3. CASE \E v \in Variable : blocks'[b].variables = Append(blocks[b].variables, v)
    BY <2>1, <2>3, PrefixAppend
  <2> QED  BY <1>2, <2>2, <2>3 DEF Grows
<1>7. IsPrefix(blocks[b].procedures, blocks'[b].procedures)
  <2>1. blocks[b].procedures \in Seq(Nat)
    BY <1>5 DEF Block
  <2>2. CASE blocks'[b].procedures = blocks[b].procedures
    BY <2>1, <2>2, PrefixSelf
  <2>3. CASE \E p \in Nat : blocks'[b].procedures = Append(blocks[b].procedures, p)
    BY <2>1, <2>3, PrefixAppend
  <2> QED  BY <1>2, <2>2, <2>3 DEF Grows
<1> QED  BY <1>2, <1>3, <1>4, <1>6, <1>7

(* A block whose body ended never changes again, and an open one only grows at its
   end (ArrayAdd, called from ParseBlock, ParseStatement and ParseArgumentList). *)
THEOREM BlocksFrozen == Spec => FinishedBlocksFrozen
<1>1. ScopeInv /\ [Next]_vars => [Frozen]_vars
  BY StepFrozen
<1>2. FinishedBlocksFrozen <=> [][Frozen]_vars
  BY PTL DEF FinishedBlocksFrozen, Frozen
<1> QED  BY <1>1, <1>2, ScopeInit, ScopeStep, PTL DEF Spec

-----------------------------------------------------------------------------
(***************************************************************************)
(* Define before use.  The expression being parsed must already refer to   *)
(* declared variables only.                                                *)
(***************************************************************************)
DeclaredBefore(init, n) == \A k \in DOMAIN init.operands : init.operands[k] <= n

DefineInv ==
  /\ TypeInv
  /\ DefineBeforeUse
  /\ pc \in {"operand", "operator"} =>
       DeclaredBefore(expr, Len(blocks[currentBlock].variables))

(* The property survives a step that adds to a block at most one variable, whose
   initialiser refers to what the block already holds. *)
LEMMA DefineKept ==
  ASSUME TypeInv, DefineBeforeUse,
         \A b \in DOMAIN blocks' :
           \/ blocks'[b].variables = << >>
           \/ /\ b \in DOMAIN blocks
              /\ \/ blocks'[b].variables = blocks[b].variables
                 \/ \E v \in Variable :
                      /\ blocks'[b].variables = Append(blocks[b].variables, v)
                      /\ DeclaredBefore(v.init, Len(blocks[b].variables))
  PROVE  DefineBeforeUse'
<1> SUFFICES ASSUME NEW b \in DOMAIN blocks', NEW i \in DOMAIN blocks'[b].variables,
                    NEW k \in DOMAIN blocks'[b].variables[i].init.operands
             PROVE  blocks'[b].variables[i].init.operands[k] < i
  BY Zenon DEF DefineBeforeUse
<1>1. CASE blocks'[b].variables = << >>
  BY <1>1
<1>2. ASSUME b \in DOMAIN blocks
      PROVE  /\ blocks[b].variables \in Seq(Variable)
             /\ \A j \in DOMAIN blocks[b].variables :
                  \A l \in DOMAIN blocks[b].variables[j].init.operands :
                    blocks[b].variables[j].init.operands[l] < j
  <2>1. blocks[b] \in Block
    BY <1>2 DEF TypeInv, TypeOK
  <2>2. \A j \in DOMAIN blocks[b].variables :
          \A l \in DOMAIN blocks[b].variables[j].init.operands :
            blocks[b].variables[j].init.operands[l] < j
    BY <1>2, Zenon DEF DefineBeforeUse
  <2> QED  BY <2>1, <2>2 DEF Block
<1>3. CASE b \in DOMAIN blocks /\ blocks'[b].variables = blocks[b].variables
  BY <1>2, <1>3
<1>4. CASE /\ b \in DOMAIN blocks
           /\ \E v \in Variable :
                /\ blocks'[b].variables = Append(blocks[b].variables, v)
                /\ DeclaredBefore(v.init, Len(blocks[b].variables))
  <2> DEFINE n == Len(blocks[b].variables)
  <2>1. PICK v \in Variable :
               /\ blocks'[b].variables = Append(blocks[b].variables, v)
               /\ DeclaredBefore(v.init, n)
    BY <1>4
  <2>2. n \in Nat /\ i \in 1 .. n + 1
    BY <1>2, <1>4, <2>1
  <2>3. CASE i = n + 1
    <3>1. blocks'[b].variables[i] = v
      BY <1>2, <1>4, <2>1, <2>3
    <3>2. v.init.operands[k] <= n
      BY <2>1, <3>1 DEF DeclaredBefore
    <3>3. v.init.operands[k] \in Nat
      <4>1. v.init.operands \in Seq(Nat)
        BY DEF Variable, Expression
      <4> QED  BY <3>1, <4>1
    <3> QED  BY <2>2, <2>3, <3>1, <3>2, <3>3
  <2>4. CASE i # n + 1
    <3>1. i \in DOMAIN blocks[b].variables /\ blocks'[b].variables[i] = blocks[b].variables[i]
      BY <1>2, <1>4, <2>1, <2>2, <2>4
    <3> QED  BY <1>2, <1>4, <3>1
  <2> QED  BY <2>3, <2>4
<1> QED  BY <1>1, <1>3, <1>4

(* AddVariable adds such a variable when its initialiser is one. *)
LEMMA AddVariableDeclares ==
  ASSUME NEW block \in Block, ident \in Identifier,
         NEW type \in 0 .. Len(Types), NEW init \in Expression, NEW length \in Int,
         DeclaredBefore(init, Len(block.variables))
  PROVE  \E v \in Variable :
           /\ AddVariable(block, type, init, length).variables = Append(block.variables, v)
           /\ DeclaredBefore(v.init, Len(block.variables))
<1> DEFINE v == [name |-> ident.name, type |-> type, init |-> init,
                 text |-> ident.text, textLength |-> length]
<1>1. v \in Variable /\ v.init = init
  BY DEF Variable, Expression, Identifier
<1>2. AddVariable(block, type, init, length) = [block EXCEPT !.variables = Append(@, v)]
  BY DEF AddVariable, ArrayAdd
<1> HIDE DEF v
<1>3. AddVariable(block, type, init, length).variables = Append(block.variables, v)
  BY <1>2 DEF Block
<1> QED  BY <1>1, <1>3

(* Every action keeps DefineInv. *)
LEMMA DefineStep == DefineInv /\ [Next]_vars => DefineInv'
<1> SUFFICES ASSUME DefineInv, [Next]_vars PROVE DefineInv'
  OBVIOUS
<1> DEFINE n  == Len(blocks[currentBlock].variables)
           OK == pc \in {"operand", "operator"} => DeclaredBefore(expr, n)
<1>1. TypeInv /\ DefineBeforeUse /\ OK /\ TypeInv'
  BY TypeStep DEF DefineInv
<1>2. /\ blocks \in Seq(Block) /\ currentBlock \in DOMAIN blocks
      /\ blocks[currentBlock] \in Block /\ blocks[currentBlock].variables \in Seq(Variable)
      /\ expr \in Expression /\ ident \in Identifier
  <2>1. blocks \in Seq(Block) /\ currentBlock \in DOMAIN blocks
    BY <1>1 DEF TypeInv, TypeOK
  <2>2. blocks[currentBlock] \in Block
    BY <2>1
  <2> QED  BY <1>1, <2>1, <2>2 DEF TypeInv, TypeOK, Block, Expression
<1>3. n \in Nat
  BY <1>2
<1>4. ASSUME UNCHANGED blocks  PROVE DefineBeforeUse'
  BY <1>1, <1>4 DEF DefineBeforeUse
<1>5. ASSUME pc' \notin {"operand", "operator"}, DefineBeforeUse'  PROVE DefineInv'
  BY <1>1, <1>5 DEF DefineInv
<1>6. ASSUME UNCHANGED <<blocks, currentBlock>>, DeclaredBefore(expr', n)  PROVE DefineInv'
  BY <1>1, <1>4, <1>6 DEF DefineInv
<1> HIDE DEF n
<1>10. ASSUME NEW new, blocks' = [blocks EXCEPT ![currentBlock] = new],
              \/ new.variables = blocks[currentBlock].variables
              \/ \E v \in Variable :
                   /\ new.variables = Append(blocks[currentBlock].variables, v)
                   /\ DeclaredBefore(v.init, Len(blocks[currentBlock].variables))
       PROVE  DefineBeforeUse'
  <2>1. ASSUME NEW b \in DOMAIN blocks'
        PROVE  /\ b \in DOMAIN blocks
               /\ \/ blocks'[b].variables = blocks[b].variables
                  \/ \E v \in Variable :
                       /\ blocks'[b].variables = Append(blocks[b].variables, v)
                       /\ DeclaredBefore(v.init, Len(blocks[b].variables))
    <3>1. CASE b = currentBlock
      BY <3>1, <1>2, <1>10
    <3>2. CASE b # currentBlock
      BY <3>2, <1>2, <1>10
    <3> QED  BY <3>1, <3>2
  <2> QED  BY <1>1, <2>1, DefineKept
<1>11. CASE \/ ParseFile \/ ParseStatement \/ ParseFileReturns \/ UnknownStatement
            \/ LogNodeFaults
            \/ NoOperand \/ ParseArgumentList \/ NoArgumentList \/ Argument
            \/ ArgumentColon \/ ArgumentComma \/ ArgumentListFails \/ ParseBody \/ NoBody
  <2>1. UNCHANGED blocks /\ pc' \notin {"operand", "operator"}
    BY <1>11
    DEF ParseFile, ParseStatement, ParseFileReturns, UnknownStatement, LogNodeFaults, NoOperand,
        ParseArgumentList, NoArgumentList, NextPart, Argument, ArgumentColon,
        ArgumentComma, ArgumentListFails, ParseBody, NoBody, Abort
  <2> QED  BY <2>1, <1>4, <1>5
<1>12. CASE DeclareVariable
  BY <1>12, <1>6 DEF DeclareVariable, NoExpr, DeclaredBefore
<1>13. ASSUME NEW m \in 0 .. n, NEW e, AddOperand(m, e), pc = "operand"  PROVE DefineInv'
  <2>1. expr'.operands = Append(expr.operands, m) /\ UNCHANGED <<blocks, currentBlock>>
    BY <1>13, <1>2 DEF AddOperand, Expression
  <2>2. expr.operands \in Seq(Nat) /\ DeclaredBefore(expr, n)
    BY <1>1, <1>2, <1>13 DEF Expression
  <2>3. DeclaredBefore(expr', n)
    BY <2>1, <2>2, <1>3, <1>13 DEF DeclaredBefore
  <2> QED  BY <2>1, <2>3, <1>6
<1>14. CASE ParseLiteral
  BY <1>3, <1>13, <1>14 DEF ParseLiteral
<1>15. CASE ParseReference
  <2> DEFINE variables == blocks[currentBlock].variables
             found     == FindVariable(token.name, blocks[currentBlock])
             end       == variables[found].text + variables[found].textLength
  <2>1. found \in {0} \cup DOMAIN variables
    BY <1>2, FindVariableRange
  <2>2. pc = "operand" /\ IF found = 0 THEN Abort("assert") ELSE AddOperand(found, end)
    BY <1>15 DEF ParseReference
  <2>3. found \in 0 .. n
    BY <2>1, <1>2, <1>3 DEF n
  <2> HIDE DEF found, end
  <2>4. CASE found = 0
    BY <2>2, <2>4, <1>4, <1>5 DEF Abort
  <2>5. CASE found # 0
    BY <2>2, <2>3, <2>5, <1>13
  <2> QED  BY <2>4, <2>5
<1>16. CASE ParseOperator
  <2>1. expr'.operands = expr.operands /\ UNCHANGED <<blocks, currentBlock>> /\ pc = "operator"
    BY <1>16, <1>2 DEF ParseOperator, Expression
  <2> QED  BY <2>1, <1>1, <1>6 DEF DeclaredBefore
<1>17. CASE ParseProcedureReturns
  <2> DEFINE b   == Head(stack).thisBlock
             new == [blocks[b] EXCEPT !.procedures = Append(@, Head(stack).procedure)]
  <2>1. b \in DOMAIN blocks
    <3>1. Head(stack) \in Frame
      BY <1>1, <1>17 DEF ParseProcedureReturns, TypeInv, TypeOK
    <3> QED  BY <3>1 DEF Frame
  <2>2. /\ blocks' = [blocks EXCEPT ![b] = new]
        /\ pc' = "block"
    BY <1>17 DEF ParseProcedureReturns, AttachTo, CallerBlock, ArrayAdd
  <2>3. new.variables = blocks[b].variables
    BY <2>1, <1>2 DEF Block
  <2> HIDE DEF b, new
  <2>4. \A c \in DOMAIN blocks' : c \in DOMAIN blocks /\ blocks'[c].variables = blocks[c].variables
    BY <2>1, <2>2, <2>3, <1>2
  <2>5. DefineBeforeUse'
    BY <2>4, <1>1, DefineKept
  <2> QED  BY <2>2, <2>5, <1>5
<1>18. CASE DefineProcedure
  <2> DEFINE new == EmptyBlock(ident.name, currentBlock)
  <2>1. blocks' = Append(blocks, new) /\ pc' = "inputs" /\ new.variables = << >>
    BY <1>18 DEF DefineProcedure, EmptyBlock
  <2> HIDE DEF new
  <2>2. \A b \in DOMAIN blocks' :
          \/ blocks'[b].variables = << >>
          \/ b \in DOMAIN blocks /\ blocks'[b].variables = blocks[b].variables
    BY <2>1, <1>2
  <2>3. DefineBeforeUse'
    BY <2>2, <1>1, DefineKept
  <2> QED  BY <2>1, <2>3, <1>5
<1>19. CASE FinishVariable
  <2> DEFINE added == AddVariable(blocks[currentBlock], TypeS64, expr, TextLength(expr.end))
             new   == [added EXCEPT !.statements = ArrayAdd(Len(added.variables), @)]
  <2>1. TextLength(expr.end) \in Int
    BY <1>2 DEF TextLength, Expression, Identifier
  <2>2. DeclaredBefore(expr, Len(blocks[currentBlock].variables))
    BY <1>1, <1>19 DEF FinishVariable, n
  <2>3. /\ added \in Block
        /\ \E v \in Variable :
             /\ added.variables = Append(blocks[currentBlock].variables, v)
             /\ DeclaredBefore(v.init, Len(blocks[currentBlock].variables))
    BY <1>2, <2>1, <2>2, TypeS64Range, AddVariableType, AddVariableDeclares
  <2>4. blocks' = [blocks EXCEPT ![currentBlock] = new] /\ pc' = "block"
    BY <1>19 DEF FinishVariable
  <2> HIDE DEF added
  <2>5. new.variables = added.variables
    BY <2>3 DEF Block
  <2> HIDE DEF new
  <2>6. DefineBeforeUse'
    BY <2>3, <2>4, <2>5, <1>10
  <2> QED  BY <2>4, <2>6, <1>5
<1>20. CASE ArgumentType
  <2> DEFINE new == AddVariable(blocks[currentBlock], FindTypeFromToken(token.name), NoExpr, 1)
  <2>1. NoExpr \in Expression /\ DeclaredBefore(NoExpr, Len(blocks[currentBlock].variables))
    BY DEF NoExpr, Expression, DeclaredBefore
  <2>2. \E v \in Variable :
          /\ new.variables = Append(blocks[currentBlock].variables, v)
          /\ DeclaredBefore(v.init, Len(blocks[currentBlock].variables))
    <3>1. FindTypeFromToken(token.name) \in 0 .. Len(Types) /\ 1 \in Int
      BY FindTypeRange
    <3> QED  BY <1>2, <2>1, <3>1, AddVariableDeclares
  <2>3. blocks' = [blocks EXCEPT ![currentBlock] = new] /\ pc' = "next"
    BY <1>20 DEF ArgumentType
  <2> HIDE DEF new
  <2>4. DefineBeforeUse'
    BY <2>2, <2>3, <1>10
  <2> QED  BY <2>3, <2>4, <1>5
<1>21. CASE ArgumentListReturns
  <2> DEFINE new == CountList(blocks[currentBlock])
  <2>1. /\ blocks' = [blocks EXCEPT ![currentBlock] = new]
        /\ pc' \in {"outputs", "body"}
    BY <1>21 DEF ArgumentListReturns, NextPart
  <2>2. new.variables = blocks[currentBlock].variables
    BY <1>2 DEF CountList, Block
  <2> HIDE DEF new
  <2>3. DefineBeforeUse'
    BY <2>1, <2>2, <1>10
  <2> QED  BY <2>1, <2>3, <1>5
<1>22. CASE UNCHANGED vars
  BY <1>1, <1>4, <1>22 DEF vars, DefineInv, DeclaredBefore, n
<1> QED
  BY <1>11, <1>12, <1>14, <1>15, <1>16, <1>17, <1>18, <1>19, <1>20, <1>21, <1>22
  DEF Next, Step, Terminated

(* It holds of the empty root block. *)
LEMMA DefineInit == Init => DefineInv
  BY TypeInit DEF Init, DefineInv, DefineBeforeUse, EmptyBlock

(* What FindVariable returns to an initialiser is a variable its own block declared
   earlier (AST.cpp:132-139, main.cpp:308-312). *)
THEOREM DefineBeforeUseCorrect == Spec => []DefineBeforeUse
<1>1. DefineInv => DefineBeforeUse
  BY DEF DefineInv
<1> QED  BY DefineInit, DefineStep, <1>1, PTL DEF Spec
-----------------------------------------------------------------------------
(***************************************************************************)
(* The tree the parser builds: every procedure hangs in it once, its       *)
(* parameters come before its statements, and the text kept of a variable  *)
(* is inside the file.                                                     *)
(***************************************************************************)
(* A step that moves between no scopes hangs no procedure anywhere.        *)
LEMMA OthersKeepProcedures ==
  ASSUME TypeInv, Others
  PROVE  /\ DOMAIN blocks' = DOMAIN blocks
         /\ \A b \in DOMAIN blocks : /\ blocks'[b].parent = blocks[b].parent
                                     /\ blocks'[b].procedures = blocks[b].procedures
<1>0. /\ blocks \in Seq(Block) /\ currentBlock \in DOMAIN blocks
      /\ blocks[currentBlock] \in Block
  BY DEF TypeInv, TypeOK
<1>1. ASSUME NEW new, blocks' = [blocks EXCEPT ![currentBlock] = new],
             new.parent = blocks[currentBlock].parent,
             new.procedures = blocks[currentBlock].procedures
      PROVE  /\ DOMAIN blocks' = DOMAIN blocks
             /\ \A b \in DOMAIN blocks : /\ blocks'[b].parent = blocks[b].parent
                                         /\ blocks'[b].procedures = blocks[b].procedures
  BY <1>0, <1>1
<1>2. CASE FinishVariable
  <2>. DEFINE added == AddVariable(blocks[currentBlock], TypeS64, expr, TextLength(expr.end))
              new   == [added EXCEPT !.statements = ArrayAdd(Len(added.variables), @)]
  <2>1. /\ added.parent = blocks[currentBlock].parent
        /\ added.procedures = blocks[currentBlock].procedures
    BY <1>0 DEF AddVariable, Block
  <2>2. DOMAIN added = DOMAIN blocks[currentBlock]
    BY DEF AddVariable
  <2>3. blocks' = [blocks EXCEPT ![currentBlock] = new]
    BY <1>2 DEF FinishVariable
  <2>. HIDE DEF added
  <2>4. new.parent = added.parent /\ new.procedures = added.procedures
    BY <1>0, <2>2 DEF Block
  <2>. HIDE DEF new
  <2>. QED
    BY <1>1, <2>1, <2>3, <2>4
<1>3. CASE ArgumentType
  <2>. DEFINE new == AddVariable(blocks[currentBlock], FindTypeFromToken(token.name), NoExpr, 1)
  <2>1. /\ new.parent = blocks[currentBlock].parent
        /\ new.procedures = blocks[currentBlock].procedures
    BY <1>0 DEF AddVariable, Block
  <2>2. blocks' = [blocks EXCEPT ![currentBlock] = new]
    BY <1>3 DEF ArgumentType
  <2>. HIDE DEF new
  <2>. QED
    BY <1>1, <2>1, <2>2
<1>4. CASE ArgumentListReturns
  <2>. DEFINE new == CountList(blocks[currentBlock])
  <2>1. /\ new.parent = blocks[currentBlock].parent
        /\ new.procedures = blocks[currentBlock].procedures
    BY <1>0 DEF CountList, Block
  <2>2. blocks' = [blocks EXCEPT ![currentBlock] = new]
    BY <1>4 DEF ArgumentListReturns
  <2>. HIDE DEF new
  <2>. QED
    BY <1>1, <2>1, <2>2
<1>5. CASE UNCHANGED blocks
  BY <1>5
<1>. QED
  BY <1>2, <1>3, <1>4, <1>5
  DEF Others, vars, ParseFile, ParseStatement, ParseFileReturns, DeclareVariable, LogNodeFaults,
      UnknownStatement, ParseLiteral, ParseReference, NoOperand, ParseOperator,
      ParseArgumentList, NoArgumentList, Argument, ArgumentColon, ArgumentComma,
      ArgumentListFails, ParseBody, NoBody, Abort, AddOperand

-----------------------------------------------------------------------------
(***************************************************************************)
(* Procedures.  The ones on the stack are different and in no block's      *)
(* list; a block's list holds blocks whose parent it is, each block at one *)
(* place in the tree; and whatever is not open is at one.                  *)
(***************************************************************************)
StackDistinct ==
  /\ \A k \in DOMAIN stack : stack[k].procedure # Root
  /\ \A j, k \in DOMAIN stack : stack[j].procedure = stack[k].procedure => j = k

AttachedOnce ==
  \A b, c \in DOMAIN blocks :
    \A k \in DOMAIN blocks[b].procedures, l \in DOMAIN blocks[c].procedures :
      blocks[b].procedures[k] = blocks[c].procedures[l] => b = c /\ k = l

AttachedClosed ==
  \A b \in DOMAIN blocks : \A k \in DOMAIN blocks[b].procedures :
    LET p == blocks[b].procedures[k]
    IN  p \in DOMAIN blocks /\ p \notin Open /\ blocks[p].parent = b

ClosedAttached ==
  \A p \in DOMAIN blocks : p \notin Open =>
    \E b \in DOMAIN blocks : \E k \in DOMAIN blocks[b].procedures : blocks[b].procedures[k] = p

AttachInv == ScopeInv /\ StackDistinct /\ AttachedOnce /\ AttachedClosed /\ ClosedAttached

LEMMA AttachTypes ==
  ASSUME ScopeInv
  PROVE  /\ blocks \in Seq(Block) /\ Len(blocks) \in Nat /\ Len(blocks) >= 1
         /\ DOMAIN blocks = 1 .. Len(blocks)
         /\ stack \in Seq(Frame) /\ Len(stack) \in Nat /\ DOMAIN stack = 1 .. Len(stack)
         /\ \A b \in DOMAIN blocks : blocks[b].procedures \in Seq(Nat)
         /\ \A k \in DOMAIN stack : /\ stack[k].procedure \in DOMAIN blocks
                                    /\ stack[k].thisBlock \in DOMAIN blocks
<1>1. blocks \in Seq(Block) /\ blocks # << >> /\ stack \in Seq(Frame)
  BY DEF ScopeInv, TypeInv, TypeOK
<1>2. Len(blocks) \in Nat /\ Len(blocks) >= 1
  BY <1>1, EmptySeq
<1>3. \A b \in DOMAIN blocks : blocks[b] \in Block
  BY <1>1
<1>4. \A k \in DOMAIN stack : stack[k] \in Frame
  BY <1>1
<1>5. \A b \in DOMAIN blocks : blocks[b].procedures \in Seq(Nat)
  BY <1>3 DEF Block
<1>6. \A k \in DOMAIN stack : /\ stack[k].procedure \in DOMAIN blocks
                               /\ stack[k].thisBlock \in DOMAIN blocks
  BY <1>4 DEF Frame
<1>7. /\ DOMAIN blocks = 1 .. Len(blocks) /\ DOMAIN stack = 1 .. Len(stack)
      /\ Len(stack) \in Nat
  BY <1>1
<1>. QED
  BY <1>1, <1>2, <1>5, <1>6, <1>7

LEMMA AttachOthers == AttachInv /\ Others => AttachInv'
<1>. SUFFICES ASSUME AttachInv, Others PROVE AttachInv'
  OBVIOUS
<1>1. UNCHANGED stack
  BY OthersKeepScope
<1>2. /\ DOMAIN blocks' = DOMAIN blocks
      /\ \A b \in DOMAIN blocks : /\ blocks'[b].parent = blocks[b].parent
                                  /\ blocks'[b].procedures = blocks[b].procedures
  BY OthersKeepProcedures DEF AttachInv, ScopeInv
<1>3. ScopeInv'
  BY ScopeStep DEF AttachInv, Others, Next, Step
<1>4. Open' = Open /\ StackDistinct'
  BY <1>1 DEF AttachInv, Open, StackDistinct
<1>5. AttachedOnce'
  BY <1>2 DEF AttachInv, AttachedOnce
<1>6. AttachedClosed'
  BY <1>2, <1>4 DEF AttachInv, AttachedClosed
<1>7. ClosedAttached'
  BY <1>2, <1>4 DEF AttachInv, ClosedAttached
<1>. QED
  BY <1>3, <1>4, <1>5, <1>6, <1>7 DEF AttachInv

(* A new procedure is open and nowhere in the tree.                        *)
LEMMA AttachDefine == AttachInv /\ DefineProcedure => AttachInv'
<1>. SUFFICES ASSUME AttachInv, DefineProcedure PROVE AttachInv'
  OBVIOUS
<1>. DEFINE new   == Len(blocks) + 1
            frame == [thisBlock |-> currentBlock, procedure |-> new]
<1>0. ScopeInv
  BY DEF AttachInv
<1>1. ScopeInv'
  BY <1>0, ScopeStep DEF Next, Step
<1>2. /\ DOMAIN blocks' = DOMAIN blocks \cup {new} /\ new \notin DOMAIN blocks
      /\ \A b \in DOMAIN blocks : blocks'[b] = blocks[b]
      /\ blocks'[new].procedures = << >>
      /\ new # Root /\ Root \in DOMAIN blocks
  <2>. DEFINE e == EmptyBlock(ident.name, currentBlock)
  <2>1. blocks' = Append(blocks, e) /\ e.procedures = << >>
    BY DEF DefineProcedure, EmptyBlock
  <2>. HIDE DEF e
  <2>. QED
    BY <1>0, <2>1, AttachTypes DEF Root
<1>3. /\ DOMAIN stack' = 1 .. Len(stack) + 1 /\ stack'[1].procedure = new
      /\ \A k \in DOMAIN stack' \ {1} : k - 1 \in DOMAIN stack /\ stack'[k] = stack[k - 1]
      /\ \A k \in DOMAIN stack : k + 1 \in DOMAIN stack' /\ stack'[k + 1] = stack[k]
  <2>1. stack' = <<frame>> \o stack
    BY DEF DefineProcedure
  <2>2. frame.procedure = new
    OBVIOUS
  <2>. HIDE DEF frame
  <2>. QED
    BY <1>0, <2>1, <2>2, AttachTypes
<1>. HIDE DEF new
<1>4. StackDistinct'
  <2>1. ASSUME NEW k \in DOMAIN stack' \ {1}
        PROVE  stack'[k].procedure # Root /\ stack'[k].procedure # new
    BY <1>0, <1>2, <1>3, <2>1, AttachTypes DEF AttachInv, StackDistinct
  <2>2. ASSUME NEW j \in DOMAIN stack', NEW k \in DOMAIN stack',
               stack'[j].procedure = stack'[k].procedure
        PROVE  j = k
    <3>1. CASE j = 1 \/ k = 1
      BY <1>3, <2>1, <2>2, <3>1
    <3>2. CASE j # 1 /\ k # 1
      <4>1. j - 1 = k - 1
        BY <1>3, <2>2, <3>2 DEF AttachInv, StackDistinct
      <4>. QED
        BY <1>3, <4>1
    <3>. QED
      BY <3>1, <3>2
  <2>. QED
    BY <1>2, <1>3, <2>1, <2>2 DEF StackDistinct
<1>5. Open' = Open \cup {new}
  <2>1. \A x : x \in Open' <=> x \in Open \cup {new}
    <3>1. ASSUME NEW x \in Open' PROVE x \in Open \cup {new}
      BY <1>3 DEF Open
    <3>2. ASSUME NEW x \in Open \cup {new} PROVE x \in Open'
      <4>1. CASE x = new
        BY <1>0, <1>3, <4>1, AttachTypes DEF Open
      <4>2. CASE x \in Open
        BY <1>3, <4>2 DEF Open
      <4>. QED
        BY <4>1, <4>2
    <3>. QED
      BY <3>1, <3>2
  <2>. QED
    BY <2>1
<1>6. ASSUME NEW b \in DOMAIN blocks', NEW k \in DOMAIN blocks'[b].procedures
      PROVE  b \in DOMAIN blocks /\ blocks'[b] = blocks[b]
  BY <1>2
<1>7. AttachedOnce'
  BY <1>6 DEF AttachInv, AttachedOnce
<1>8. AttachedClosed'
  BY <1>2, <1>5, <1>6 DEF AttachInv, AttachedClosed
<1>9. ClosedAttached'
  BY <1>2, <1>5 DEF AttachInv, ClosedAttached
<1>. QED
  BY <1>1, <1>4, <1>7, <1>8, <1>9 DEF AttachInv

(* The procedure that returns is attached to its parent and closed.        *)
LEMMA AttachReturn == AttachInv /\ ParseProcedureReturns => AttachInv'
<1>. SUFFICES ASSUME AttachInv, ParseProcedureReturns PROVE AttachInv'
  OBVIOUS
<1>. DEFINE p == stack[1].procedure
            t == stack[1].thisBlock
            n == Len(blocks[t].procedures)
<1>0. ScopeInv
  BY DEF AttachInv
<1>1. ScopeInv'
  BY <1>0, ScopeStep DEF Next, Step
<1>2. /\ 1 \in DOMAIN stack /\ stack # << >> /\ Head(stack) = stack[1]
      /\ p \in DOMAIN blocks /\ t \in DOMAIN blocks /\ p \in Open /\ p # Root
      /\ blocks[p].parent = t
  <2>1. stack # << >>
    BY DEF ParseProcedureReturns
  <2>2. 1 \in DOMAIN stack
    BY <1>0, <2>1, AttachTypes, EmptySeq
  <2>. QED
    BY <1>0, <2>1, <2>2, AttachTypes DEF AttachInv, ScopeInv, ScopeFollowsStack, StackDistinct, Open
<1>3. /\ DOMAIN blocks' = DOMAIN blocks
      /\ \A b \in DOMAIN blocks : blocks'[b].parent = blocks[b].parent
      /\ \A b \in DOMAIN blocks \ {t} : blocks'[b].procedures = blocks[b].procedures
      /\ blocks'[t].procedures = Append(blocks[t].procedures, p)
  <2>1. blocks' = [blocks EXCEPT ![t].procedures = Append(@, p)]
    BY <1>2 DEF ParseProcedureReturns, AttachTo, CallerBlock, ArrayAdd
  <2>2. blocks[t] \in Block
    BY <1>2 DEF AttachInv, ScopeInv, TypeInv, TypeOK
  <2>. HIDE DEF p, t
  <2>. QED
    BY <1>2, <2>1, <2>2 DEF Block
<1>4. /\ n \in Nat /\ DOMAIN blocks[t].procedures = 1 .. n
      /\ DOMAIN blocks'[t].procedures = 1 .. n + 1
      /\ blocks'[t].procedures[n + 1] = p
      /\ \A k \in 1 .. n : blocks'[t].procedures[k] = blocks[t].procedures[k]
  <2>1. blocks[t].procedures \in Seq(Nat) /\ p \in Nat
    BY <1>0, <1>2, AttachTypes
  <2>. HIDE DEF p, t
  <2>. QED
    BY <1>3, <2>1
<1>5. /\ DOMAIN stack' = 1 .. Len(stack) - 1
      /\ \A k \in DOMAIN stack' : k + 1 \in DOMAIN stack \ {1} /\ stack'[k] = stack[k + 1]
      /\ \A k \in DOMAIN stack \ {1} : k - 1 \in DOMAIN stack' /\ stack'[k - 1] = stack[k]
  <2>1. stack' = Tail(stack) /\ Len(stack) > 0
    BY <1>0, <1>2, AttachTypes DEF ParseProcedureReturns, PopFrame
  <2>. QED
    BY <1>0, <2>1, AttachTypes
<1>6. StackDistinct'
  <2>1. ASSUME NEW j \in DOMAIN stack', NEW k \in DOMAIN stack',
               stack'[j].procedure = stack'[k].procedure
        PROVE  j = k
    <3>1. j + 1 = k + 1
      BY <1>5, <2>1 DEF AttachInv, StackDistinct
    <3>. QED
      BY <1>5, <3>1
  <2>. QED
    BY <1>5, <2>1 DEF AttachInv, StackDistinct
<1>7. \A x : x \in Open' <=> x \in Open /\ x # p
  <2>1. ASSUME NEW x \in Open' PROVE x \in Open /\ x # p
    <3>1. CASE x = Root
      BY <1>2, <3>1 DEF Open
    <3>2. CASE x # Root
      <4>1. PICK k \in DOMAIN stack' : x = stack'[k].procedure
        BY <2>1, <3>2 DEF Open
      <4>2. k + 1 \in DOMAIN stack \ {1} /\ x = stack[k + 1].procedure
        BY <1>5, <4>1
      <4>. QED
        BY <1>2, <4>2 DEF AttachInv, StackDistinct, Open
    <3>. QED
      BY <3>1, <3>2
  <2>2. ASSUME NEW x \in Open, x # p PROVE x \in Open'
    <3>1. CASE x = Root
      BY <3>1 DEF Open
    <3>2. CASE x # Root
      <4>1. PICK k \in DOMAIN stack : x = stack[k].procedure
        BY <2>2, <3>2 DEF Open
      <4>2. k - 1 \in DOMAIN stack' /\ x = stack'[k - 1].procedure
        BY <1>5, <2>2, <4>1
      <4>. QED
        BY <4>2 DEF Open
    <3>. QED
      BY <3>1, <3>2
  <2>. QED
    BY <2>1, <2>2
<1>. DEFINE At(b, k) == blocks[b].procedures[k]
<1>. HIDE DEF p, t, n
<1>8. ASSUME NEW b \in DOMAIN blocks', NEW k \in DOMAIN blocks'[b].procedures
      PROVE  /\ b \in DOMAIN blocks
             /\ \/ k \in DOMAIN blocks[b].procedures /\ blocks'[b].procedures[k] = At(b, k)
                \/ b = t /\ k = n + 1 /\ blocks'[b].procedures[k] = p
  <2>1. CASE b = t
    <3>1. b \in DOMAIN blocks /\ k \in 1 .. n + 1
      BY <1>2, <1>4, <1>8, <2>1
    <3>2. CASE k = n + 1
      BY <1>4, <2>1, <3>1, <3>2
    <3>3. CASE k # n + 1
      <4>1. k \in 1 .. n
        BY <1>4, <3>1, <3>3
      <4>. QED
        BY <1>4, <2>1, <3>1, <4>1
    <3>. QED
      BY <3>2, <3>3
  <2>2. CASE b # t
    BY <1>3, <1>8, <2>2
  <2>. QED
    BY <2>1, <2>2
<1>9. ASSUME NEW b \in DOMAIN blocks, NEW k \in DOMAIN blocks[b].procedures
      PROVE  At(b, k) # p
  BY <1>2, <1>9 DEF AttachInv, AttachedClosed
<1>10. AttachedOnce'
  <2>1. ASSUME NEW b \in DOMAIN blocks', NEW c \in DOMAIN blocks',
               NEW k \in DOMAIN blocks'[b].procedures, NEW l \in DOMAIN blocks'[c].procedures,
               blocks'[b].procedures[k] = blocks'[c].procedures[l]
        PROVE  b = c /\ k = l
    <3>1. CASE k \in DOMAIN blocks[b].procedures /\ blocks'[b].procedures[k] = At(b, k)
      <4>1. l \in DOMAIN blocks[c].procedures /\ blocks'[c].procedures[l] = At(c, l)
        BY <1>8, <1>9, <2>1, <3>1
      <4>2. b \in DOMAIN blocks /\ c \in DOMAIN blocks
        BY <1>8, <2>1
      <4>3. blocks[b].procedures[k] = blocks[c].procedures[l]
        BY <2>1, <3>1, <4>1
      <4>. QED
        BY <3>1, <4>1, <4>2, <4>3 DEF AttachInv, AttachedOnce
    <3>2. CASE b = t /\ k = n + 1 /\ blocks'[b].procedures[k] = p
      BY <1>8, <1>9, <2>1, <3>2
    <3>. QED
      BY <1>8, <3>1, <3>2
  <2>. QED
    BY <2>1 DEF AttachedOnce
<1>11. AttachedClosed'
  <2>1. ASSUME NEW b \in DOMAIN blocks', NEW k \in DOMAIN blocks'[b].procedures
        PROVE  LET q == blocks'[b].procedures[k]
               IN  q \in DOMAIN blocks' /\ q \notin Open' /\ blocks'[q].parent = b
    <3>1. CASE k \in DOMAIN blocks[b].procedures /\ blocks'[b].procedures[k] = At(b, k)
      BY <1>3, <1>7, <1>8, <3>1 DEF AttachInv, AttachedClosed
    <3>2. CASE b = t /\ k = n + 1 /\ blocks'[b].procedures[k] = p
      BY <1>2, <1>3, <1>7, <3>2
    <3>. QED
      BY <1>8, <3>1, <3>2
  <2>. QED
    BY <2>1 DEF AttachedClosed
<1>12. ClosedAttached'
  <2>1. ASSUME NEW q \in DOMAIN blocks', q \notin Open'
        PROVE  \E b \in DOMAIN blocks' : \E k \in DOMAIN blocks'[b].procedures :
                 blocks'[b].procedures[k] = q
    <3>1. CASE q = p
      BY <1>2, <1>3, <1>4, <3>1
    <3>2. CASE q # p
      <4>1. PICK b \in DOMAIN blocks : \E k \in DOMAIN blocks[b].procedures : At(b, k) = q
        BY <1>3, <1>7, <2>1, <3>2 DEF AttachInv, ClosedAttached
      <4>2. PICK k \in DOMAIN blocks[b].procedures : At(b, k) = q
        BY <4>1
      <4>3. k \in DOMAIN blocks'[b].procedures /\ blocks'[b].procedures[k] = At(b, k)
        BY <1>3, <1>4
      <4>. QED
        BY <1>3, <4>2, <4>3
    <3>. QED
      BY <3>1, <3>2
  <2>. QED
    BY <2>1 DEF ClosedAttached
<1>. QED
  BY <1>1, <1>6, <1>10, <1>11, <1>12 DEF AttachInv

LEMMA AttachInit == Init => AttachInv
<1>. SUFFICES ASSUME Init PROVE AttachInv
  OBVIOUS
<1>1. /\ DOMAIN blocks = {Root} /\ blocks[Root].procedures = << >> /\ stack = << >>
      /\ Open = {Root}
  BY DEF Init, Root, EmptyBlock, Open
<1>2. ScopeInv
  BY ScopeInit
<1>. QED
  BY <1>1, <1>2 DEF AttachInv, StackDistinct, AttachedOnce, AttachedClosed, ClosedAttached

LEMMA AttachStep == AttachInv /\ [Next]_vars => AttachInv'
BY NextCases, AttachOthers, AttachDefine, AttachReturn

(* A procedure its parent lists hangs nowhere else.                        *)
LEMMA AttachedInOnePlace == AttachInv => ProceduresAttachedOnce
<1>. SUFFICES ASSUME AttachInv, NEW p \in DOMAIN blocks \ {Root}
              PROVE  IF p \in Open THEN Attachments(p) = {}
                     ELSE \E k \in DOMAIN blocks[blocks[p].parent].procedures :
                            Attachments(p) = {<<blocks[p].parent, k>>}
  BY DEF ProceduresAttachedOnce
<1>1. \A at : at \in Attachments(p) <=>
        \E b \in DOMAIN blocks : \E k \in DOMAIN blocks[b].procedures :
          at = <<b, k>> /\ blocks[b].procedures[k] = p
  BY DEF Attachments
<1>2. CASE p \in Open
  BY <1>1, <1>2 DEF AttachInv, AttachedClosed
<1>3. CASE p \notin Open
  <2>1. PICK b \in DOMAIN blocks : \E k \in DOMAIN blocks[b].procedures :
          blocks[b].procedures[k] = p
    BY <1>3 DEF AttachInv, ClosedAttached
  <2>2. PICK k \in DOMAIN blocks[b].procedures : blocks[b].procedures[k] = p
    BY <2>1
  <2>3. blocks[p].parent = b
    BY <2>2 DEF AttachInv, AttachedClosed
  <2>4. \A at : at \in Attachments(p) <=> at = <<b, k>>
    BY <1>1, <2>2 DEF AttachInv, AttachedOnce
  <2>5. Attachments(p) = {<<b, k>>}
    BY <2>4
  <2>. QED
    BY <1>3, <2>3, <2>5
<1>. QED
  BY <1>2, <1>3

(***************************************************************************)
(* Every procedure is attached to its parent once its body has ended, in   *)
(* one place, and not before (the end of ParseBlock's loop, main.cpp:360). *)
(***************************************************************************)
THEOREM AttachedOnceCorrect == Spec => []ProceduresAttachedOnce
<1>. QED
  BY AttachedInOnePlace, AttachInit, AttachStep, PTL DEF Spec

-----------------------------------------------------------------------------
(***************************************************************************)
(* Variables.  A step adds at most one, at the end of the current block:   *)
(* the one declared by a statement or a parameter.                         *)
(***************************************************************************)
Declared(type, init, length) ==
  [name |-> ident.name, type |-> type, init |-> init, text |-> ident.text,
   textLength |-> length]

OfStatement == Declared(TypeS64, expr, TextLength(expr.end))
OfParameter == Declared(FindTypeFromToken(token.name), NoExpr, 1)

(* AddVariable puts the variable behind the others and touches nothing else. *)
LEMMA AddVariableFields ==
  ASSUME NEW block \in Block, NEW type, NEW init, NEW length
  PROVE  LET added == AddVariable(block, type, init, length)
         IN  /\ added.variables = Append(block.variables, Declared(type, init, length))
             /\ added.statements = block.statements
             /\ added.inputCount = block.inputCount
             /\ added.outputCount = block.outputCount
             /\ DOMAIN added = DOMAIN block
<1>. DEFINE v == Declared(type, init, length)
<1>1. AddVariable(block, type, init, length) = [block EXCEPT !.variables = Append(@, v)]
  BY DEF AddVariable, ArrayAdd, Declared
<1>. DEFINE vs == Append(block.variables, v)
<1>2. AddVariable(block, type, init, length) = [block EXCEPT !.variables = vs]
  BY <1>1
<1>. HIDE DEF vs
<1>3. LET added == [block EXCEPT !.variables = vs]
      IN  /\ added.variables = vs
          /\ added.statements = block.statements
          /\ added.inputCount = block.inputCount
          /\ added.outputCount = block.outputCount
          /\ DOMAIN added = DOMAIN block
  BY DEF Block
<1>. QED
  BY <1>2, <1>3 DEF vs

LEMMA BlockFacts ==
  ASSUME TypeInv
  PROVE  /\ blocks \in Seq(Block) /\ currentBlock \in DOMAIN blocks
         /\ \A b \in DOMAIN blocks :
              /\ blocks[b] \in Block
              /\ blocks[b].variables \in Seq(Variable)
              /\ blocks[b].statements \in Seq(Nat)
              /\ blocks[b].inputCount \in Nat /\ blocks[b].outputCount \in Nat
<1>1. blocks \in Seq(Block) /\ currentBlock \in DOMAIN blocks
  BY DEF TypeInv, TypeOK
<1>2. \A b \in DOMAIN blocks : blocks[b] \in Block
  BY <1>1
<1>. QED
  BY <1>1, <1>2 DEF Block

(***************************************************************************)
(* What a step makes of the blocks.  The parameters of a procedure and the *)
(* variables of its statements are added to the current block.             *)
(***************************************************************************)
Unchanged(b) ==
  /\ blocks'[b].variables = blocks[b].variables
  /\ blocks'[b].statements = blocks[b].statements
  /\ blocks'[b].inputCount = blocks[b].inputCount
  /\ blocks'[b].outputCount = blocks[b].outputCount

LEMMA FinishVariableAdds ==
  ASSUME TypeInv, FinishVariable
  PROVE  /\ DOMAIN blocks' = DOMAIN blocks
         /\ \A b \in DOMAIN blocks \ {currentBlock} : blocks'[b] = blocks[b]
         /\ LET old == blocks[currentBlock]
                new == blocks'[currentBlock]
            IN  /\ new.variables = Append(old.variables, OfStatement)
                /\ new.statements = Append(old.statements, Len(old.variables) + 1)
                /\ new.inputCount = old.inputCount /\ new.outputCount = old.outputCount
<1>. DEFINE old   == blocks[currentBlock]
            added == AddVariable(old, TypeS64, expr, TextLength(expr.end))
            new   == [added EXCEPT !.statements = ArrayAdd(Len(added.variables), @)]
<1>1. /\ blocks \in Seq(Block) /\ currentBlock \in DOMAIN blocks /\ old \in Block
      /\ old.variables \in Seq(Variable)
  BY BlockFacts
<1>2. blocks' = [blocks EXCEPT ![currentBlock] = new]
  BY DEF FinishVariable
<1>3. /\ added.variables = Append(old.variables, OfStatement)
      /\ added.statements = old.statements
      /\ added.inputCount = old.inputCount /\ added.outputCount = old.outputCount
      /\ DOMAIN added = DOMAIN old
  BY <1>1, AddVariableFields DEF OfStatement
<1>4. Len(added.variables) = Len(old.variables) + 1
  BY <1>1, <1>3
<1>. HIDE DEF added
<1>5. /\ new.variables = added.variables
      /\ new.statements = Append(added.statements, Len(added.variables))
      /\ new.inputCount = added.inputCount /\ new.outputCount = added.outputCount
  BY <1>1, <1>3 DEF Block, ArrayAdd
<1>. HIDE DEF new
<1>6. blocks'[currentBlock] = new
  BY <1>1, <1>2
<1>. QED
  BY <1>1, <1>2, <1>3, <1>4, <1>5, <1>6

LEMMA ArgumentTypeAdds ==
  ASSUME TypeInv, ArgumentType
  PROVE  /\ DOMAIN blocks' = DOMAIN blocks
         /\ \A b \in DOMAIN blocks \ {currentBlock} : blocks'[b] = blocks[b]
         /\ LET old == blocks[currentBlock]
                new == blocks'[currentBlock]
            IN  /\ new.variables = Append(old.variables, OfParameter)
                /\ new.statements = old.statements
                /\ new.inputCount = old.inputCount /\ new.outputCount = old.outputCount
<1>. DEFINE old == blocks[currentBlock]
            new == AddVariable(old, FindTypeFromToken(token.name), NoExpr, 1)
<1>1. blocks \in Seq(Block) /\ currentBlock \in DOMAIN blocks /\ old \in Block
  BY DEF TypeInv, TypeOK
<1>2. blocks' = [blocks EXCEPT ![currentBlock] = new]
  BY DEF ArgumentType
<1>3. /\ new.variables = Append(old.variables, OfParameter)
      /\ new.statements = old.statements
      /\ new.inputCount = old.inputCount /\ new.outputCount = old.outputCount
  BY <1>1, AddVariableFields DEF OfParameter
<1>. HIDE DEF new
<1>4. blocks'[currentBlock] = new
  BY <1>1, <1>2
<1>. QED
  BY <1>1, <1>2, <1>3, <1>4

LEMMA ArgumentListReturnsCounts ==
  ASSUME TypeInv, ArgumentListReturns
  PROVE  /\ DOMAIN blocks' = DOMAIN blocks
         /\ \A b \in DOMAIN blocks \ {currentBlock} : blocks'[b] = blocks[b]
         /\ LET old == blocks[currentBlock]
                new == blocks'[currentBlock]
            IN  /\ new.variables = old.variables /\ new.statements = old.statements
                /\ IF list = "inputs"
                   THEN /\ new.inputCount = Len(old.variables)
                        /\ new.outputCount = old.outputCount
                   ELSE /\ new.inputCount = old.inputCount
                        /\ new.outputCount = Len(old.variables) - old.inputCount
<1>. DEFINE old == blocks[currentBlock]
            new == CountList(old)
<1>1. blocks \in Seq(Block) /\ currentBlock \in DOMAIN blocks /\ old \in Block
  BY DEF TypeInv, TypeOK
<1>2. blocks' = [blocks EXCEPT ![currentBlock] = new]
  BY DEF ArgumentListReturns
<1>3. /\ new.variables = old.variables /\ new.statements = old.statements
      /\ IF list = "inputs"
         THEN new.inputCount = Len(old.variables) /\ new.outputCount = old.outputCount
         ELSE /\ new.inputCount = old.inputCount
              /\ new.outputCount = Len(old.variables) - old.inputCount
  BY <1>1 DEF CountList, Block
<1>. HIDE DEF new
<1>4. blocks'[currentBlock] = new
  BY <1>1, <1>2
<1>. QED
  BY <1>1, <1>2, <1>3, <1>4

LEMMA DefineProcedureAdds ==
  ASSUME TypeInv, DefineProcedure
  PROVE  /\ DOMAIN blocks' = DOMAIN blocks \cup {currentBlock'}
         /\ currentBlock' \notin DOMAIN blocks
         /\ \A b \in DOMAIN blocks : blocks'[b] = blocks[b]
         /\ LET new == blocks'[currentBlock']
            IN  /\ new.variables = << >> /\ new.statements = << >>
                /\ new.inputCount = 0 /\ new.outputCount = 0
<1>. DEFINE new == EmptyBlock(ident.name, currentBlock)
<1>1. blocks \in Seq(Block)
  BY DEF TypeInv, TypeOK
<1>2. blocks' = Append(blocks, new) /\ currentBlock' = Len(blocks) + 1
  BY DEF DefineProcedure
<1>3. /\ new.variables = << >> /\ new.statements = << >>
      /\ new.inputCount = 0 /\ new.outputCount = 0
  BY DEF EmptyBlock
<1>. HIDE DEF new
<1>. QED
  BY <1>1, <1>2, <1>3

LEMMA ProcedureReturnsKeeps ==
  ASSUME TypeInv, ParseProcedureReturns
  PROVE  DOMAIN blocks' = DOMAIN blocks /\ \A b \in DOMAIN blocks : Unchanged(b)
<1>. DEFINE t   == Head(stack).thisBlock
            new == [blocks[t] EXCEPT !.procedures = Append(@, Head(stack).procedure)]
<1>1. blocks \in Seq(Block) /\ t \in DOMAIN blocks
  <2>1. Head(stack) \in Frame
    BY DEF ParseProcedureReturns, TypeInv, TypeOK
  <2>. QED
    BY <2>1 DEF Frame, TypeInv, TypeOK
<1>2. blocks' = [blocks EXCEPT ![t] = new]
  BY DEF ParseProcedureReturns, AttachTo, CallerBlock, ArrayAdd
<1>3. blocks[t] \in Block
  BY <1>1
<1>. HIDE DEF t
<1>4. /\ new.variables = blocks[t].variables /\ new.statements = blocks[t].statements
      /\ new.inputCount = blocks[t].inputCount /\ new.outputCount = blocks[t].outputCount
  BY <1>3 DEF Block
<1>. HIDE DEF new
<1>. QED
  BY <1>1, <1>2, <1>4 DEF Unchanged

-----------------------------------------------------------------------------
(***************************************************************************)
(* Parameters.  Between statements every block has its parameters before   *)
(* them; while its argument lists are parsed a procedure has no statements *)
(* yet, and is counted as far as the lists that have ended.                *)
(***************************************************************************)
Settled == {"start", "block", "kind", "operand", "operator", "parsed", "unopened"}
Listing == {"args", "colon", "type", "next"}

ParametersFirst(block) ==
  LET parameters == block.inputCount + block.outputCount
  IN  /\ Len(block.variables) = parameters + Len(block.statements)
      /\ \A k \in DOMAIN block.statements : block.statements[k] = parameters + k

Declaring(block, at, part) ==
  /\ block.statements = << >>
  /\ at = "inputs" => block.variables = << >> /\ block.inputCount = 0
  /\ at = "inputs" \/ (part = "inputs" /\ at \in Listing) => block.outputCount = 0
  /\ at = "outputs" => Len(block.variables) = block.inputCount /\ block.outputCount = 0
  /\ at \in Listing => part # "none"
  /\ at = "body" => Len(block.variables) = block.inputCount + block.outputCount

ParamInv ==
  /\ TypeInv
  /\ \A b \in DOMAIN blocks \ {currentBlock} : ParametersFirst(blocks[b])
  /\ pc \in Settled => ParametersFirst(blocks[currentBlock])
  /\ pc \in Listing \cup {"inputs", "outputs", "body"} => Declaring(blocks[currentBlock], pc, list)

LEMMA ParamInit == Init => ParamInv
<1>. SUFFICES ASSUME Init PROVE ParamInv
  OBVIOUS
<1>1. /\ DOMAIN blocks = {Root} /\ currentBlock = Root /\ pc = "start"
      /\ blocks[Root].variables = << >> /\ blocks[Root].statements = << >>
      /\ blocks[Root].inputCount = 0 /\ blocks[Root].outputCount = 0
  BY DEF Init, Root, EmptyBlock
<1>. QED
  BY <1>1, TypeInit DEF ParamInv, ParametersFirst, Settled, Listing

(* A step that changes no block.                                           *)
LEMMA ParamSame ==
  ASSUME ParamInv, TypeInv', UNCHANGED <<blocks, currentBlock>>,
         pc' \in Settled => ParametersFirst(blocks[currentBlock]),
         pc' \in Listing \cup {"inputs", "outputs", "body"} => Declaring(blocks[currentBlock], pc', list')
  PROVE  ParamInv'
  BY DEF ParamInv

LEMMA ParamStep == ParamInv /\ [Next]_vars => ParamInv'
<1>. SUFFICES ASSUME ParamInv, [Next]_vars PROVE ParamInv'
  OBVIOUS
<1>. DEFINE old == blocks[currentBlock]
            new == blocks'[currentBlock']
<1>1. /\ TypeInv /\ TypeInv'
      /\ \A b \in DOMAIN blocks \ {currentBlock} : ParametersFirst(blocks[b])
      /\ pc \in Settled => ParametersFirst(old)
      /\ pc \in Listing \cup {"inputs", "outputs", "body"} => Declaring(old, pc, list)
  BY TypeStep DEF ParamInv
<1>2. /\ currentBlock \in DOMAIN blocks
      /\ old.variables \in Seq(Variable) /\ old.statements \in Seq(Nat)
      /\ old.inputCount \in Nat /\ old.outputCount \in Nat
  BY <1>1, BlockFacts
<1>3. ASSUME DOMAIN blocks' = DOMAIN blocks, UNCHANGED currentBlock,
             \A b \in DOMAIN blocks \ {currentBlock} : blocks'[b] = blocks[b],
             pc' \in Settled => ParametersFirst(new),
             pc' \in Listing \cup {"inputs", "outputs", "body"} => Declaring(new, pc', list')
      PROVE  ParamInv'
  BY <1>1, <1>3 DEF ParamInv
<1>4. CASE \/ ParseFile \/ ParseStatement \/ ParseFileReturns \/ DeclareVariable
           \/ LogNodeFaults \/ UnknownStatement \/ ParseLiteral \/ ParseReference
           \/ NoOperand \/ ParseOperator \/ ArgumentListFails \/ NoBody
  <2>1. /\ UNCHANGED <<blocks, currentBlock>>
        /\ pc' \notin Listing \cup {"inputs", "outputs", "body"}
        /\ pc' \in Settled => pc \in Settled
    BY <1>4
    DEF ParseFile, ParseStatement, ParseFileReturns, DeclareVariable, LogNodeFaults,
        UnknownStatement, ParseLiteral, ParseReference, NoOperand, ParseOperator,
        ArgumentListFails, NoBody, AddOperand, Abort, Settled, Listing
  <2>. QED
    BY <1>1, <2>1, ParamSame
<1>5. CASE \/ ParseArgumentList \/ Argument \/ ArgumentColon \/ ArgumentComma
  <2>1. /\ UNCHANGED <<blocks, currentBlock>> /\ pc' \in Listing
        /\ \/ pc \in Listing /\ UNCHANGED list
           \/ pc \in {"inputs", "outputs"} /\ list' = pc
    BY <1>5 DEF ParseArgumentList, Argument, ArgumentColon, ArgumentComma, Listing
  <2>2. Declaring(old, pc, list)
    BY <1>1, <2>1
  <2>3. Declaring(old, pc', list')
    BY <2>1, <2>2 DEF Declaring, Listing
  <2>4. pc' \notin Settled
    BY <2>1 DEF Settled, Listing
  <2>. QED
    BY <1>1, <2>1, <2>3, <2>4, ParamSame
<1>6. CASE NoArgumentList
  <2>1. /\ UNCHANGED <<blocks, currentBlock, list>>
        /\ \/ pc = "inputs" /\ pc' = "outputs"
           \/ pc = "outputs" /\ pc' = "body"
    BY <1>6 DEF NoArgumentList, NextPart
  <2>2. Declaring(old, pc, list)
    BY <1>1, <2>1
  <2>. HIDE DEF old
  <2>3. Declaring(old, pc', list')
    <3>1. CASE pc = "inputs"
      <4>1. Len(old.variables) = 0 /\ old.inputCount = 0 /\ old.outputCount = 0
        BY <2>2, <3>1 DEF Declaring
      <4>. QED
        BY <2>1, <2>2, <3>1, <4>1 DEF Declaring, Listing
    <3>2. CASE pc = "outputs"
      BY <1>2, <2>1, <2>2, <3>2 DEF Declaring, Listing
    <3>. QED
      BY <2>1, <3>1, <3>2
  <2>4. pc' \notin Settled
    BY <2>1 DEF Settled
  <2>. QED
    BY <1>1, <2>1, <2>3, <2>4, ParamSame DEF old
<1>7. CASE ParseBody
  <2>1. UNCHANGED <<blocks, currentBlock>> /\ pc = "body" /\ pc' = "block"
    BY <1>7 DEF ParseBody
  <2>2. Declaring(old, pc, list)
    BY <1>1, <2>1
  <2>3. ParametersFirst(old)
    BY <1>2, <2>1, <2>2 DEF Declaring, ParametersFirst
  <2>. QED
    BY <1>1, <2>1, <2>3, ParamSame DEF Listing
<1>8. CASE FinishVariable
  <2>1. pc = "operator" /\ pc' = "block" /\ UNCHANGED currentBlock
    BY <1>8 DEF FinishVariable
  <2>2. /\ DOMAIN blocks' = DOMAIN blocks
        /\ \A b \in DOMAIN blocks \ {currentBlock} : blocks'[b] = blocks[b]
        /\ new.variables = Append(old.variables, OfStatement)
        /\ new.statements = Append(old.statements, Len(old.variables) + 1)
        /\ new.inputCount = old.inputCount /\ new.outputCount = old.outputCount
    BY <1>1, <1>8, <2>1, FinishVariableAdds
  <2>3. ParametersFirst(old)
    BY <1>1, <2>1 DEF Settled
  <2>. HIDE DEF old, new
  <2>4. ParametersFirst(new)
    <3>0. /\ Len(old.variables) = old.inputCount + old.outputCount + Len(old.statements)
          /\ \A k \in DOMAIN old.statements :
               old.statements[k] = old.inputCount + old.outputCount + k
      BY <2>3 DEF ParametersFirst
    <3>. DEFINE parameters == old.inputCount + old.outputCount
                m          == Len(old.statements)
    <3>4. /\ new.inputCount + new.outputCount = parameters
          /\ parameters \in Nat /\ m \in Nat /\ Len(old.variables) = parameters + m
      BY <1>2, <2>2, <3>0
    <3>1. Len(new.variables) = Len(old.variables) + 1
      BY <1>2, <2>2
    <3>2. Len(new.statements) = Len(old.statements) + 1
      BY <1>2, <2>2
    <3>3. ASSUME NEW k \in DOMAIN new.statements
          PROVE  new.statements[k] = new.inputCount + new.outputCount + k
      <4>1. CASE k = Len(old.statements) + 1
        <5>1. new.statements[k] = Len(old.variables) + 1
          BY <1>2, <2>2, <4>1
        <5>. HIDE DEF parameters, m
        <5>. QED
          BY <3>4, <4>1, <5>1 DEF m
      <4>2. CASE k # Len(old.statements) + 1
        <5>1. k \in DOMAIN old.statements /\ new.statements[k] = old.statements[k]
          BY <1>2, <2>2, <4>2
        <5>. QED
          BY <2>2, <3>0, <5>1
      <4>. QED
        BY <4>1, <4>2
    <3>. QED
      <4>. HIDE DEF parameters
      <4>2. Len(new.variables) = new.inputCount + new.outputCount + Len(new.statements)
        BY <3>1, <3>2, <3>4
      <4>. QED
        BY <3>3, <4>2 DEF ParametersFirst
  <2>. QED
    BY <1>3, <2>1, <2>2, <2>4 DEF Listing
<1>9. CASE ArgumentType
  <2>1. pc = "type" /\ pc' = "next" /\ UNCHANGED <<currentBlock, list>>
    BY <1>9 DEF ArgumentType
  <2>2. /\ DOMAIN blocks' = DOMAIN blocks
        /\ \A b \in DOMAIN blocks \ {currentBlock} : blocks'[b] = blocks[b]
        /\ new.statements = old.statements
        /\ new.inputCount = old.inputCount /\ new.outputCount = old.outputCount
    BY <1>1, <1>9, <2>1, ArgumentTypeAdds
  <2>3. Declaring(old, pc, list)
    BY <1>1, <2>1 DEF Listing
  <2>. HIDE DEF old, new
  <2>4. Declaring(new, pc', list')
    BY <2>1, <2>2, <2>3 DEF Declaring, Listing
  <2>. QED
    BY <1>3, <2>1, <2>2, <2>4 DEF Settled
<1>10. CASE ArgumentListReturns
  <2>1. pc \in Listing /\ pc' = NextPart(list) /\ UNCHANGED <<currentBlock, list>>
    BY <1>10 DEF ArgumentListReturns, Listing
  <2>2. /\ DOMAIN blocks' = DOMAIN blocks
        /\ \A b \in DOMAIN blocks \ {currentBlock} : blocks'[b] = blocks[b]
        /\ new.variables = old.variables /\ new.statements = old.statements
        /\ IF list = "inputs"
           THEN new.inputCount = Len(old.variables) /\ new.outputCount = old.outputCount
           ELSE /\ new.inputCount = old.inputCount
                /\ new.outputCount = Len(old.variables) - old.inputCount
    BY <1>1, <1>10, <2>1, ArgumentListReturnsCounts
  <2>3. Declaring(old, pc, list)
    BY <1>1, <2>1
  <2>. HIDE DEF old, new
  <2>4. Declaring(new, pc', list')
    BY <1>2, <2>1, <2>2, <2>3 DEF Declaring, Listing, NextPart
  <2>5. pc' \notin Settled
    BY <2>1 DEF NextPart, Settled
  <2>. QED
    BY <1>3, <2>1, <2>2, <2>4, <2>5
<1>11. CASE DefineProcedure
  <2>1. pc = "kind" /\ pc' = "inputs"
    BY <1>11 DEF DefineProcedure
  <2>2. /\ DOMAIN blocks' = DOMAIN blocks \cup {currentBlock'}
        /\ \A b \in DOMAIN blocks : blocks'[b] = blocks[b]
        /\ new.variables = << >> /\ new.statements = << >>
        /\ new.inputCount = 0 /\ new.outputCount = 0
    BY <1>1, <1>11, DefineProcedureAdds
  <2>3. \A b \in DOMAIN blocks : ParametersFirst(blocks[b])
    BY <1>1, <2>1 DEF Settled
  <2>. HIDE DEF new
  <2>4. Declaring(new, pc', list')
    BY <2>1, <2>2 DEF Declaring, Listing
  <2>. QED
    BY <1>1, <2>1, <2>2, <2>3, <2>4 DEF ParamInv, Settled, new
<1>12. CASE ParseProcedureReturns
  <2>1. pc = "block" /\ pc' = "block"
    BY <1>12 DEF ParseProcedureReturns
  <2>2. DOMAIN blocks' = DOMAIN blocks /\ \A b \in DOMAIN blocks : Unchanged(b)
    BY <1>1, <1>12, ProcedureReturnsKeeps
  <2>3. \A b \in DOMAIN blocks : ParametersFirst(blocks[b])
    BY <1>1, <2>1 DEF Settled
  <2>4. \A b \in DOMAIN blocks' : ParametersFirst(blocks'[b])
    BY <2>2, <2>3 DEF ParametersFirst, Unchanged
  <2>5. currentBlock' \in DOMAIN blocks'
    BY <1>1, BlockFacts DEF TypeInv, TypeOK
  <2>. QED
    BY <1>1, <2>1, <2>4, <2>5 DEF ParamInv, Listing
<1>13. CASE UNCHANGED vars
  <2>1. UNCHANGED <<blocks, currentBlock, pc, list>>
    BY <1>13 DEF vars
  <2>. QED
    BY <1>1, <2>1, ParamSame DEF Declaring
<1>. QED
  BY <1>4, <1>5, <1>6, <1>7, <1>8, <1>9, <1>10, <1>11, <1>12, <1>13
  DEF Next, Step, Terminated

(***************************************************************************)
(* The code generator takes the first inputCount variables of a finished   *)
(* block for its inputs and finds one variable for each of its statements  *)
(* behind its parameters (ParseArgumentList and its callers, main.cpp).    *)
(***************************************************************************)
THEOREM ParametersFirstCorrect == Spec => []ParametersPrecedeStatements
<1>1. ParamInv => ParametersPrecedeStatements
  BY DEF ParamInv, ParametersPrecedeStatements, ParametersFirst, Settled
<1>. QED
  BY <1>1, ParamInit, ParamStep, PTL DEF Spec

-----------------------------------------------------------------------------
(***************************************************************************)
(* Text.  No variable's text ends behind what has been read, and while a   *)
(* statement is parsed none ends behind its identifier: an initialiser     *)
(* that is a lone reference ends there, every other one behind it.         *)
(***************************************************************************)
TextEnd(v)   == v.text + v.textLength
Reached      == IF token = EndOfBuffer THEN pos + 1 ELSE pos
InStatement  == pc \in {"kind", "operand", "operator"}
InExpression == pc \in {"operand", "operator"} /\ expr.operands # << >>

TextInv ==
  /\ TypeInv
  /\ \A b \in DOMAIN blocks : \A i \in DOMAIN blocks[b].variables :
       LET v == blocks[b].variables[i]
       IN  TextEnd(v) <= Reached /\ (IsAlias(v.init) <=> v.textLength <= 0)
  /\ InStatement =>
       /\ ident.text <= pos
       /\ \A b \in DOMAIN blocks : \A i \in DOMAIN blocks[b].variables :
            TextEnd(blocks[b].variables[i]) <= ident.text
  /\ pc \in {"colon", "type"} => ident.text < Reached
  /\ pc = "operand" => (expr.operations = << >> <=> expr.operands = << >>)
  /\ pc = "operator" => expr.operands # << >>
  /\ InExpression => /\ expr.end <= Reached
                     /\ IsAlias(expr) <=> expr.end <= ident.text

(* A variable of the tree was there before the step, or the step added it. *)
LEMMA VariableOfStep ==
  ASSUME TypeInv, [Next]_vars,
         NEW b \in DOMAIN blocks', NEW i \in DOMAIN blocks'[b].variables
  PROVE  LET v == blocks'[b].variables[i]
         IN  \/ /\ b \in DOMAIN blocks /\ i \in DOMAIN blocks[b].variables
                /\ v = blocks[b].variables[i]
             \/ FinishVariable /\ v = OfStatement
             \/ ArgumentType /\ v = OfParameter
<1>. DEFINE Old == /\ b \in DOMAIN blocks /\ i \in DOMAIN blocks[b].variables
                   /\ blocks'[b].variables[i] = blocks[b].variables[i]
<1>0. /\ currentBlock \in DOMAIN blocks
      /\ blocks[currentBlock].variables \in Seq(Variable)
  BY BlockFacts
<1>1. ASSUME b \in DOMAIN blocks, blocks'[b].variables = blocks[b].variables
      PROVE  Old
  BY <1>1
<1>2. ASSUME NEW v, DOMAIN blocks' = DOMAIN blocks,
             \A c \in DOMAIN blocks \ {currentBlock} : blocks'[c] = blocks[c],
             blocks'[currentBlock].variables = Append(blocks[currentBlock].variables, v)
      PROVE  Old \/ blocks'[b].variables[i] = v
  <2>1. CASE b # currentBlock
    BY <1>1, <1>2, <2>1
  <2>2. CASE b = currentBlock
    BY <1>0, <1>2, <2>2
  <2>. QED
    BY <2>1, <2>2
<1>3. CASE FinishVariable
  BY <1>2, <1>3, FinishVariableAdds
<1>4. CASE ArgumentType
  BY <1>2, <1>4, ArgumentTypeAdds
<1>5. CASE ArgumentListReturns
  BY <1>1, <1>5, ArgumentListReturnsCounts
<1>6. CASE DefineProcedure
  <2>1. b # currentBlock'
    BY <1>6, DefineProcedureAdds
  <2>. QED
    BY <1>1, <1>6, <2>1, DefineProcedureAdds
<1>7. CASE ParseProcedureReturns
  BY <1>1, <1>7, ProcedureReturnsKeeps DEF Unchanged
<1>8. CASE UNCHANGED blocks
  BY <1>1, <1>8
<1>. QED
  BY <1>3, <1>4, <1>5, <1>6, <1>7, <1>8
  DEF Next, Step, Terminated, vars, ParseFile, ParseStatement, ParseFileReturns,
      DeclareVariable, LogNodeFaults, UnknownStatement, ParseLiteral, ParseReference,
      NoOperand, ParseOperator, ParseArgumentList, NoArgumentList, Argument,
      ArgumentColon, ArgumentComma, ArgumentListFails, ParseBody, NoBody, Abort, AddOperand

(* The place reached never moves back.                                     *)
LEMMA ReachedGrows ==
  ASSUME TypeInv
  PROVE  /\ Reached \in Nat /\ pos \in Nat /\ ident.text \in Nat /\ expr.end \in Int
         /\ expr.operands \in Seq(Nat) /\ expr.operations \in Seq(Operator)
         /\ LexNextToken => /\ Reached' >= Reached /\ pos' >= pos
                            /\ token # EndOfBuffer => Reached' = pos + 1
<1>1. pos \in Nat /\ ident \in Identifier /\ expr \in Expression
  BY MaxTokensAssumption DEF TypeInv, TypeOK
<1>2. ASSUME LexNextToken
      PROVE  /\ Reached' >= Reached /\ pos' >= pos
             /\ token # EndOfBuffer => Reached' = pos + 1
  <2>1. CASE NextLexeme
    <3>1. token # EndOfBuffer /\ token' # EndOfBuffer /\ pos' = pos + 1
      BY <2>1, OperatorAssumption DEF NextLexeme, Lexeme, Symbol, EndOfBuffer
    <3>. QED
      BY <1>1, <3>1 DEF Reached
  <2>2. CASE NextEndOfBuffer
    BY <1>1, <2>2 DEF NextEndOfBuffer, Reached, EndOfBuffer
  <2>. QED
    BY <1>2, <2>1, <2>2 DEF LexNextToken
<1>. QED
  BY <1>1, <1>2 DEF Reached, Identifier, Expression

LEMMA TextInit == Init => TextInv
<1>. SUFFICES ASSUME Init PROVE TextInv
  OBVIOUS
<1>1. \A b \in DOMAIN blocks : blocks[b].variables = << >>
  BY DEF Init, EmptyBlock
<1>. QED
  BY <1>1, TypeInit DEF Init, TextInv, InStatement, InExpression

(* What holds of each variable, once it holds of the one a step may add.   *)
LEMMA TextOfVariables ==
  ASSUME TextInv, [Next]_vars, Reached' >= Reached,
         FinishVariable => /\ TextEnd(OfStatement) <= Reached
                           /\ IsAlias(OfStatement.init) <=> OfStatement.textLength <= 0,
         ArgumentType => /\ TextEnd(OfParameter) <= Reached
                         /\ IsAlias(OfParameter.init) <=> OfParameter.textLength <= 0,
         NEW b \in DOMAIN blocks', NEW i \in DOMAIN blocks'[b].variables
  PROVE  LET v == blocks'[b].variables[i]
         IN  TextEnd(v) <= Reached' /\ (IsAlias(v.init) <=> v.textLength <= 0)
<1>. DEFINE v == blocks'[b].variables[i]
<1>1. TypeInv /\ TypeInv' /\ Reached \in Int /\ Reached' \in Int
  <2>1. TypeInv /\ TypeInv'
    BY TypeStep DEF TextInv
  <2>2. pos \in Int /\ pos' \in Int
    BY <2>1, MaxTokensAssumption DEF TypeInv, TypeOK
  <2>. QED
    BY <2>1, <2>2 DEF Reached
<1>2. TextEnd(v) \in Int
  <2>1. blocks' \in Seq(Block)
    BY <1>1 DEF TypeInv, TypeOK
  <2>2. blocks'[b] \in Block
    BY <2>1
  <2>3. blocks'[b].variables \in Seq(Variable)
    BY <2>2 DEF Block
  <2>4. v \in Variable
    BY <2>3
  <2>. QED
    BY <2>4 DEF TextEnd, Variable
<1>3. \/ TextEnd(v) <= Reached /\ (IsAlias(v.init) <=> v.textLength <= 0)
  BY <1>1, VariableOfStep DEF TextInv
<1>. QED
  BY <1>1, <1>2, <1>3

LEMMA TextStep == TextInv /\ [Next]_vars => TextInv'
<1>. SUFFICES ASSUME TextInv, [Next]_vars PROVE TextInv'
  OBVIOUS
<1>1. TypeInv /\ TypeInv'
  BY TypeStep DEF TextInv
<1>2. /\ Reached \in Nat /\ pos \in Nat /\ ident.text \in Nat /\ expr.end \in Int
      /\ expr.operands \in Seq(Nat) /\ expr.operations \in Seq(Operator)
      /\ expr \in Expression
      /\ LexNextToken => /\ Reached' >= Reached /\ pos' >= pos
                         /\ token # EndOfBuffer => Reached' = pos + 1
      /\ token # EndOfBuffer => Reached = pos
  BY <1>1, ReachedGrows DEF TypeInv, TypeOK, Reached
<1>3. Reached' >= Reached
  <2>1. LexNextToken \/ UNCHANGED <<token, pos>>
    BY DEF Next, Step, Terminated, vars, ParseFile, ParseStatement, ParseFileReturns,
           ParseProcedureReturns, EatBlockClose, DeclareVariable, DefineProcedure,
           LogNodeFaults, UnknownStatement, ParseLiteral, ParseReference, NoOperand,
           ParseOperator, FinishVariable, ParseArgumentList, NoArgumentList, Argument,
           ArgumentColon, ArgumentType, ArgumentComma, ArgumentListReturns,
           ArgumentListFails, ParseBody, NoBody, Abort, AddOperand
  <2>. QED
    BY <1>2, <2>1 DEF Reached
<1>4. \A b \in DOMAIN blocks' : \A i \in DOMAIN blocks'[b].variables :
        LET v == blocks'[b].variables[i]
        IN  TextEnd(v) <= Reached' /\ (IsAlias(v.init) <=> v.textLength <= 0)
  <2>1. ASSUME FinishVariable
        PROVE  /\ TextEnd(OfStatement) <= Reached
               /\ IsAlias(OfStatement.init) <=> OfStatement.textLength <= 0
    <3>1. pc = "operator" /\ InExpression
      BY <2>1 DEF FinishVariable, TextInv, InExpression
    <3>2. /\ OfStatement.text = ident.text /\ OfStatement.init = expr
          /\ OfStatement.textLength = expr.end - ident.text
      BY DEF OfStatement, Declared, TextLength
    <3>3. expr.end <= Reached /\ (IsAlias(expr) <=> expr.end <= ident.text)
      BY <3>1 DEF TextInv
    <3>. QED
      BY <1>2, <3>2, <3>3 DEF TextEnd
  <2>2. ASSUME ArgumentType
        PROVE  /\ TextEnd(OfParameter) <= Reached
               /\ IsAlias(OfParameter.init) <=> OfParameter.textLength <= 0
    <3>1. ident.text < Reached
      BY <2>2 DEF ArgumentType, TextInv
    <3>2. /\ OfParameter.text = ident.text /\ OfParameter.textLength = 1
          /\ ~IsAlias(OfParameter.init)
      BY DEF OfParameter, Declared, NoExpr, IsAlias
    <3>. QED
      BY <1>2, <3>1, <3>2 DEF TextEnd
  <2>. QED
    BY <1>3, <2>1, <2>2, TextOfVariables
<1>5. ASSUME pc' \notin {"kind", "operand", "operator", "colon", "type"}
      PROVE  TextInv'
  BY <1>1, <1>4, <1>5 DEF TextInv, InStatement, InExpression
<1>6. CASE \/ ParseFile \/ ParseFileReturns \/ ParseProcedureReturns \/ DefineProcedure
           \/ LogNodeFaults \/ UnknownStatement \/ NoOperand \/ FinishVariable
           \/ ParseArgumentList \/ NoArgumentList \/ ArgumentType \/ ArgumentComma
           \/ ArgumentListReturns \/ ArgumentListFails \/ ParseBody \/ NoBody
  <2>1. pc' \notin {"kind", "operand", "operator", "colon", "type"}
    BY <1>6
    DEF ParseFile, ParseFileReturns, ParseProcedureReturns, DefineProcedure, LogNodeFaults,
        UnknownStatement, NoOperand, FinishVariable, ParseArgumentList, NoArgumentList,
        NextPart, ArgumentType, ArgumentComma, ArgumentListReturns, ArgumentListFails,
        ParseBody, NoBody, Abort
  <2>. QED
    BY <1>5, <2>1
<1>7. CASE ParseStatement
  <2>1. /\ token # EndOfBuffer /\ LexNextToken /\ UNCHANGED blocks
        /\ ident'.text = pos /\ pc' = "kind"
    BY <1>7 DEF ParseStatement, EndOfBlock, EndOfBuffer
  <2>2. Reached = pos /\ pos' >= pos
    BY <1>2, <2>1
  <2>3. \A b \in DOMAIN blocks : \A i \in DOMAIN blocks[b].variables :
          TextEnd(blocks[b].variables[i]) <= pos
    BY <2>2 DEF TextInv
  <2>. QED
    BY <1>1, <1>4, <2>1, <2>2, <2>3 DEF TextInv, InStatement, InExpression
(* A statement goes on with the same identifier.                           *)
<1>8. ASSUME InStatement, UNCHANGED <<blocks, ident>>, LexNextToken
      PROVE  /\ ident'.text <= pos'
             /\ \A b \in DOMAIN blocks' : \A i \in DOMAIN blocks'[b].variables :
                  TextEnd(blocks'[b].variables[i]) <= ident'.text
  <2>1. /\ ident.text <= pos
        /\ \A b \in DOMAIN blocks : \A i \in DOMAIN blocks[b].variables :
             TextEnd(blocks[b].variables[i]) <= ident.text
    BY <1>8 DEF TextInv
  <2>2. pos' \in Nat /\ pos' >= pos
    BY <1>1, <1>2, <1>8, MaxTokensAssumption DEF TypeInv, TypeOK
  <2>. QED
    BY <1>2, <1>8, <2>1, <2>2
<1>9. CASE DeclareVariable
  <2>1. /\ InStatement /\ UNCHANGED <<blocks, ident>> /\ LexNextToken /\ pc' = "operand"
        /\ expr'.operations = << >> /\ expr'.operands = << >>
    BY <1>9 DEF DeclareVariable, NoExpr, InStatement
  <2>. QED
    BY <1>1, <1>4, <1>8, <2>1 DEF TextInv, InStatement, InExpression
<1>10. ASSUME NEW m \in Nat, NEW e \in Int, pc = "operand", AddOperand(m, e),
              e <= Reached', m # 0 <=> e <= ident.text
       PROVE  TextInv'
  <2>1. /\ InStatement /\ UNCHANGED <<blocks, ident>> /\ LexNextToken /\ pc' = "operator"
    BY <1>10 DEF AddOperand, InStatement
  <2>2. /\ expr'.operands = Append(expr.operands, m) /\ expr'.operations = expr.operations
        /\ expr'.end = IF expr.operations = << >> THEN e ELSE expr.end
    BY <1>2, <1>10 DEF AddOperand, Expression
  <2>3. expr'.operands # << >>
    BY <1>2, <2>2, AppendProperties, SMTT(30)
  <2>4. expr'.end <= Reached' /\ (IsAlias(expr') <=> expr'.end <= ident'.text)
    <3>1. CASE expr.operations = << >>
      <4>1. expr.operands = << >>
        BY <1>10, <3>1 DEF TextInv
      <4>2. expr'.operands[1] = m
        BY <2>2, <4>1
      <4>. QED
        BY <1>10, <2>1, <2>2, <2>3, <3>1, <4>2 DEF IsAlias
    <3>2. CASE expr.operations # << >>
      <4>1. InExpression
        BY <1>10, <3>2 DEF TextInv, InExpression
      <4>2. expr.end <= Reached /\ (IsAlias(expr) <=> expr.end <= ident.text)
        BY <4>1 DEF TextInv
      <4>3. ~IsAlias(expr) /\ ~IsAlias(expr')
        BY <2>2, <3>2 DEF IsAlias
      <4>4. Reached' \in Int
        BY <1>1, MaxTokensAssumption DEF TypeInv, TypeOK, Reached
      <4>. QED
        BY <1>2, <1>3, <2>1, <2>2, <3>2, <4>2, <4>3, <4>4
    <3>. QED
      BY <3>1, <3>2
  <2>. QED
    BY <1>1, <1>4, <1>8, <2>1, <2>3, <2>4 DEF TextInv, InStatement, InExpression
<1>11. CASE ParseLiteral
  <2>1. pc = "operand" /\ AddOperand(0, pos + 1) /\ token # EndOfBuffer /\ LexNextToken
    BY <1>11 DEF ParseLiteral, EndOfBuffer, AddOperand
  <2>2. ident.text <= pos
    BY <2>1 DEF TextInv, InStatement
  <2>3. pos + 1 <= Reached' /\ ~(pos + 1 <= ident.text)
    BY <1>2, <2>1, <2>2
  <2>. QED
    BY <1>2, <1>10, <2>1, <2>3
<1>12. CASE ParseReference
  <2>. DEFINE variables == blocks[currentBlock].variables
              found     == FindVariable(token.name, blocks[currentBlock])
              end       == variables[found].text + variables[found].textLength
  <2>1. /\ currentBlock \in DOMAIN blocks /\ variables \in Seq(Variable)
        /\ found \in {0} \cup DOMAIN variables
    BY <1>1, BlockFacts, FindVariableRange
  <2>2. pc = "operand" /\ IF found = 0 THEN Abort("assert") ELSE AddOperand(found, end)
    BY <1>12 DEF ParseReference
  <2>. HIDE DEF found
  <2>3. CASE found = 0
    BY <1>5, <2>2, <2>3 DEF Abort
  <2>4. CASE found # 0
    <3>1. found \in DOMAIN variables /\ found \in Nat
      BY <2>1, <2>4
    <3>2. end = TextEnd(variables[found]) /\ end \in Int
      <4>1. variables[found] \in Variable
        BY <2>1, <3>1
      <4>. QED
        BY <4>1 DEF TextEnd, Variable
    <3>3. end <= ident.text /\ end <= Reached
      BY <2>1, <2>2, <3>1, <3>2 DEF TextInv, InStatement
    <3>4. AddOperand(found, end)
      BY <2>2, <2>4
    <3>5. Reached' \in Int
      BY <1>1, MaxTokensAssumption DEF TypeInv, TypeOK, Reached
    <3>. HIDE DEF end
    <3>6. end <= Reached'
      BY <1>2, <1>3, <3>2, <3>3, <3>5
    <3>. QED
      BY <1>10, <2>2, <2>4, <3>1, <3>2, <3>3, <3>4, <3>6
  <2>. QED
    BY <2>3, <2>4
<1>13. CASE ParseOperator
  <2>1. /\ pc = "operator" /\ InStatement /\ UNCHANGED <<blocks, ident>> /\ LexNextToken
        /\ pc' = "operand" /\ token # EndOfBuffer
    BY <1>13, OperatorAssumption DEF ParseOperator, InStatement, EndOfBuffer
  <2>2. /\ expr'.operands = expr.operands
        /\ expr'.operations = Append(expr.operations, token.type)
        /\ expr'.end = IF expr.operations = << >> THEN pos + 1 ELSE expr.end
    BY <1>2, <1>13 DEF ParseOperator, Expression
  <2>3. expr'.operations # << >> /\ expr'.operands # << >> /\ InExpression
    BY <1>2, <2>1, <2>2 DEF TextInv, InExpression
  <2>4. ~IsAlias(expr')
    BY <2>3 DEF IsAlias
  <2>5. expr'.end <= Reached' /\ ~(expr'.end <= ident'.text)
    <3>1. CASE expr.operations = << >>
      <4>1. ident.text <= pos
        BY <2>1 DEF TextInv
      <4>. QED
        BY <1>2, <2>1, <2>2, <3>1, <4>1
    <3>2. CASE expr.operations # << >>
      <4>1. expr.end <= Reached /\ ~(expr.end <= ident.text)
        BY <2>3, <3>2 DEF TextInv, IsAlias
      <4>2. Reached' \in Int
        BY <1>1, MaxTokensAssumption DEF TypeInv, TypeOK, Reached
      <4>. QED
        BY <1>2, <1>3, <2>1, <2>2, <3>2, <4>1, <4>2
    <3>. QED
      BY <3>1, <3>2
  <2>. QED
    BY <1>1, <1>4, <1>8, <2>1, <2>3, <2>4, <2>5 DEF TextInv, InStatement, InExpression
<1>14. CASE Argument
  <2>1. /\ token # EndOfBuffer /\ LexNextToken /\ ident'.text = pos /\ pc' = "colon"
    BY <1>14 DEF Argument, EndOfBuffer
  <2>2. ident'.text < Reached'
    BY <1>2, <2>1
  <2>. QED
    BY <1>1, <1>4, <2>1, <2>2 DEF TextInv, InStatement, InExpression
<1>15. CASE ArgumentColon
  <2>1. pc = "colon" /\ pc' \in {"type", "args"} /\ UNCHANGED ident
    BY <1>15 DEF ArgumentColon
  <2>2. Reached' \in Int
    BY <1>1, MaxTokensAssumption DEF TypeInv, TypeOK, Reached
  <2>3. ident'.text < Reached'
    BY <1>2, <1>3, <2>1, <2>2 DEF TextInv
  <2>. QED
    BY <1>1, <1>4, <2>1, <2>3 DEF TextInv, InStatement, InExpression
<1>16. CASE UNCHANGED vars
  BY <1>16 DEF vars, TextInv, InStatement, InExpression, Reached, TypeInv, TypeOK,
               InputsCounted, Frame
<1>. QED
  BY <1>6, <1>7, <1>9, <1>11, <1>12, <1>13, <1>14, <1>15, <1>16 DEF Next, Step, Terminated

(* A text that ends inside what was read is no longer than the file.       *)
LEMMA TextIsInside == TextInv => StatementText
<1>. SUFFICES ASSUME TextInv, NEW b \in DOMAIN blocks,
                     NEW i \in DOMAIN blocks[b].variables
              PROVE  LET v == blocks[b].variables[i]
                     IN  /\ v.text + v.textLength <= pos + 1
                         /\ IsAlias(v.init) <=> v.textLength <= 0
  BY DEF StatementText
<1>1. pos \in Nat /\ Reached <= pos + 1
  BY MaxTokensAssumption DEF TextInv, TypeInv, TypeOK, Reached
<1>2. blocks[b].variables[i] \in Variable
  BY BlockFacts DEF TextInv
<1>. QED
  BY <1>1, <1>2 DEF TextInv, TextEnd, Variable, Reached

(***************************************************************************)
(* The text kept for the comment over a variable's code lies in what has   *)
(* been read, and the length is negative or zero, a precision printf takes *)
(* for the rest of the file, only for an alias (ParseStatement).           *)
(***************************************************************************)
THEOREM StatementTextCorrect == Spec => []StatementText
<1>. QED
  BY TextIsInside, TextInit, TextStep, PTL DEF Spec
=============================================================================
