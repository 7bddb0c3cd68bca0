------------------------------- MODULE Parser -------------------------------
(***************************************************************************)
(* The recursive-descent parser of main.cpp, from ParseFile down, over any *)
(* token stream.  Each action is the code between two reads of a token; pc *)
(* names the point the parser has reached and stack holds the locals of    *)
(* the ParseStatement calls that are defining a procedure.                 *)
(*                                                                         *)
(* A block is known by its index in blocks, a variable by its index in its *)
(* block.  ParseExpression is right recursive with a leaf on the left, so  *)
(* the tree it builds is its leaves and operators in source order.  Text   *)
(* positions and lengths count tokens.                                     *)
(***************************************************************************)
EXTENDS Integers, Sequences, SequencesExt, TokenStream

CONSTANTS
  PrefixOf,   \* the pairs <<a, b>> of spellings such that a begins b
  Types       \* the types main() gives the root block: [name, size, kind]

(* A name is never empty and never the text of another kind of token.      *)
ASSUME PrefixOfAssumption == \A p \in PrefixOf : p[1] # NoName /\ p[2] # NoName
ASSUME TypesAssumption ==
  Types \in Seq([name : STRING, size : Nat, kind : {"IntType", "FloatType"}])

VARIABLES
  pc,             \* the point the parser has reached, or how it ended
  stack,          \* the procedures being defined, innermost first
  currentBlock,   \* ParseState.currentBlock
  blocks,         \* every CodeBlock allocated; the first is root
  ident,          \* identToken of the statement or argument being parsed
  list,           \* which argument list is being parsed
  expr            \* the initialiser being parsed

vars == <<token, pos, pc, stack, currentBlock, blocks, ident, list, expr>>

Root   == 1
Final  == {"parsed", "unopened", "assert", "fault"}
NoExpr == [operands |-> << >>, operations |-> << >>, end |-> 0]

EmptyBlock(name, parent) ==
  [name |-> name, parent |-> parent, variables |-> << >>, statements |-> << >>,
   procedures |-> << >>, inputCount |-> 0, outputCount |-> 0]

(***************************************************************************)
(* Name lookup.  Both loops return the first entry that matches, and       *)
(* neither compares whole names: a variable matches every identifier it is *)
(* a prefix of, a type every identifier that is a prefix of it.  Types are *)
(* only ever added to root, where every parent chain ends.                 *)
(***************************************************************************)
FindVariable(name, block) ==
  SelectInSeq(block.variables, LAMBDA v : <<v.name, name>> \in PrefixOf)

FindTypeFromToken(name) ==
  SelectInSeq(Types, LAMBDA t : <<name, t.name>> \in PrefixOf)

TypeS64 == SelectInSeq(Types, LAMBDA t : t.name = "S64")

ArrayAddInFront(element, array) == <<element>> \o array   \* mutant
ArrayAdd(element, array)        == Append(array, element)

AddVariable(block, type, init, length) ==
  [block EXCEPT !.variables =
     ArrayAdd([name |-> ident.name, type |-> type, init |-> init,
               text |-> ident.text, textLength |-> length], @)]
-----------------------------------------------------------------------------
Init ==
  /\ token = Invalid /\ pos = 0
  /\ pc = "start"
  /\ stack = << >>
  /\ currentBlock = Root
  /\ blocks = << EmptyBlock(NoName, 0) >>
  /\ ident = [name |-> NoName, text |-> 0]
  /\ list = "none"
  /\ expr = NoExpr

(* ParseFile opens the file and reads the first token, or returns 0.       *)
ParseFile ==
  /\ pc = "start"
  /\ \/ LexNextToken /\ pc' = "block"
     \/ pc' = "unopened" /\ UNCHANGED <<token, pos>>
  /\ UNCHANGED <<stack, currentBlock, blocks, ident, list, expr>>

(* Assert(false), a failed Assert, or a null pointer dereferenced.         *)
Abort(outcome) ==
  /\ pc' = outcome
  /\ UNCHANGED <<token, pos, stack, currentBlock, blocks, ident, list, expr>>

(***************************************************************************)
(* ParseBlock and ParseStatement.                                          *)
(***************************************************************************)
EndOfBlock == token.type \in {"EndOfBuffer", "BlockClose"}

EatBlockClose ==
  IF token.type = "BlockClose" THEN LexNextToken ELSE UNCHANGED <<token, pos>>

(* The loop of ParseBlock calls ParseStatement; a statement that begins    *)
(* with no identifier is logged and parsed all the same.                   *)
ParseStatement ==
  /\ pc = "block" /\ ~EndOfBlock
  /\ ident' = [name |-> token.name, text |-> pos]
  /\ LexNextToken
  /\ pc' = "kind"
  /\ UNCHANGED <<stack, currentBlock, blocks, list, expr>>

(* The root block ends: ParseFile asserts that so does the token stream.   *)
ParseFileReturns ==
  /\ pc = "block" /\ EndOfBlock
  /\ stack = << >>
  /\ EatBlockClose
  /\ pc' = IF token'.type = "EndOfBuffer" THEN "parsed" ELSE "assert"
  /\ UNCHANGED <<stack, currentBlock, blocks, ident, list, expr>>

CalleeStaysCurrent(frame) == frame.procedure   \* mutant: currentBlock not restored
CallerBlock(frame)        == frame.thisBlock

AttachToRoot(frame)   == Root                  \* mutant: attached to the root block
AttachTo(frame)       == CallerBlock(frame)

PopFrame(frames)      == Tail(frames)

(* A procedure's body ends: ParseStatement restores currentBlock and       *)
(* ParseBlock, one call up, attaches the procedure to it.                  *)
ParseProcedureReturns ==
  /\ pc = "block" /\ EndOfBlock
  /\ stack # << >>
  /\ EatBlockClose
  /\ currentBlock' = CallerBlock(Head(stack))
  /\ blocks' = [blocks EXCEPT ![AttachTo(Head(stack))].procedures =
                  ArrayAdd(Head(stack).procedure, @)]
  /\ stack' = PopFrame(stack)
  /\ UNCHANGED <<pc, ident, list, expr>>

DeclareVariable ==
  /\ pc = "kind" /\ token.type = "Colon"
  /\ LexNextToken
  /\ expr' = NoExpr
  /\ pc' = "operand"
  /\ UNCHANGED <<stack, currentBlock, blocks, ident, list>>

DefineProcedure ==
  /\ pc = "kind" /\ token.type = "DoubleColon"
  /\ LexNextToken
  /\ blocks' = Append(blocks, EmptyBlock(ident.name, currentBlock))
  /\ stack' = <<[thisBlock |-> currentBlock, procedure |-> Len(blocks) + 1]>> \o stack
  /\ currentBlock' = Len(blocks) + 1
  /\ pc' = "inputs"
  /\ UNCHANGED <<ident, list, expr>>

(* Logging the new node prints the fourth of NODE_TYPE_NAMES, which has    *)
(* three: whatever lies there is a string's address, or is not.            *)
LogNodeFaults ==
  /\ pc = "kind" /\ token.type = "DoubleColon"
  /\ LexNextToken
  /\ pc' = "fault"
  /\ UNCHANGED <<stack, currentBlock, blocks, ident, list, expr>>

UnknownStatement ==
  /\ pc = "kind" /\ token.type \notin {"Colon", "DoubleColon"}
  /\ Abort("assert")

(***************************************************************************)
(* ParseExpression, and the end of the declaration it initialises.         *)
(***************************************************************************)
AddOperand(variable, end) ==
  /\ expr' = [expr EXCEPT !.operands = Append(@, variable),
                          !.end = IF expr.operations = << >> THEN end ELSE @]
  /\ LexNextToken
  /\ pc' = "operator"
  /\ UNCHANGED <<stack, currentBlock, blocks, ident, list>>

ParseLiteral ==
  /\ pc = "operand" /\ token.type = "Number"
  /\ AddOperand(0, pos + 1)

(* A reference is the Variable's own node: its text is the declaration's.  *)
ParseReference ==
  LET variables == blocks[currentBlock].variables
      found     == FindVariable(token.name, blocks[currentBlock])
  IN  /\ pc = "operand" /\ token.type = "Identifier"
      /\ IF found = 0
         THEN Abort("assert")
         ELSE AddOperand(found, variables[found].text + variables[found].textLength)

(* ParseExpression returns null all the way up and the statement reads the *)
(* text of a null initialiser.                                             *)
NoOperand ==
  /\ pc = "operand" /\ token.type \notin {"Number", "Identifier"}
  /\ Abort("fault")

ParseOperator ==
  /\ pc = "operator" /\ token.type \in Operator
  /\ expr' = [expr EXCEPT !.operations = Append(@, token.type),
                          !.end = IF expr.operations = << >> THEN pos + 1 ELSE @]
  /\ LexNextToken
  /\ pc' = "operand"
  /\ UNCHANGED <<stack, currentBlock, blocks, ident, list>>

(* In tokens a length of 0 stands for 0 bytes and for the negative number  *)
(* that white space in between makes of it.                                *)
LengthReversed(end) == ident.text - end   \* mutant: the subtraction reversed
TextLength(end)     == end - ident.text

(* The expression is complete: the variable joins the block's variables    *)
(* and, back in ParseBlock, its statements.                                *)
FinishVariable ==
  LET added == AddVariable(blocks[currentBlock], TypeS64, expr, TextLength(expr.end))
  IN  /\ pc = "operator" /\ token.type \notin Operator
      /\ blocks' = [blocks EXCEPT ![currentBlock] =
                      [added EXCEPT !.statements = ArrayAdd(Len(added.variables), @)]]
      /\ pc' = "block"
      /\ UNCHANGED <<token, pos, stack, currentBlock, ident, list, expr>>

(***************************************************************************)
(* ParseArgumentList, called for the inputs and again for the outputs.     *)
(***************************************************************************)
NextPartAgain(part) ==   \* mutant: the two lists tried for ever
  IF part = "inputs" THEN "outputs" ELSE "inputs"

NextPart(part) == IF part = "inputs" THEN "outputs" ELSE "body"

ParseArgumentList ==
  /\ pc \in {"inputs", "outputs"} /\ token.type = "ParenOpen"
  /\ LexNextToken
  /\ list' = pc
  /\ pc' = "args"
  /\ UNCHANGED <<stack, currentBlock, blocks, ident, expr>>

NoArgumentList ==
  /\ pc \in {"inputs", "outputs"} /\ token.type # "ParenOpen"
  /\ pc' = NextPart(pc)
  /\ UNCHANGED <<token, pos, stack, currentBlock, blocks, ident, list, expr>>

Argument ==
  /\ pc = "args" /\ token.type = "Identifier"
  /\ ident' = [name |-> token.name, text |-> pos]
  /\ LexNextToken
  /\ pc' = "colon"
  /\ UNCHANGED <<stack, currentBlock, blocks, list, expr>>

(* Without its colon the identifier is logged and dropped.                 *)
ArgumentColon ==
  /\ pc = "colon"
  /\ IF token.type = "Colon"
     THEN LexNextToken /\ pc' = "type"
     ELSE pc' = "args" /\ UNCHANGED <<token, pos>>
  /\ UNCHANGED <<stack, currentBlock, blocks, ident, list, expr>>

(* A type that resolves to nothing is logged and stays null (0).           *)
ArgumentType ==
  /\ pc = "type" /\ token.type = "Identifier"
  /\ blocks' = [blocks EXCEPT ![currentBlock] =
                  AddVariable(@, FindTypeFromToken(token.name), NoExpr, 1)]
  /\ LexNextToken
  /\ pc' = "next"
  /\ UNCHANGED <<stack, currentBlock, ident, list, expr>>

ArgumentComma ==
  /\ pc = "next" /\ token.type # "ParenClose"
  /\ LexNextToken
  /\ pc' = "args"
  /\ UNCHANGED <<stack, currentBlock, blocks, ident, list, expr>>

CountReversed(block) ==   \* mutant: the subtraction reversed
  IF list = "inputs" THEN [block EXCEPT !.inputCount = Len(block.variables)]
  ELSE [block EXCEPT !.outputCount = block.inputCount - Len(block.variables)]

(* mutant: the inputs are not subtracted *)
CountInto(block) ==
  IF list = "inputs" THEN [block EXCEPT !.inputCount = Len(block.variables)]
  ELSE [block EXCEPT !.outputCount = Len(block.variables)]

CountList(block) ==
  IF list = "inputs" THEN [block EXCEPT !.inputCount = Len(block.variables)]
  ELSE [block EXCEPT !.outputCount = Len(block.variables) - block.inputCount]

(* The list ended, or was given up, at a closing parenthesis: the caller   *)
(* eats it and counts the variables the list declared.                     *)
ArgumentListReturns ==
  /\ pc \in {"args", "type", "next"} /\ token.type = "ParenClose"
  /\ LexNextToken
  /\ blocks' = [blocks EXCEPT ![currentBlock] = CountList(@)]
  /\ pc' = NextPart(list)
  /\ UNCHANGED <<stack, currentBlock, ident, list, expr>>

(* It was given up anywhere else: the caller's Assert fails.               *)
ArgumentListFails ==
  /\ pc \in {"args", "type"} /\ token.type \notin {"Identifier", "ParenClose"}
  /\ Abort("assert")

ParseBody ==
  /\ pc = "body" /\ token.type = "BlockOpen"
  /\ LexNextToken
  /\ pc' = "block"
  /\ UNCHANGED <<stack, currentBlock, blocks, ident, list, expr>>

(* ParseStatement returns null and ParseBlock reads its nodeType.          *)
NoBody ==
  /\ pc = "body" /\ token.type # "BlockOpen"
  /\ Abort("fault")

Terminated == pc \in Final /\ UNCHANGED vars

Step ==
  \/ ParseFile \/ ParseStatement \/ ParseFileReturns \/ ParseProcedureReturns
  \/ DeclareVariable \/ DefineProcedure \/ LogNodeFaults \/ UnknownStatement
  \/ ParseLiteral \/ ParseReference \/ NoOperand \/ ParseOperator \/ FinishVariable
  \/ ParseArgumentList \/ NoArgumentList \/ Argument \/ ArgumentColon \/ ArgumentType
  \/ ArgumentComma \/ ArgumentListReturns \/ ArgumentListFails
  \/ ParseBody \/ NoBody

Next == Step \/ Terminated

(* The parser is one thread that runs until it returns or dies.            *)
Spec == Init /\ [][Next]_vars /\ WF_vars(Step)
-----------------------------------------------------------------------------
Point      == Final \cup {"start", "block", "kind", "operand", "operator", "inputs",
                         "outputs", "args", "colon", "type", "next", "body"}
Identifier == [name : Name \cup {NoName}, text : Nat]
Expression == [operands : Seq(Nat), operations : Seq(Operator), end : Int]
Variable == [name : Name \cup {NoName}, type : 0 .. Len(Types), text : Nat,
             textLength : Int, init : Expression]
Block    == [name : Name \cup {NoName}, parent : Nat, inputCount : Nat, outputCount : Nat,
             variables : Seq(Variable), statements : Seq(Nat), procedures : Seq(Nat)]
Frame    == [thisBlock : DOMAIN blocks, procedure : DOMAIN blocks]

TypeOK ==
  /\ token \in Token
  /\ pos \in 0 .. MaxTokens
  /\ pc \in Point
  /\ blocks \in Seq(Block) /\ blocks # << >>
  /\ currentBlock \in DOMAIN blocks
  /\ stack \in Seq(Frame)
  /\ ident \in Identifier
  /\ list \in {"none", "inputs", "outputs"}
  /\ expr \in Expression

(* The blocks being filled: root and the procedures being defined.         *)
Open == {Root} \cup {stack[k].procedure : k \in DOMAIN stack}

(* Declarations land in the scope that textually encloses them: the current *)
(* block is the procedure whose body is open innermost, and returning along *)
(* the stack climbs the parent chain one block at a time down to root.      *)
ScopeFollowsStack ==
  /\ currentBlock = IF stack = << >> THEN Root ELSE Head(stack).procedure
  /\ \A k \in DOMAIN stack :
       /\ stack[k].thisBlock = IF k = Len(stack) THEN Root ELSE stack[k + 1].procedure
       /\ blocks[stack[k].procedure].parent = stack[k].thisBlock

(* Every procedure is attached once and in one place, to its parent, as     *)
(* soon as its body ended and not before: none is lost and none is compiled *)
(* twice.                                                                   *)
Attachments(b) ==
  {at \in UNION {{p} \X DOMAIN blocks[p].procedures : p \in DOMAIN blocks} :
     blocks[at[1]].procedures[at[2]] = b}

ProceduresAttachedOnce ==
  \A b \in DOMAIN blocks \ {Root} :
    IF b \in Open THEN Attachments(b) = {}
    ELSE \E k \in DOMAIN blocks[blocks[b].parent].procedures :
           Attachments(b) = {<<blocks[b].parent, k>>}

(* A finished block's variables are its inputs, its outputs and one         *)
(* variable per statement, in that order: what CodegenProcedure reads as    *)
(* the first inputCount variables are the inputs.                           *)
ParametersPrecedeStatements ==
  \A b \in DOMAIN blocks : (b # currentBlock \/ pc \in {"block", "parsed"}) =>
    LET parameters == blocks[b].inputCount + blocks[b].outputCount
        statements == blocks[b].statements
    IN  /\ Len(blocks[b].variables) = parameters + Len(statements)
        /\ \A k \in DOMAIN statements : statements[k] = parameters + k

(* An initialiser refers only to variables its own block declared before    *)
(* it, whatever prefix FindVariable matched (AST.cpp:136): never to itself, *)
(* to a later one or to another block's, which has no slot in its frame.    *)
DefineBeforeUse ==
  \A b \in DOMAIN blocks : \A i \in DOMAIN blocks[b].variables :
    LET operands == blocks[b].variables[i].init.operands
    IN  \A k \in DOMAIN operands : operands[k] < i

(* The text a variable keeps for the comment above its code lies in the     *)
(* tokens read so far, and is empty or negative exactly when it was         *)
(* initialised with a lone variable, whose node is an earlier declaration.  *)
IsAlias(init) == init.operations = << >> /\ init.operands # << >> /\ init.operands[1] # 0

StatementText ==
  \A b \in DOMAIN blocks : \A i \in DOMAIN blocks[b].variables :
    LET v == blocks[b].variables[i]
    IN  /\ v.text + v.textLength <= pos + 1
        /\ IsAlias(v.init) <=> v.textLength <= 0

(* A block whose body ended is final, and an open one is only added to, for *)
(* all the coming and going of currentBlock (main.cpp:321, 348): what was   *)
(* counted and what was found in it by index is still so at the end.        *)
FinishedBlocksFrozen ==
  [][\A b \in DOMAIN blocks :
       /\ b \notin Open => blocks'[b] = blocks[b]
       /\ IsPrefix(blocks[b].variables, blocks'[b].variables)
       /\ IsPrefix(blocks[b].procedures, blocks'[b].procedures)]_vars

(* Whatever the file holds, the parser returns or stops with an error: no   *)
(* loop runs without reading on, even at the end of the buffer.             *)
Termination == <>(pc \in Final)
=============================================================================
