------------------------------ MODULE Codegen ------------------------------
(***************************************************************************)
(* The NASM code generator, CodegenAST down, over a tree the parser built. *)
(* Each action is one iteration of the loop the generator is in, and       *)
(* writes whole lines of assembly.  blocks is the parser's: the first is   *)
(* root, variables and procedures are known by their indices.              *)
(***************************************************************************)
EXTENDS Integers, Sequences, SequencesExt

CONSTANTS
  Programs,     \* the trees the parser may hand over
  Types,        \* the types main() gives the root block: [name, size, kind]
  MainName,     \* how the procedure the program starts in is called
  RestOfFile,   \* length of what follows a declaration in the source file
  BufferSize    \* CodegenContext.bufferSize

ASSUME GeneratorTypesAssumption ==
  Types \in Seq([name : STRING, size : Nat \ {0}, kind : {"IntType", "FloatType"}])
ASSUME RestOfFileAssumption == RestOfFile \in Nat
ASSUME BufferSizeAssumption == BufferSize \in Nat

(***************************************************************************)
(* The trees are the parser's: root's procedures are blocks of the tree,   *)
(* none twice, a procedure's inputs are its first variables, a statement   *)
(* declares one, and an initialiser refers to earlier ones (0 is a literal *)
(* as an operand, and as a type one that did not resolve).                 *)
(***************************************************************************)
IsSequence(s) == Len(s) \in Nat /\ DOMAIN s = 1 .. Len(s)

WellFormedBlock(block) ==
  /\ IsSequence(block.variables) /\ IsSequence(block.statements)
  /\ block.inputCount \in 0 .. Len(block.variables)
  /\ \A k \in DOMAIN block.statements : block.statements[k] \in DOMAIN block.variables
  /\ \A i \in DOMAIN block.variables :
       LET v == block.variables[i]
       IN  /\ v.type \in 0 .. Len(Types) /\ v.textLength \in Int
           /\ IsSequence(v.init.operands)
           /\ \A k \in DOMAIN v.init.operands : v.init.operands[k] \in 0 .. i - 1

WellFormed(tree) ==
  /\ IsSequence(tree) /\ tree # << >>
  /\ \A b \in DOMAIN tree : WellFormedBlock(tree[b])
  /\ tree[1].procedures \in Seq(DOMAIN tree) /\ IsInjective(tree[1].procedures)

ASSUME ProgramsAssumption == \A tree \in Programs : WellFormed(tree)

VARIABLES
  blocks,       \* the tree, unchanged but for the slots
  genpc,        \* the loop the generator is in, or how it ended
  procedure,    \* index in root's procedures of the one being generated
  index,        \* loop counter within that procedure
  offset,       \* Variable.offset, per block and variable
  memory,       \* CodeBlock.variableMemoryRequired, per block
  integers,     \* currentIntegerInputCount
  asm,          \* the lines in the buffer
  bufferUsed    \* CodegenContext.bufferUsed

genvars == <<blocks, genpc, procedure, index, offset, memory, integers, asm, bufferUsed>>

GenFinal == {"written", "unopened", "assert", "fault"}
Register == {"RAX", "RCX", "RDX", "RBX", "RSP", "RBP", "RSI", "RDI",
             "R8", "R9", "R10", "R11", "R12", "R13", "R14", "R15"}

SYSTEMV_CALL_INT_REGISTERS == <<"RDI", "RSI", "RDX", "RCX", "R8", "R9">>

Procedures == blocks[1].procedures
Current    == Procedures[procedure]        \* the block being generated
IsMain     == blocks[Current].name = MainName
-----------------------------------------------------------------------------
(***************************************************************************)
(* Lines of assembly.  Their lengths are those of a line with a name of    *)
(* one letter and a number of one digit, the shortest there is; the label  *)
(* of the program's start has a name of its own, and "none" prints as      *)
(* nothing at the shortest.                                                *)
(***************************************************************************)
StartsProgram(line) == blocks[line.of].name = MainName
NameLength(reg) == CASE reg = "none" -> 0 [] reg \in {"R8", "R9"} -> 2 [] OTHER -> 3

LineLength(line) ==
  CASE line.op = "section" -> 14
    [] line.op = "include" -> 26
    [] line.op = "global"  -> IF StartsProgram(line) THEN 14 ELSE 9
    [] line.op = "label"   -> IF StartsProgram(line) THEN 8 ELSE 3
    [] line.op = "sub"     -> 15
    [] line.op = "store"   -> 26 + NameLength(line.reg)
    [] line.op = "load"    -> 23
    [] line.op = "comment" -> line.arg + 2
    [] line.op = "exit"    -> 24
    [] line.op = "ret"     -> 6

Line(op, arg)      == [op |-> op, arg |-> arg, reg |-> "RSP", of |-> Current]
Store(reg, slot)   == [op |-> "store", arg |-> slot, reg |-> reg, of |-> Current]

(* No action writes more than two lines.                                   *)
TextLength(lines) ==
  (IF Len(lines) > 0 THEN LineLength(lines[1]) ELSE 0)
    + (IF Len(lines) > 1 THEN LineLength(lines[2]) ELSE 0)

(* WriteFmt, and sprintf into the buffer: nothing is checked.              *)
Write(lines) ==
  /\ asm' = asm \o lines
  /\ bufferUsed' = bufferUsed + TextLength(lines)

GenAbort(outcome) ==
  /\ genpc' = outcome
  /\ UNCHANGED <<blocks, procedure, index, offset, memory, integers, asm, bufferUsed>>

(* CodegenSafetyCheck keeps 15 bytes free, the longest machine instruction. *)
BufferFull == bufferUsed + 15 > BufferSize
-----------------------------------------------------------------------------
Init ==
  /\ blocks \in Programs
  /\ genpc = "idle"
  /\ procedure = 0 /\ index = 0 /\ integers = 0
  /\ offset = [b \in DOMAIN blocks |-> << >>]
  /\ memory = [b \in DOMAIN blocks |-> 0]
  /\ asm = << >> /\ bufferUsed = 0

(* mutant: the loop over the procedures stops one short *)
NextButLast ==
  /\ procedure' = procedure + 1
  /\ index' = 0 /\ integers' = 0
  /\ genpc' = IF procedure + 1 >= Len(Procedures) THEN "end" ELSE "label"

(* Where the generator goes after a procedure: to the next of root's, or   *)
(* to the end of the file.                                                 *)
NextProcedure ==
  /\ procedure' = procedure + 1
  /\ index' = 0 /\ integers' = 0
  /\ genpc' = IF procedure = Len(Procedures) THEN "end" ELSE "label"

(* CodegenAST opens the file and CodegenNASMFile writes the prologue.      *)
CodegenAST ==
  /\ genpc = "idle"
  /\ \/ /\ Write(<<[op |-> "section", arg |-> 0, reg |-> "RSP", of |-> 1],
                   [op |-> "include", arg |-> 0, reg |-> "RSP", of |-> 1]>>)
        /\ NextProcedure
        /\ UNCHANGED <<blocks, offset, memory>>
     \/ GenAbort("unopened")

StartProcedure ==
  /\ genpc = "label"
  /\ Write(<<Line("global", 0), Line("label", 0)>>)
  /\ genpc' = "entry"
  /\ UNCHANGED <<blocks, procedure, index, offset, memory, integers>>

(***************************************************************************)
(* CodegenBlockEntry: a slot for every variable, then the frame.           *)
(***************************************************************************)
AlignDown(n) == (n \div 8) * 8          \* mutant: rounded down
Align(n)     == ((n + 7) \div 8) * 8

AssignSlot ==
  LET variables == blocks[Current].variables
      type      == variables[index + 1].type
  IN  /\ genpc = "entry" /\ index < Len(variables)
      /\ IF type = 0
         THEN GenAbort("fault")          \* the type did not resolve
         ELSE /\ offset' = [offset EXCEPT ![Current] = Append(@, memory[Current])]
              /\ memory' = [memory EXCEPT ![Current] = Align(@ + Types[type].size)]
              /\ index' = index + 1
              /\ UNCHANGED <<blocks, genpc, procedure, integers, asm, bufferUsed>>

FrameTooEarly(b) == 0                    \* mutant: reserved before the slots are assigned
FrameSize(b)     == memory[b]

ReserveFrame ==
  /\ genpc = "entry" /\ index = Len(blocks[Current].variables)
  /\ IF BufferFull THEN GenAbort("assert")
     ELSE /\ Write(<<Line("sub", FrameSize(Current))>>)
          /\ index' = 0
          /\ genpc' = IF IsMain THEN "body" ELSE "spill"
          /\ UNCHANGED <<blocks, procedure, offset, memory, integers>>

(***************************************************************************)
(* CodegenProcedure copies the arguments from their registers to their     *)
(* slots.  Main has none copied.                                           *)
(***************************************************************************)
(* The seventh integer reads past the table: whatever lies there is a      *)
(* register's number, or is not and then finds no name in REGISTER_NAME    *)
(* but some pointer, which faults or prints what it points at.             *)
ArgumentRegisters(n) ==
  IF n < Len(SYSTEMV_CALL_INT_REGISTERS) THEN {SYSTEMV_CALL_INT_REGISTERS[n + 1]}
  ELSE Register \cup {"none"}

CountNothing(n) == n                     \* mutant: the counter never moves
CountInteger(n)  == n + 1

SpillArgument ==
  LET type == blocks[Current].variables[index + 1].type
  IN  /\ genpc = "spill" /\ index < blocks[Current].inputCount
      /\ IF Types[type].kind = "FloatType" \/ BufferFull
         THEN GenAbort("assert")
         ELSE \E reg \in ArgumentRegisters(integers) :
                \/ reg = "none" /\ GenAbort("fault")
                \/ /\ Write(<<Store(reg, offset[Current][index + 1])>>)
                   /\ integers' = CountInteger(integers)
                   /\ index' = index + 1
                   /\ UNCHANGED <<blocks, genpc, procedure, offset, memory>>

SpillAgain ==                            \* mutant: the loop never ends
  /\ genpc = "spill" /\ index = blocks[Current].inputCount
  /\ index' = 0
  /\ UNCHANGED <<blocks, genpc, procedure, offset, memory, integers, asm, bufferUsed>>

ArgumentsSpilled ==
  /\ genpc = "spill" /\ index = blocks[Current].inputCount
  /\ index' = 0
  /\ genpc' = "body"
  /\ UNCHANGED <<blocks, procedure, offset, memory, integers, asm, bufferUsed>>

(***************************************************************************)
(* CodegenBlockBody.  An expression is a leaf, or an operation whose right  *)
(* operand is an expression: the last operation is combined first.  A leaf *)
(* is a constant or a slot, never a register, and a statement's value is   *)
(* only stored from a register: each ends in an assertion.                 *)
(***************************************************************************)
SignedLength(v)  == v.textLength         \* mutant: a negative precision not seen
CommentLength(v) == IF v.textLength >= 0 THEN v.textLength ELSE RestOfFile

CodegenStatement ==
  LET variables == blocks[Current].variables
      v         == variables[blocks[Current].statements[index + 1]]
      operands  == v.init.operands
      n         == Len(operands)
      comment   == Line("comment", CommentLength(v))
      loads     == /\ n > 1 /\ v.init.operations[n - 1] \in {"Plus", "Minus"}
                   /\ operands[n - 1] # 0 /\ operands[n] # 0
                   /\ bufferUsed + LineLength(comment) + 15 <= BufferSize
  IN  /\ genpc = "body" /\ index < Len(blocks[Current].statements)
      /\ Write(IF loads THEN <<comment, Line("load", offset[Current][operands[n - 1]])>>
               ELSE <<comment>>)
      /\ genpc' = "assert"
      /\ UNCHANGED <<blocks, procedure, index, offset, memory, integers>>

ReturnFallsThrough == << >>              \* mutant: the terminator forgotten
Return             == IF IsMain THEN <<Line("exit", 0)>> ELSE <<Line("ret", 0)>>

EndProcedure ==
  /\ genpc = "body" /\ index = Len(blocks[Current].statements)
  /\ Write(Return)
  /\ NextProcedure
  /\ UNCHANGED <<blocks, offset, memory>>

WriteFile ==
  /\ genpc = "end"
  /\ GenAbort("written")

GenTerminated == genpc \in GenFinal /\ UNCHANGED genvars

GenStep ==
  \/ CodegenAST \/ StartProcedure \/ AssignSlot \/ ReserveFrame \/ SpillArgument
  \/ ArgumentsSpilled \/ CodegenStatement \/ EndProcedure \/ WriteFile

Next == GenStep \/ GenTerminated

Spec == Init /\ [][Next]_genvars /\ WF_genvars(GenStep)
-----------------------------------------------------------------------------
Ops == {"section", "include", "global", "label", "sub", "store", "load", "comment",
        "exit", "ret"}

TypeOK ==
  /\ genpc \in GenFinal \cup {"idle", "label", "entry", "spill", "body", "end"}
  /\ procedure \in 0 .. Len(Procedures) + 1
  /\ index \in Nat /\ integers \in Nat /\ bufferUsed \in Nat
  /\ offset \in [DOMAIN blocks -> Seq(Nat)]
  /\ memory \in [DOMAIN blocks -> Nat]
  /\ asm \in Seq([op : Ops, arg : Nat, reg : Register \cup {"none"}, of : DOMAIN blocks])

Size(b, i) == Types[blocks[b].variables[i].type].size

(* The slots of a block are aligned, lie one behind the other and inside   *)
(* what the block reserves, whatever the sizes of the types.               *)
SlotsDisjoint ==
  \A b \in DOMAIN blocks : \A i \in DOMAIN offset[b] :
    /\ offset[b][i] % 8 = 0
    /\ offset[b][i] + Size(b, i) <= memory[b]
    /\ \A j \in DOMAIN offset[b] : i < j => offset[b][i] + Size(b, i) <= offset[b][j]

(* Every line that touches the frame moves eight bytes, however small the  *)
(* type: the frame its procedure reserved before holds them, and they are  *)
(* no other variable's.                                                    *)
AccessesInsideFrame ==
  \A k \in DOMAIN asm : asm[k].op \in {"store", "load"} =>
    LET b == asm[k].of
    IN  /\ \E j \in 1 .. k - 1 :
             asm[j].op = "sub" /\ asm[j].of = b /\ asm[k].arg + 8 <= asm[j].arg
        /\ \E i \in DOMAIN offset[b] : offset[b][i] = asm[k].arg
        /\ \A i \in DOMAIN offset[b] :
             offset[b][i] = asm[k].arg \/ offset[b][i] + Size(b, i) <= asm[k].arg
               \/ asm[k].arg + 8 <= offset[b][i]

(* A procedure of up to six integers has each in its own slot, out of the  *)
(* register the caller put it in, when it returns: the stores stand behind *)
(* the reservation of its frame, and there are no others.                  *)
ArgumentStore(b, i) ==
  [op |-> "store", arg |-> offset[b][i], reg |-> SYSTEMV_CALL_INT_REGISTERS[i], of |-> b]

IsStoreOf(line, b) == line.op = "store" /\ line.of = b

ArgumentsStored(b, n) ==
  \E j \in DOMAIN asm :
    /\ asm[j].op = "sub" /\ asm[j].of = b /\ j + n <= Len(asm)
    /\ \A i \in 1 .. n : asm[j + i] = ArgumentStore(b, i)
    /\ \A k \in DOMAIN asm : IsStoreOf(asm[k], b) => k \in j + 1 .. j + n

ArgumentsInSlots ==
  \A k \in DOMAIN asm : asm[k].op = "ret" =>
    LET b == asm[k].of
    IN  blocks[b].inputCount <= 6 => ArgumentsStored(b, blocks[b].inputCount)

(* Control never runs from one procedure into the next: what stands before *)
(* a label is the prologue or the end of a procedure.                      *)
NoFallThrough ==
  \A k \in DOMAIN asm : asm[k].op = "global" =>
    asm[k - 1].op \in {"include", "ret", "exit"}

(* A file is only written when it holds the code of all of root's          *)
(* procedures from their labels to their ends, once each and in order; as  *)
(* no statement can be generated, they have none.                          *)
Labels  == {k \in DOMAIN asm : asm[k].op = "label"}
Whole(b) ==
  \E k \in Labels : \E e \in DOMAIN asm :
    k < e /\ asm[e].op \in {"exit", "ret"} /\ asm[k].of = b /\ asm[e].of = b

CompleteWhenWritten ==
  genpc = "written" =>
    /\ \A p \in DOMAIN Procedures :
         Whole(Procedures[p]) /\ Len(blocks[Procedures[p]].statements) = 0
    /\ \A j, k \in Labels : \E p, q \in DOMAIN Procedures :
         asm[j].of = Procedures[p] /\ asm[k].of = Procedures[q] /\ (j < k <=> p < q)

(* The generator returns or stops with an error.                           *)
GenTermination == <>(genpc \in GenFinal)
-----------------------------------------------------------------------------
(* What the sources promise and the generator does not keep.               *)

(* CodegenSafetyCheck asserts that a line will fit before it is written.   *)
BufferHolds == bufferUsed <= BufferSize

(* "push input registers into stack memory" (codegen_nasm.cpp:306).        *)
ArgumentsFromRegisters ==
  \A k \in DOMAIN asm : asm[k].op = "store" =>
    asm[k].reg \in {SYSTEMV_CALL_INT_REGISTERS[i] : i \in 1 .. 6}

(* A procedure called by the System V convention returns with the stack    *)
(* pointer where it found it.                                              *)
StackBalanced ==
  \A j, k \in DOMAIN asm :
    asm[j].op = "sub" /\ asm[k].op = "ret" /\ asm[j].of = asm[k].of => asm[j].arg = 0
=============================================================================
