------------------------------ MODULE Compiler ------------------------------
(***************************************************************************)
(* A whole run, main(): the parser builds a tree out of test.sky, the      *)
(* generator turns the same tree into assembly, and nasm and ld are run on *)
(* what was written.  main does not look at what ParseFile returned, and   *)
(* CodegenAST not at how its children ended.                               *)
(***************************************************************************)
EXTENDS Parser

CONSTANTS MainName, RestOfFile, BufferSize   \* as in Codegen

(* None of the types main() gives the root block has size 0.               *)
ASSUME MainAssumption ==
  /\ Types \in Seq([name : STRING, size : Nat \ {0}, kind : {"IntType", "FloatType"}])
  /\ RestOfFile \in Nat /\ BufferSize \in Nat

VARIABLES
  genpc, procedure, index, offset, memory, integers, asm, bufferUsed,   \* Codegen
  files,     \* what is in output.asm, output.o and output
  child,     \* which child CodegenAST is at once it has written its file
  failed     \* the children that returned an error; no step looks at it

treevars   == <<token, pos, pc, stack, currentBlock, ident, list, expr>>
filevars   == <<files, child, failed>>
slotvars   == <<genpc, procedure, index, integers, asm, bufferUsed>>
mainvars   == <<vars, slotvars, offset, memory, filevars>>

G == INSTANCE Codegen WITH Programs <- {}

Dead == pc \in {"assert", "fault"} \/ genpc \in {"assert", "fault"}

stage ==
  IF Dead THEN "died"
  ELSE IF genpc = "written" THEN child
  ELSE CASE genpc = "idle"     -> "compile"
         [] genpc = "unopened" -> "returned"
         [] OTHER              -> "generate"

D == INSTANCE Driver

(* calloc'd nodes: no slot assigned, no memory required.                   *)
NoSlots(tree) == [b \in DOMAIN tree |-> << >>]
NoMemory(tree) == [b \in DOMAIN tree |-> 0]

MainInit ==
  /\ Init
  /\ genpc = "idle"
  /\ procedure = 0 /\ index = 0 /\ integers = 0
  /\ offset = NoSlots(blocks) /\ memory = NoMemory(blocks)
  /\ asm = << >> /\ bufferUsed = 0
  /\ child = "assemble" /\ failed = {}
  /\ files \in [asm : D!Before \cup {"empty"}, obj : D!Before, exe : D!Before]

Parse ==
  /\ Step
  /\ offset' = NoSlots(blocks') /\ memory' = NoMemory(blocks')
  /\ UNCHANGED <<slotvars, filevars>>

(* ParseFile is back, whether or not it could open its file.               *)
ParseFileReturned == pc \in {"parsed", "unopened"}

(* fopen with "wb" empties the file, or fails.                             *)
OpenOutput ==
  /\ ParseFileReturned
  /\ G!CodegenAST
  /\ files' = IF genpc' = "unopened" THEN files ELSE [files EXCEPT !.asm = "empty"]
  /\ UNCHANGED <<treevars, child, failed>>

Generate ==
  /\ ParseFileReturned
  /\ \/ G!StartProcedure \/ G!AssignSlot \/ G!ReserveFrame \/ G!SpillArgument
     \/ G!ArgumentsSpilled \/ G!CodegenStatement \/ G!EndProcedure
  /\ UNCHANGED <<treevars, filevars>>

WriteOutput ==
  /\ G!WriteFile
  /\ \E content \in D!Written : files' = [files EXCEPT !.asm = content]
  /\ UNCHANGED <<treevars, child, failed>>

NasmUntilItWorks ==                  \* mutant: nasm run again when it failed
  /\ genpc = "written" /\ child = "assemble"
  /\ \/ D!Makes("obj", files.asm) /\ child' = "link"
     \/ D!Fails("nasm", "obj") /\ UNCHANGED child
  /\ UNCHANGED <<vars, slotvars, offset, memory>>

(* system("nasm ..."), then system("ld ...").                              *)
Nasm ==
  /\ genpc = "written" /\ child = "assemble"
  /\ D!Makes("obj", files.asm) \/ D!Fails("nasm", "obj")
  /\ child' = "link"
  /\ UNCHANGED <<vars, slotvars, offset, memory>>

LdWrongFile ==                       \* mutant: ld handed output.asm
  /\ genpc = "written" /\ child = "link"
  /\ D!Makes("exe", D!LinkedFrom(files.asm)) \/ D!Fails("ld", "exe")
  /\ child' = "returned"
  /\ UNCHANGED <<vars, slotvars, offset, memory>>

Ld ==
  /\ genpc = "written" /\ child = "link"
  /\ \/ files.obj # "none" /\ D!Makes("exe", D!LinkedFrom(files.obj))
     \/ D!Fails("ld", "exe")
  /\ child' = "returned"
  /\ UNCHANGED <<vars, slotvars, offset, memory>>

MainStep == Parse \/ OpenOutput \/ Generate \/ WriteOutput \/ Nasm \/ Ld

Ended == stage \in {"returned", "died"} /\ UNCHANGED mainvars

MainSpec == MainInit /\ [][MainStep \/ Ended]_mainvars /\ WF_mainvars(MainStep)
-----------------------------------------------------------------------------
(* What the generator makes of a procedure the parser built without an     *)
(* error: it knows all the types, and, as no statement can be generated    *)
(* (CodegenASM.cpp:105 and the assertions around it), there are none; a    *)
(* procedure that is called takes integers and nothing else.               *)
Compilable(b) ==
  LET variables == blocks[b].variables
  IN  /\ \A i \in DOMAIN variables : variables[i].type # 0
      /\ Len(blocks[b].statements) = 0
      /\ blocks[b].name = MainName \/
           \A i \in 1 .. blocks[b].inputCount : Types[variables[i].type].kind = "IntType"

InRegisters(b) == blocks[b].name = MainName \/ blocks[b].inputCount <= 6

(* The procedures defined at the top of the source; the others are defined *)
(* inside another one.                                                     *)
TopLevel == {b \in DOMAIN blocks \ {Root} : blocks[b].parent = Root}

(* Of all the procedures of the source a file holds those of the top,      *)
(* whole, and not a line of the others, whatever is in them.               *)
HoldsTopLevel ==
  \A b \in DOMAIN blocks \ {Root} :
    IF b \in TopLevel THEN G!Whole(b) ELSE \A k \in DOMAIN asm : asm[k].of # b

(* A file is written only when every procedure at the top of the source    *)
(* can be compiled, and holds them and no other: one inside another is     *)
(* attached to it and dropped without a word, even one that could not be   *)
(* compiled.  And when those at the top can be compiled and take up to six *)
(* arguments, a file is written unless the buffer is full: the generator   *)
(* never trips over anything else the parser hands it.                     *)
WrittenIffCompilable ==
  /\ genpc = "written" => HoldsTopLevel /\ \A b \in TopLevel : Compilable(b)
  /\ genpc \in {"assert", "fault"} =>
       G!BufferFull \/ \E b \in TopLevel : ~(Compilable(b) /\ InRegisters(b))

(* The tree the parser hands over is what the generator takes for granted  *)
(* (Codegen's assumption on its trees), and so the slots it assigns to the *)
(* parameters lie inside the frame it reserves for them and every argument *)
(* is copied into its own.                                                 *)
ParametersArrive ==
  /\ ParseFileReturned => G!WellFormed(blocks)
  /\ G!AccessesInsideFrame /\ G!ArgumentsInSlots /\ G!SlotsDisjoint

(* A run that has written its file returns with an executable of its own   *)
(* program exactly when nasm and ld both succeeded, and that was linked    *)
(* from its own object.  When nasm failed and ld did not, ld has linked    *)
(* what an earlier run left: main returns the same, since no exit code is  *)
(* looked at (codegen_nasm.cpp:356-357).                                   *)
Custody ==
  genpc = "written" /\ child = "returned" =>
    /\ files.exe \in D!Written <=> failed = {}
    /\ files.exe \in D!Written => files.exe = files.obj /\ files.obj = files.asm
    /\ files.exe = "stale" <=> failed = {"nasm"}

(* A run that dies leaves the object file and the executable of an earlier *)
(* run alone, and never a part of a program for nasm: output.asm is as it  *)
(* was or, once opened (codegen_nasm.cpp:344), empty.                      *)
DeathLeavesNoProgram ==
  stage = "died" =>
    /\ files.obj \in D!Before /\ files.exe \in D!Before
    /\ files.asm \in D!Before \cup {"empty"}

(* From outside a run is a Driver: it empties its output before it can     *)
(* know that the program compiles, and runs nasm and ld once each, in this *)
(* order, after it has written.                                            *)
ImplementsDriver == D!DriverSpec

(* Whatever is in the file, the compiler returns or dies.                  *)
MainTermination == <>(stage \in {"returned", "died"})
=============================================================================
