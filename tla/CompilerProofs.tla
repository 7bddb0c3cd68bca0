--------------------------- MODULE CompilerProofs ---------------------------
(***************************************************************************)
(* Whatever is in the source, in the tables and in the files beside it, a  *)
(* run of the compiler is a Driver, and its files are what they are said   *)
(* to be.  What the parser promises of its tree is what the generator      *)
(* takes for granted, so that the generator keeps its promises in a run    *)
(* too.                                                                    *)
(***************************************************************************)
EXTENDS Compiler, ParserProofs

(* How far the generator can be, given where the parser and the children   *)
(* are: it starts when ParseFile is back, they when it has written.        *)
Order ==
  /\ genpc # "idle" => pc \in {"parsed", "unopened"}
  /\ genpc # "written" => child = "assemble"

GenGoing == {"label", "entry", "spill", "body", "end"}

(* The parser is done when it has returned or died.                        *)
LEMMA StepIsNotFinal == Step => pc \notin {"parsed", "unopened", "assert", "fault"}
BY DEF Step, ParseFile, ParseStatement, ParseFileReturns, ParseProcedureReturns,
       DeclareVariable, DefineProcedure, LogNodeFaults, UnknownStatement, ParseLiteral,
       ParseReference, NoOperand, ParseOperator, FinishVariable, ParseArgumentList,
       NoArgumentList, Argument, ArgumentColon, ArgumentType, ArgumentComma,
       ArgumentListReturns, ArgumentListFails, ParseBody, NoBody, Final

(* One step of the generator's loops leaves it in a loop, or dead.         *)
LEMMA GenerateMoves ==
  Generate => /\ genpc \in GenGoing
              /\ genpc' \in GenGoing \cup {"assert", "fault"}
<1>. SUFFICES ASSUME Generate PROVE genpc \in GenGoing /\ genpc' \in GenGoing \cup {"assert", "fault"}
  OBVIOUS
<1>1. CASE G!StartProcedure
  BY <1>1 DEF G!StartProcedure, GenGoing
<1>2. CASE G!AssignSlot
  BY <1>2 DEF G!AssignSlot, G!GenAbort, GenGoing
<1>3. CASE G!ReserveFrame
  BY <1>3 DEF G!ReserveFrame, G!GenAbort, GenGoing
<1>4. CASE G!SpillArgument
  BY <1>4 DEF G!SpillArgument, G!GenAbort, GenGoing
<1>5. CASE G!ArgumentsSpilled
  BY <1>5 DEF G!ArgumentsSpilled, GenGoing
<1>6. CASE G!CodegenStatement
  BY <1>6 DEF G!CodegenStatement, GenGoing
<1>7. CASE G!EndProcedure
  BY <1>7 DEF G!EndProcedure, G!NextProcedure, GenGoing
<1>. QED
  BY <1>1, <1>2, <1>3, <1>4, <1>5, <1>6, <1>7 DEF Generate

(* CodegenAST opens its file and starts, or returns.                       *)
LEMMA OpenMoves ==
  OpenOutput => /\ genpc = "idle"
                /\ genpc' \in GenGoing \cup {"unopened"}
BY DEF OpenOutput, G!CodegenAST, G!NextProcedure, G!GenAbort, GenGoing

LEMMA WriteMoves == WriteOutput => genpc = "end" /\ genpc' = "written"
BY DEF WriteOutput, G!WriteFile, G!GenAbort
-----------------------------------------------------------------------------
LEMMA InitOrder == MainInit => Order
BY DEF MainInit, Order

LEMMA NextOrder == Order /\ [MainStep \/ Ended]_mainvars => Order'
<1>. SUFFICES ASSUME Order, [MainStep \/ Ended]_mainvars PROVE Order'
  OBVIOUS
<1>1. CASE Parse
  BY <1>1, StepIsNotFinal DEF Parse, Order, slotvars, filevars
<1>2. CASE OpenOutput
  BY <1>2, OpenMoves DEF OpenOutput, ParseFileReturned, treevars, Order, GenGoing
<1>3. CASE Generate
  BY <1>3, GenerateMoves DEF Generate, ParseFileReturned, treevars, filevars, Order, GenGoing
<1>4. CASE WriteOutput
  BY <1>4, WriteMoves DEF WriteOutput, treevars, Order
<1>5. CASE Nasm \/ Ld
  BY <1>5 DEF Nasm, Ld, vars, slotvars, Order
<1>6. CASE UNCHANGED mainvars
  BY <1>6 DEF mainvars, vars, slotvars, filevars, Order
<1>. QED
  BY <1>1, <1>2, <1>3, <1>4, <1>5, <1>6 DEF MainStep, Ended
-----------------------------------------------------------------------------
(* What stage is, by where the run is.                                     *)
LEMMA StageCases ==
  /\ pc \in {"assert", "fault"} \/ genpc \in {"assert", "fault"} => stage = "died"
  /\ pc \notin {"assert", "fault"} =>
       /\ genpc = "unopened" => stage = "returned"
       /\ genpc = "idle" => stage = "compile"
       /\ genpc = "written" => stage = child
       /\ genpc \in GenGoing => stage = "generate"
<1>1. ASSUME pc \in {"assert", "fault"} \/ genpc \in {"assert", "fault"}
      PROVE  stage = "died"
  BY <1>1 DEF stage, Dead
<1>2. ASSUME pc \notin {"assert", "fault"}, genpc = "unopened"
      PROVE  stage = "returned"
  BY <1>2 DEF stage, Dead
<1>3. ASSUME pc \notin {"assert", "fault"}, genpc = "idle"
      PROVE  stage = "compile"
  BY <1>3 DEF stage, Dead
<1>4. ASSUME pc \notin {"assert", "fault"}, genpc = "written"
      PROVE  stage = child
  BY <1>4 DEF stage, Dead
<1>5. ASSUME pc \notin {"assert", "fault"}, genpc \in GenGoing
      PROVE  stage = "generate"
  BY <1>5 DEF stage, Dead, GenGoing
<1>. QED
  BY <1>1, <1>2, <1>3, <1>4, <1>5

LEMMA StageCasesNext ==
  /\ pc' \in {"assert", "fault"} \/ genpc' \in {"assert", "fault"} => stage' = "died"
  /\ pc' \notin {"assert", "fault"} =>
       /\ genpc' = "unopened" => stage' = "returned"
       /\ genpc' = "idle" => stage' = "compile"
       /\ genpc' = "written" => stage' = child'
       /\ genpc' \in GenGoing => stage' = "generate"
<1>1. ASSUME pc' \in {"assert", "fault"} \/ genpc' \in {"assert", "fault"}
      PROVE  stage' = "died"
  BY <1>1 DEF stage, Dead
<1>2. ASSUME pc' \notin {"assert", "fault"}, genpc' = "unopened"
      PROVE  stage' = "returned"
  BY <1>2 DEF stage, Dead
<1>3. ASSUME pc' \notin {"assert", "fault"}, genpc' = "idle"
      PROVE  stage' = "compile"
  BY <1>3 DEF stage, Dead
<1>4. ASSUME pc' \notin {"assert", "fault"}, genpc' = "written"
      PROVE  stage' = child'
  BY <1>4 DEF stage, Dead
<1>5. ASSUME pc' \notin {"assert", "fault"}, genpc' \in GenGoing
      PROVE  stage' = "generate"
  BY <1>5 DEF stage, Dead, GenGoing
<1>. QED
  BY <1>1, <1>2, <1>3, <1>4, <1>5

LEMMA InitIsDriverInit == MainInit => D!DriverInit
<1>. SUFFICES ASSUME MainInit PROVE D!DriverInit
  OBVIOUS
<1>1. pc = "start" /\ genpc = "idle"
  BY DEF MainInit, Init
<1>2. stage = "compile"
  BY <1>1, StageCases
<1>. QED
  BY <1>2 DEF MainInit, D!DriverInit

LEMMA StepIsDriverStep ==
  Order /\ [MainStep \/ Ended]_mainvars => [D!DriverNext]_(D!drivervars)
<1>. SUFFICES ASSUME Order, [MainStep \/ Ended]_mainvars PROVE [D!DriverNext]_(D!drivervars)
  OBVIOUS
<1>1. CASE Parse
  <2>1. /\ pc \notin {"parsed", "unopened", "assert", "fault"}
        /\ UNCHANGED <<genpc, files, failed>>
    BY <1>1, StepIsNotFinal DEF Parse, slotvars, filevars
  <2>2. genpc = "idle" /\ genpc' = "idle"
    BY <2>1 DEF Order
  <2>3. stage = "compile" /\ stage' \in {"compile", "died"}
    BY <2>1, <2>2, StageCases, StageCasesNext
  <2>. QED
    BY <2>1, <2>3 DEF D!DriverNext, D!Die, D!drivervars
<1>2. CASE OpenOutput
  <2>1. /\ genpc = "idle" /\ genpc' \in GenGoing \cup {"unopened"}
        /\ pc \in {"parsed", "unopened"} /\ pc' = pc
    BY <1>2, OpenMoves DEF OpenOutput, ParseFileReturned, treevars
  <2>2. /\ files' = IF genpc' = "unopened" THEN files ELSE [files EXCEPT !.asm = "empty"]
        /\ UNCHANGED failed
    BY <1>2 DEF OpenOutput
  <2>3. /\ stage = "compile"
        /\ stage' = IF genpc' = "unopened" THEN "returned" ELSE "generate"
    BY <2>1, StageCases, StageCasesNext
  <2>4. D!Open
    BY <2>2, <2>3, Zenon DEF D!Open
  <2>. QED
    BY <2>4 DEF D!DriverNext
<1>3. CASE Generate
  <2>1. /\ genpc \in GenGoing /\ genpc' \in GenGoing \cup {"assert", "fault"}
        /\ pc \in {"parsed", "unopened"} /\ pc' = pc
        /\ UNCHANGED <<files, failed>>
    BY <1>3, GenerateMoves DEF Generate, ParseFileReturned, treevars, filevars
  <2>2. stage = "generate" /\ stage' \in {"generate", "died"}
    BY <2>1, StageCases, StageCasesNext
  <2>. QED
    BY <2>1, <2>2 DEF D!DriverNext, D!Die, D!drivervars
<1>4. CASE WriteOutput
  <2>1. /\ genpc = "end" /\ genpc' = "written"
        /\ pc \in {"parsed", "unopened"} /\ pc' = pc
        /\ child = "assemble" /\ child' = child
    BY <1>4, WriteMoves DEF WriteOutput, treevars, Order
  <2>2. stage = "generate" /\ stage' = "assemble"
    BY <2>1, StageCases, StageCasesNext DEF GenGoing
  <2>3. D!Write
    BY <1>4, <2>2, Zenon DEF WriteOutput, D!Write
  <2>. QED
    BY <2>3 DEF D!DriverNext
<1>5. CASE Nasm
  <2>1. /\ genpc = "written" /\ genpc' = genpc
        /\ pc \in {"parsed", "unopened"} /\ pc' = pc
        /\ child = "assemble" /\ child' = "link"
    BY <1>5 DEF Nasm, vars, slotvars, Order
  <2>2. stage = "assemble" /\ stage' = "link"
    BY <2>1, StageCases, StageCasesNext
  <2>3. D!Assemble
    BY <1>5, <2>2, Zenon DEF Nasm, D!Assemble
  <2>. QED
    BY <2>3 DEF D!DriverNext
<1>6. CASE Ld
  <2>1. /\ genpc = "written" /\ genpc' = genpc
        /\ pc \in {"parsed", "unopened"} /\ pc' = pc
        /\ child = "link" /\ child' = "returned"
    BY <1>6 DEF Ld, vars, slotvars, Order
  <2>2. stage = "link" /\ stage' = "returned"
    BY <2>1, StageCases, StageCasesNext
  <2>3. D!Link
    BY <1>6, <2>2, Zenon DEF Ld, D!Link
  <2>. QED
    BY <2>3 DEF D!DriverNext
<1>7. CASE UNCHANGED mainvars
  <2>1. UNCHANGED <<pc, genpc, child, files, failed>>
    BY <1>7 DEF mainvars, vars, slotvars, filevars
  <2>2. UNCHANGED stage
    BY <2>1 DEF stage, Dead
  <2>. QED
    BY <2>1, <2>2 DEF D!drivervars
<1>. QED
  BY <1>1, <1>2, <1>3, <1>4, <1>5, <1>6, <1>7 DEF MainStep, Ended

(* A run of the compiler, over every source, is a run of the Driver: it    *)
(* empties its output before it knows that the program compiles, writes    *)
(* once at most, and runs nasm and ld once each, in this order, behind it. *)
THEOREM RunIsDriver == MainSpec => ImplementsDriver
<1>1. MainSpec => []Order
  BY InitOrder, NextOrder, PTL DEF MainSpec
<1>. QED
  BY <1>1, InitIsDriverInit, StepIsDriverStep, PTL DEF MainSpec, ImplementsDriver, D!DriverSpec
-----------------------------------------------------------------------------
(* What the files are: untouched but for output.asm until it is written;   *)
(* then output.o is made of it, or is an earlier run's; then output of     *)
(* output.o.                                                               *)
Linking   == genpc = "written" /\ child = "link"
Returning == genpc = "written" /\ child = "returned"

FilesInv ==
  /\ child \in {"assemble", "link", "returned"}
  /\ files = [asm |-> files.asm, obj |-> files.obj, exe |-> files.exe]
  /\ genpc # "written" => files.asm \in D!Before \cup {"empty"}
  /\ genpc = "written" => files.asm \in D!Written
  /\ ~Linking /\ ~Returning => failed = {} /\ files.obj \in D!Before
  /\ ~Returning => files.exe \in D!Before
  /\ Linking => \/ failed = {} /\ files.obj = files.asm
                \/ failed = {"nasm"} /\ files.obj \in D!Before
  /\ Custody

LEMMA InitFiles == MainInit => FilesInv
BY DEF MainInit, FilesInv, Linking, Returning, Custody

LEMMA NasmFiles == FilesInv /\ Nasm => FilesInv'
<1>. SUFFICES ASSUME FilesInv, Nasm PROVE FilesInv'
  OBVIOUS
<1>1. /\ genpc = "written" /\ genpc' = "written" /\ child = "assemble" /\ child' = "link"
      /\ files = [asm |-> files.asm, obj |-> files.obj, exe |-> files.exe]
      /\ files.asm \in D!Written /\ failed = {}
      /\ files.obj \in D!Before /\ files.exe \in D!Before
  BY DEF Nasm, slotvars, FilesInv, Linking, Returning
<1>2. CASE D!Makes("obj", files.asm)
  <2>1. files' = [asm |-> files.asm, obj |-> files.asm, exe |-> files.exe] /\ failed' = {}
    BY <1>1, <1>2 DEF D!Makes
  <2>. QED
    BY <1>1, <2>1 DEF FilesInv, Linking, Returning, Custody
<1>3. CASE D!Fails("nasm", "obj")
  <2>1. PICK content \in {files.obj, "none"} :
          files' = [asm |-> files.asm, obj |-> content, exe |-> files.exe]
    BY <1>1, <1>3 DEF D!Fails
  <2>2. failed' = {"nasm"} /\ content \in D!Before
    BY <1>1, <1>3 DEF D!Fails, D!Before
  <2>. QED
    BY <1>1, <2>1, <2>2 DEF FilesInv, Linking, Returning, Custody
<1>. QED
  BY <1>2, <1>3 DEF Nasm

LEMMA LdFiles == FilesInv /\ Ld => FilesInv'
<1>. SUFFICES ASSUME FilesInv, Ld PROVE FilesInv'
  OBVIOUS
<1>1. /\ genpc = "written" /\ genpc' = "written" /\ child = "link" /\ child' = "returned"
      /\ files = [asm |-> files.asm, obj |-> files.obj, exe |-> files.exe]
      /\ files.asm \in D!Written /\ files.exe \in D!Before
      /\ \/ failed = {} /\ files.obj = files.asm
         \/ failed = {"nasm"} /\ files.obj \in D!Before
  BY DEF Ld, slotvars, FilesInv, Linking, Returning
<1>2. CASE files.obj # "none" /\ D!Makes("exe", D!LinkedFrom(files.obj))
  <2>1. /\ files' = [asm |-> files.asm, obj |-> files.obj, exe |-> D!LinkedFrom(files.obj)]
        /\ failed' = failed
    BY <1>1, <1>2 DEF D!Makes
  <2>2. CASE failed = {} /\ files.obj = files.asm
    <3>1. D!LinkedFrom(files.obj) = files.asm /\ files.asm # "stale"
      BY <1>1, <2>2 DEF D!LinkedFrom, D!Written
    <3>. QED
      BY <1>1, <2>1, <2>2, <3>1 DEF FilesInv, Linking, Returning, Custody
  <2>3. CASE failed = {"nasm"} /\ files.obj \in D!Before
    <3>1. D!LinkedFrom(files.obj) = "stale" /\ "stale" \notin D!Written
      BY <1>2, <2>3 DEF D!LinkedFrom, D!Before, D!Written
    <3>. QED
      BY <1>1, <2>1, <2>3, <3>1 DEF FilesInv, Linking, Returning, Custody
  <2>. QED
    BY <1>1, <2>2, <2>3
<1>3. CASE D!Fails("ld", "exe")
  <2>1. PICK content \in {files.exe, "none"} :
          files' = [asm |-> files.asm, obj |-> files.obj, exe |-> content]
    BY <1>1, <1>3 DEF D!Fails
  <2>2. /\ failed' = failed \cup {"ld"} /\ failed' # {} /\ failed' # {"nasm"}
        /\ content \notin D!Written /\ content # "stale"
    BY <1>1, <1>3 DEF D!Fails, D!Before, D!Written
  <2>. QED
    BY <1>1, <2>1, <2>2 DEF FilesInv, Linking, Returning, Custody
<1>. QED
  BY <1>2, <1>3 DEF Ld

LEMMA NextFiles == Order /\ FilesInv /\ [MainStep \/ Ended]_mainvars => FilesInv'
<1>. SUFFICES ASSUME Order, FilesInv, [MainStep \/ Ended]_mainvars PROVE FilesInv'
  OBVIOUS
<1>1. ASSUME UNCHANGED <<files, child, failed>>, genpc # "written", genpc' # "written"
      PROVE  FilesInv'
  BY <1>1 DEF FilesInv, Linking, Returning, Custody
<1>2. CASE Parse
  <2>1. UNCHANGED <<genpc, files, child, failed>> /\ genpc # "written"
    BY <1>2, StepIsNotFinal DEF Parse, slotvars, filevars, Order
  <2>. QED
    BY <1>1, <2>1
<1>3. CASE OpenOutput
  <2>1. /\ genpc # "written" /\ genpc' # "written" /\ UNCHANGED <<child, failed>>
        /\ files' = files \/ files' = [files EXCEPT !.asm = "empty"]
    BY <1>3, OpenMoves DEF OpenOutput, GenGoing
  <2>2. CASE files' = [files EXCEPT !.asm = "empty"]
    <3>1. files' = [asm |-> "empty", obj |-> files.obj, exe |-> files.exe]
      BY <2>2 DEF FilesInv
    <3>. QED
      BY <2>1, <3>1 DEF FilesInv, Linking, Returning, Custody
  <2>. QED
    BY <1>1, <2>1, <2>2
<1>4. CASE Generate
  <2>1. /\ genpc # "written" /\ genpc' # "written" /\ UNCHANGED <<files, child, failed>>
    BY <1>4, GenerateMoves DEF Generate, filevars, GenGoing
  <2>. QED
    BY <1>1, <2>1
<1>5. CASE WriteOutput
  <2>1. /\ genpc # "written" /\ genpc' = "written" /\ UNCHANGED <<child, failed>>
        /\ child = "assemble"
    BY <1>5, WriteMoves DEF WriteOutput, Order
  <2>2. PICK content \in D!Written : files' = [files EXCEPT !.asm = content]
    BY <1>5 DEF WriteOutput
  <2>3. files' = [asm |-> content, obj |-> files.obj, exe |-> files.exe]
    BY <2>2 DEF FilesInv
  <2>. QED
    BY <2>1, <2>3 DEF FilesInv, Linking, Returning, Custody
<1>6. CASE UNCHANGED mainvars
  BY <1>6 DEF mainvars, slotvars, filevars, FilesInv, Linking, Returning, Custody
<1>. QED
  BY <1>2, <1>3, <1>4, <1>5, <1>6, NasmFiles, LdFiles DEF MainStep, Ended

LEMMA FilesInvariant == MainSpec => [](Order /\ FilesInv)
BY InitOrder, NextOrder, InitFiles, NextFiles, PTL DEF MainSpec

(* A run that has written its file has linked its own program exactly when *)
(* neither child failed, and an earlier run's exactly when nasm alone did; *)
(* main returns the same either way (codegen_nasm.cpp:356-357).            *)
THEOREM CustodyKept == MainSpec => []Custody
<1>1. FilesInv => Custody
  BY DEF FilesInv
<1>. QED
  BY <1>1, FilesInvariant, PTL

(* A run that dies in the parser or the generator leaves object file and   *)
(* executable alone, and never a part of a program behind.                 *)
THEOREM NoProgramOfTheDead == MainSpec => []DeathLeavesNoProgram
<1>1. Order /\ FilesInv => DeathLeavesNoProgram
  <2>. SUFFICES ASSUME Order, FilesInv, stage = "died" PROVE genpc # "written"
    BY DEF FilesInv, Linking, Returning, DeathLeavesNoProgram
  <2>1. ASSUME genpc = "written" PROVE FALSE
    <3>1. pc \notin {"assert", "fault"}
      BY <2>1 DEF Order
    <3>. QED
      BY <2>1, <3>1, StageCases DEF FilesInv
  <2>. QED
    BY <2>1
<1>. QED
  BY <1>1, FilesInvariant, PTL
-----------------------------------------------------------------------------
(***************************************************************************)
(* The parser and the generator together.  The lemmas about the generator  *)
(* are the ones of CodegenProofs, about the tree the parser hands over.    *)
(***************************************************************************)
GP == INSTANCE CodegenProofs WITH Programs <- {}

(* What the parser's invariants say of its tree once it is back.           *)
(* Every procedure is finished then.                                       *)
StackInv == pc \in {"start", "parsed", "unopened"} => stack = << >>

LEMMA StackStep == StackInv /\ [Next]_vars => StackInv'
<1>. SUFFICES ASSUME StackInv, [Next]_vars PROVE StackInv'
  OBVIOUS
<1>1. CASE ParseFile \/ ParseFileReturns
  BY <1>1 DEF ParseFile, ParseFileReturns, StackInv
<1>2. CASE ParseProcedureReturns
  BY <1>2 DEF ParseProcedureReturns, StackInv
<1>3. CASE ParseStatement \/ DeclareVariable \/ DefineProcedure \/ LogNodeFaults \/ UnknownStatement
  BY <1>3 DEF ParseStatement, DeclareVariable, DefineProcedure, LogNodeFaults, UnknownStatement,
              Abort, StackInv
<1>4. CASE ParseLiteral \/ ParseReference \/ NoOperand \/ ParseOperator \/ FinishVariable
  BY <1>4 DEF ParseLiteral, ParseReference, NoOperand, ParseOperator, FinishVariable, AddOperand,
              Abort, StackInv
<1>5. CASE \/ ParseArgumentList \/ NoArgumentList \/ Argument \/ ArgumentColon \/ ArgumentType
           \/ ArgumentComma \/ ArgumentListReturns \/ ArgumentListFails \/ ParseBody \/ NoBody
  BY <1>5 DEF ParseArgumentList, NoArgumentList, Argument, ArgumentColon, ArgumentType,
              ArgumentComma, ArgumentListReturns, ArgumentListFails, ParseBody, NoBody,
              NextPart, Abort, StackInv
<1>6. CASE Terminated \/ UNCHANGED vars
  BY <1>6 DEF Terminated, vars, StackInv
<1>. QED
  BY <1>1, <1>2, <1>3, <1>4, <1>5, <1>6 DEF Next, Step

TreeInv == ParamInv /\ DefineInv /\ AttachInv /\ StackInv

LEMMA TreeInit == Init => TreeInv
BY ParamInit, DefineInit, AttachInit DEF TreeInv, Init, StackInv

LEMMA TreeStep == TreeInv /\ [Next]_vars => TreeInv'
BY ParamStep, DefineStep, AttachStep, StackStep DEF TreeInv

(* Then it is what the generator takes for granted.                        *)
LEMMA TreeWellFormed == TreeInv /\ ParseFileReturned => GP!WellFormed(blocks)
<1>. SUFFICES ASSUME TreeInv, ParseFileReturned PROVE GP!WellFormed(blocks)
  OBVIOUS
<1>1. /\ blocks \in Seq(Block) /\ blocks # << >> /\ Len(blocks) \in Nat /\ Len(blocks) >= 1
      /\ DOMAIN blocks = 1 .. Len(blocks) /\ currentBlock \in DOMAIN blocks
  BY AttachTypes, BlockFacts DEF TreeInv, AttachInv, ParamInv, TypeInv, TypeOK
<1>2. ASSUME NEW b \in DOMAIN blocks PROVE GP!WellFormedBlock(blocks[b])
  <2>1. /\ blocks[b].variables \in Seq(Variable) /\ blocks[b].statements \in Seq(Nat)
        /\ blocks[b].inputCount \in Nat /\ blocks[b].outputCount \in Nat
    BY BlockFacts DEF TreeInv, ParamInv
  <2>2. /\ Len(blocks[b].variables) \in Nat /\ Len(blocks[b].statements) \in Nat
        /\ DOMAIN blocks[b].variables = 1 .. Len(blocks[b].variables)
        /\ DOMAIN blocks[b].statements = 1 .. Len(blocks[b].statements)
    BY <2>1
  <2>3. ParametersFirst(blocks[b])
    BY DEF TreeInv, ParamInv, ParseFileReturned, Settled
  <2>4. \A k \in DOMAIN blocks[b].statements : blocks[b].statements[k] \in DOMAIN blocks[b].variables
    BY <2>1, <2>2, <2>3, SMTT(30) DEF ParametersFirst
  <2>5. blocks[b].inputCount \in 0 .. Len(blocks[b].variables)
    BY <2>1, <2>2, <2>3 DEF ParametersFirst
  <2>6. ASSUME NEW i \in DOMAIN blocks[b].variables
        PROVE  LET v == blocks[b].variables[i]
               IN  /\ v.type \in 0 .. Len(Types) /\ v.textLength \in Int
                   /\ GP!IsSequence(v.init.operands)
                   /\ \A k \in DOMAIN v.init.operands : v.init.operands[k] \in 0 .. i - 1
    <3>. DEFINE v == blocks[b].variables[i]
    <3>1. v \in Variable
      BY <2>1
    <3>2. v.type \in 0 .. Len(Types) /\ v.textLength \in Int /\ v.init.operands \in Seq(Nat)
      BY <3>1 DEF Variable, Expression
    <3>3. i \in Nat
      BY <2>2
    <3>4. \A k \in DOMAIN v.init.operands : v.init.operands[k] < i
      BY DEF TreeInv, DefineInv, DefineBeforeUse
    <3>. HIDE DEF v
    <3>5. \A k \in DOMAIN v.init.operands : v.init.operands[k] \in 0 .. i - 1
      BY <3>2, <3>3, <3>4
    <3>6. GP!IsSequence(v.init.operands)
      BY <3>2 DEF GP!IsSequence
    <3>. QED
      BY <3>2, <3>5, <3>6 DEF v
  <2>. QED
    BY <2>2, <2>4, <2>5, <2>6 DEF GP!WellFormedBlock, GP!IsSequence
<1>3. blocks[1].procedures \in Seq(Nat)
  BY <1>1, AttachTypes DEF TreeInv, AttachInv
<1>4. blocks[1].procedures \in Seq(DOMAIN blocks)
  <2>1. \A k \in DOMAIN blocks[1].procedures : blocks[1].procedures[k] \in DOMAIN blocks
    BY <1>1 DEF TreeInv, AttachInv, AttachedClosed
  <2>. QED
    BY <1>3, <2>1, IsASeq
<1>5. GP!IsInjective(blocks[1].procedures)
  BY <1>1 DEF TreeInv, AttachInv, AttachedOnce, GP!IsInjective
<1>. QED
  BY <1>1, <1>2, <1>4, <1>5 DEF GP!WellFormed, GP!IsSequence

(* Every step of a run is one of the parser's, or leaves its state alone.  *)
LEMMA RunsParser == [MainStep \/ Ended]_mainvars => [Next]_vars
<1>. SUFFICES ASSUME [MainStep \/ Ended]_mainvars PROVE [Next]_vars
  OBVIOUS
<1>1. CASE Parse
  BY <1>1 DEF Parse, Next
<1>2. CASE OpenOutput
  <2>1. UNCHANGED blocks
    BY <1>2 DEF OpenOutput, G!CodegenAST, G!GenAbort
  <2>. QED
    BY <1>2, <2>1 DEF OpenOutput, treevars, vars
<1>3. CASE Generate
  <2>1. UNCHANGED blocks
    BY <1>3 DEF Generate, G!StartProcedure, G!AssignSlot, G!ReserveFrame, G!SpillArgument,
                G!ArgumentsSpilled, G!CodegenStatement, G!EndProcedure, G!GenAbort
  <2>. QED
    BY <1>3, <2>1 DEF Generate, treevars, vars
<1>4. CASE WriteOutput
  <2>1. UNCHANGED blocks
    BY <1>4 DEF WriteOutput, G!WriteFile, G!GenAbort
  <2>. QED
    BY <1>4, <2>1 DEF WriteOutput, treevars, vars
<1>5. CASE Nasm \/ Ld \/ UNCHANGED mainvars
  BY <1>5 DEF Nasm, Ld, mainvars
<1>. QED
  BY <1>1, <1>2, <1>3, <1>4, <1>5 DEF MainStep, Ended

(* Every step that is not the parser's is one of the generator's, or       *)
(* leaves its state alone.                                                 *)
LEMMA RunsGenerator ==
  [MainStep \/ Ended]_mainvars /\ ~Parse => [GP!Next]_(GP!genvars)
<1>. SUFFICES ASSUME [MainStep \/ Ended]_mainvars, ~Parse PROVE [GP!Next]_(GP!genvars)
  OBVIOUS
<1>1. CASE OpenOutput
  <2>1. G!CodegenAST
    BY <1>1 DEF OpenOutput
  <2>2. GP!CodegenAST
    BY <2>1 DEF G!CodegenAST, G!Write, G!TextLength, G!LineLength, G!StartsProgram, G!NameLength, G!NextProcedure, G!Procedures, G!GenAbort,
                GP!CodegenAST, GP!Write, GP!TextLength, GP!LineLength, GP!StartsProgram, GP!NameLength, GP!NextProcedure, GP!Procedures, GP!GenAbort
  <2>. QED
    BY <2>2 DEF GP!Next, GP!GenStep
<1>2. CASE Generate
  <2>1. CASE G!StartProcedure
    <3>1. GP!StartProcedure
      BY <2>1 DEF G!StartProcedure, G!Write, G!TextLength, G!LineLength, G!StartsProgram, G!NameLength, G!Line, G!Current, G!Procedures,
                  GP!StartProcedure, GP!Write, GP!TextLength, GP!LineLength, GP!StartsProgram, GP!NameLength, GP!Line, GP!Current, GP!Procedures
    <3>. QED
      BY <3>1 DEF GP!Next, GP!GenStep
  <2>2. CASE G!AssignSlot
    <3>1. GP!AssignSlot
      BY <2>2 DEF G!AssignSlot, G!Align, G!GenAbort, G!Current, G!Procedures,
                  GP!AssignSlot, GP!Align, GP!GenAbort, GP!Current, GP!Procedures
    <3>. QED
      BY <3>1 DEF GP!Next, GP!GenStep
  <2>3. CASE G!ReserveFrame
    <3>1. GP!ReserveFrame
      BY <2>3 DEF G!ReserveFrame, G!BufferFull, G!FrameSize, G!IsMain, G!GenAbort, G!Write, G!TextLength,
                  G!LineLength, G!StartsProgram, G!NameLength, G!Line, G!Current, G!Procedures,
                  GP!ReserveFrame, GP!BufferFull, GP!FrameSize, GP!IsMain, GP!GenAbort, GP!Write, GP!TextLength,
                  GP!LineLength, GP!StartsProgram, GP!NameLength, GP!Line, GP!Current, GP!Procedures
    <3>. QED
      BY <3>1 DEF GP!Next, GP!GenStep
  <2>4. CASE G!SpillArgument
    <3>1. GP!SpillArgument
      BY <2>4 DEF G!SpillArgument, G!BufferFull, G!ArgumentRegisters, G!Register, G!SYSTEMV_CALL_INT_REGISTERS,
                  G!CountInteger, G!GenAbort, G!Write, G!TextLength, G!LineLength, G!StartsProgram, G!NameLength, G!Store, G!Current, G!Procedures,
                  GP!SpillArgument, GP!BufferFull, GP!ArgumentRegisters, GP!Register, GP!SYSTEMV_CALL_INT_REGISTERS,
                  GP!CountInteger, GP!GenAbort, GP!Write, GP!TextLength, GP!LineLength, GP!StartsProgram, GP!NameLength, GP!Store, GP!Current, GP!Procedures
    <3>. QED
      BY <3>1 DEF GP!Next, GP!GenStep
  <2>5. CASE G!ArgumentsSpilled
    <3>1. GP!ArgumentsSpilled
      BY <2>5 DEF G!ArgumentsSpilled, G!Current, G!Procedures, GP!ArgumentsSpilled, GP!Current, GP!Procedures
    <3>. QED
      BY <3>1 DEF GP!Next, GP!GenStep
  <2>6. CASE G!CodegenStatement
    <3>1. GP!CodegenStatement
      BY <2>6 DEF G!CodegenStatement, G!CommentLength, G!Write, G!TextLength, G!LineLength, G!StartsProgram, G!NameLength, G!Line, G!Current, G!Procedures,
                  GP!CodegenStatement, GP!CommentLength, GP!Write, GP!TextLength, GP!LineLength, GP!StartsProgram, GP!NameLength, GP!Line, GP!Current, GP!Procedures
    <3>. QED
      BY <3>1 DEF GP!Next, GP!GenStep
  <2>7. CASE G!EndProcedure
    <3>1. GP!EndProcedure
      BY <2>7 DEF G!EndProcedure, G!Return, G!IsMain, G!NextProcedure, G!Write, G!TextLength, G!LineLength, G!StartsProgram, G!NameLength, G!Line,
                  G!Current, G!Procedures,
                  GP!EndProcedure, GP!Return, GP!IsMain, GP!NextProcedure, GP!Write, GP!TextLength, GP!LineLength, GP!StartsProgram, GP!NameLength, GP!Line,
                  GP!Current, GP!Procedures
    <3>. QED
      BY <3>1 DEF GP!Next, GP!GenStep
  <2>. QED
    BY <1>2, <2>1, <2>2, <2>3, <2>4, <2>5, <2>6, <2>7 DEF Generate
<1>3. CASE WriteOutput
  <2>1. GP!WriteFile
    BY <1>3 DEF WriteOutput, G!WriteFile, G!GenAbort, GP!WriteFile, GP!GenAbort
  <2>. QED
    BY <2>1 DEF GP!Next, GP!GenStep
<1>4. CASE Nasm \/ Ld \/ UNCHANGED mainvars
  BY <1>4 DEF Nasm, Ld, mainvars, vars, slotvars, GP!genvars
<1>. QED
  BY <1>1, <1>2, <1>3, <1>4 DEF MainStep, Ended
-----------------------------------------------------------------------------
(***************************************************************************)
(* The invariant of a run: the parser's; and the generator has not begun,  *)
(* or the parser is back and the generator's invariant holds.              *)
(***************************************************************************)
MainInv ==
  /\ Order
  /\ TreeInv
  /\ genpc = "idle" => GP!Fresh
  /\ genpc # "idle" => GP!GeneratorInv

LEMMA MainInvInit == MainInit => MainInv
BY InitOrder, TreeInit DEF MainInit, MainInv, GP!Fresh, NoSlots, NoMemory

(* Before it is back, nothing is assigned to a block of the tree.          *)
LEMMA ParseIsFresh == MainInv /\ Parse => genpc' = "idle" /\ GP!Fresh'
<1>. SUFFICES ASSUME MainInv, Parse PROVE genpc' = "idle" /\ GP!Fresh'
  OBVIOUS
<1>1. genpc = "idle" /\ GP!Fresh
  BY StepIsNotFinal DEF Parse, MainInv, Order
<1>. QED
  BY <1>1 DEF Parse, slotvars, GP!Fresh, NoSlots, NoMemory

LEMMA MainInvStep == MainInv /\ [MainStep \/ Ended]_mainvars => MainInv'
<1>. SUFFICES ASSUME MainInv, [MainStep \/ Ended]_mainvars PROVE MainInv'
  OBVIOUS
<1>1. Order' /\ TreeInv'
  BY NextOrder, RunsParser, TreeStep DEF MainInv
<1>2. CASE Parse
  BY <1>1, <1>2, ParseIsFresh DEF MainInv
<1>3. ASSUME ~Parse, genpc # "idle" PROVE MainInv'
  <2>1. GP!GeneratorInv'
    BY <1>3, RunsGenerator, GP!NextGenerator, MainAssumption DEF MainInv
  <2>2. genpc' # "idle"
    BY <1>3, OpenMoves, GenerateMoves, WriteMoves
       DEF MainStep, Ended, Nasm, Ld, mainvars, slotvars, GenGoing
  <2>. QED
    BY <1>1, <2>1, <2>2 DEF MainInv
<1>4. ASSUME ~Parse, genpc = "idle" PROVE MainInv'
  <2>1. CASE OpenOutput
    <3>1. GP!WellFormed(blocks) /\ GP!Fresh
      BY <1>4, <2>1, TreeWellFormed DEF MainInv, OpenOutput
    <3>2. GP!GeneratorInv'
      BY <1>4, <3>1, RunsGenerator, GP!FreshGenerator, GP!NextGenerator, MainAssumption
    <3>3. genpc' # "idle"
      BY <2>1, OpenMoves DEF GenGoing
    <3>. QED
      BY <1>1, <3>2, <3>3 DEF MainInv
  <2>2. CASE UNCHANGED mainvars
    <3>1. UNCHANGED <<genpc, procedure, index, integers, offset, memory, asm, bufferUsed, blocks>>
      BY <2>2 DEF mainvars, slotvars, vars
    <3>2. GP!Fresh' /\ genpc' = "idle"
      BY <1>4, <3>1 DEF MainInv, GP!Fresh
    <3>. QED
      BY <1>1, <3>2 DEF MainInv
  <2>. QED
    BY <1>4, <2>1, <2>2, GenerateMoves, WriteMoves DEF MainStep, Ended, Nasm, Ld, GenGoing
<1>. QED
  BY <1>2, <1>3, <1>4

LEMMA MainInvariant == MainSpec => []MainInv
BY MainInvInit, MainInvStep, PTL DEF MainSpec

(***************************************************************************)
(* Whatever the source, the generator is handed a tree it can rely on, and *)
(* brings each argument into a slot of its own inside the frame (the       *)
(* parser's counts at main.cpp:282-302, read at codegen_nasm.cpp:283-316). *)
(***************************************************************************)
THEOREM ParametersArriveCorrect == MainSpec => []ParametersArrive
<1>1. ASSUME MainInv PROVE ParametersArrive
  <2>1. ParseFileReturned => G!WellFormed(blocks)
    <3>1. ParseFileReturned => GP!WellFormed(blocks)
      BY <1>1, TreeWellFormed DEF MainInv
    <3>. QED
      BY <3>1 DEF GP!WellFormed, GP!WellFormedBlock, GP!IsSequence, GP!IsInjective,
                  G!WellFormed, G!WellFormedBlock, G!IsSequence, G!IsInjective
  <2>2. GP!AccessesInsideFrame /\ GP!ArgumentsInSlots /\ GP!SlotsDisjoint
    <3>1. CASE genpc = "idle"
      <4>1. asm = << >> /\ \A b \in DOMAIN blocks : offset[b] = << >>
        BY <1>1, <3>1 DEF MainInv, GP!Fresh
      <4>. QED
        BY <4>1 DEF GP!AccessesInsideFrame, GP!ArgumentsInSlots, GP!SlotsDisjoint
    <3>2. CASE genpc # "idle"
      BY <1>1, <3>2, GP!GeneratorPromises, MainAssumption DEF MainInv
    <3>. QED
      BY <3>1, <3>2
  <2>3. G!AccessesInsideFrame
    BY <2>2 DEF GP!AccessesInsideFrame, GP!Size, G!AccessesInsideFrame, G!Size
  <2>4. G!SlotsDisjoint
    BY <2>2 DEF GP!SlotsDisjoint, GP!Size, G!SlotsDisjoint, G!Size
  <2>5. G!ArgumentsInSlots
    BY <2>2 DEF GP!ArgumentsInSlots, GP!ArgumentsStored, GP!ArgumentStore, GP!IsStoreOf,
                GP!SYSTEMV_CALL_INT_REGISTERS,
                G!ArgumentsInSlots, G!ArgumentsStored, G!ArgumentStore, G!IsStoreOf,
                G!SYSTEMV_CALL_INT_REGISTERS
  <2>. QED
    BY <2>1, <2>3, <2>4, <2>5 DEF ParametersArrive
<1>. QED
  BY <1>1, MainInvariant, PTL

(* What the generator can make code of is what Compilable says it is.      *)
LEMMA GenerableIsCompilable ==
  ASSUME NEW b
  PROVE  /\ GP!Generable(b) <=> Compilable(b)
         /\ GP!FewInputs(b) <=> InRegisters(b)
BY DEF GP!Generable, GP!FewInputs, GP!Inputs, Compilable, InRegisters

(* Once the parser is back, the procedures of the top are root's.          *)
LEMMA TopLevelIsAttached ==
  TreeInv /\ ParseFileReturned =>
    \A b : b \in TopLevel <=> \E k \in DOMAIN GP!Procedures : b = GP!Procedures[k]
<1>. SUFFICES ASSUME TreeInv, ParseFileReturned, NEW b
              PROVE  b \in TopLevel <=> \E k \in DOMAIN GP!Procedures : b = GP!Procedures[k]
  OBVIOUS
<1>1. Open = {Root} /\ Root \in DOMAIN blocks /\ GP!Procedures = blocks[Root].procedures
  BY AttachTypes DEF TreeInv, AttachInv, StackInv, ParseFileReturned, Open, Root, GP!Procedures
<1>2. ASSUME b \in TopLevel PROVE \E k \in DOMAIN GP!Procedures : b = GP!Procedures[k]
  <2>1. b \in DOMAIN blocks /\ b \notin Open /\ blocks[b].parent = Root
    BY <1>1, <1>2 DEF TopLevel
  <2>2. PICK c \in DOMAIN blocks : \E k \in DOMAIN blocks[c].procedures : blocks[c].procedures[k] = b
    BY <2>1 DEF TreeInv, AttachInv, ClosedAttached
  <2>3. c = Root
    BY <2>1, <2>2 DEF TreeInv, AttachInv, AttachedClosed
  <2>. QED
    BY <1>1, <2>2, <2>3
<1>3. ASSUME NEW k \in DOMAIN GP!Procedures, b = GP!Procedures[k] PROVE b \in TopLevel
  BY <1>1, <1>3 DEF TreeInv, AttachInv, AttachedClosed, TopLevel
<1>. QED
  BY <1>2, <1>3

(* What a written file holds.                                              *)
LEMMA WrittenHoldsTopLevel == MainInv /\ genpc = "written" => HoldsTopLevel
<1>. SUFFICES ASSUME MainInv, genpc = "written", NEW b \in DOMAIN blocks \ {Root}
              PROVE  IF b \in TopLevel THEN G!Whole(b) ELSE \A k \in DOMAIN asm : asm[k].of # b
  BY DEF HoldsTopLevel
<1>1. GP!GeneratorInv /\ TreeInv /\ ParseFileReturned
  BY DEF MainInv, Order, ParseFileReturned
<1>2. b \in TopLevel <=> \E k \in DOMAIN GP!Procedures : b = GP!Procedures[k]
  BY <1>1, TopLevelIsAttached
<1>3. CASE b \in TopLevel
  <2>1. GP!Whole(b)
    BY <1>1, <1>2, <1>3, GP!GeneratorPromises, MainAssumption DEF GP!CompleteWhenWritten
  <2>. QED
    BY <1>3, <2>1 DEF GP!Whole, GP!Labels, G!Whole, G!Labels
<1>4. CASE b \notin TopLevel
  <2>1. GP!OwnerInv /\ GP!OutputInv /\ GP!WellFormed(blocks)
    BY <1>1 DEF GP!GeneratorInv, GP!LayoutInv
  <2>2. DOMAIN GP!Procedures = 1 .. Len(GP!Procedures) /\ DOMAIN asm = 1 .. Len(asm)
    BY <2>1 DEF GP!WellFormed, GP!Procedures, GP!OutputInv
  <2>3. ASSUME NEW k \in DOMAIN asm PROVE asm[k].of # b
    BY <1>2, <1>4, <2>1, <2>2 DEF GP!OwnerInv, GP!Owner, Root
  <2>. QED
    BY <1>4, <2>3
<1>. QED
  BY <1>3, <1>4

(***************************************************************************)
(* A file is written only when every procedure at the top of the source    *)
(* can be compiled, and holds them, whole, and nothing of those defined    *)
(* inside others; and when those at the top can be compiled and have up to *)
(* six arguments, it is written unless the generator's buffer is full      *)
(* (CodegenSafetyCheck, the assertions of codegen_nasm.cpp and the loop at *)
(* codegen_nasm.cpp:333).                                                  *)
(***************************************************************************)
THEOREM WrittenIffCompilableCorrect == MainSpec => []WrittenIffCompilable
<1>1. ASSUME MainInv PROVE WrittenIffCompilable
  <2>. SUFFICES ASSUME genpc # "idle" PROVE WrittenIffCompilable
    BY DEF WrittenIffCompilable
  <2>1. GP!WellFormed(blocks) /\ GP!GenerableInv /\ TreeInv /\ ParseFileReturned
    BY <1>1 DEF MainInv, GP!GeneratorInv, GP!LayoutInv, Order, ParseFileReturned
  <2>2. GP!BufferFull <=> G!BufferFull
    BY DEF GP!BufferFull, G!BufferFull
  <2>3. Len(GP!Procedures) \in Nat /\ DOMAIN GP!Procedures = 1 .. Len(GP!Procedures)
    BY <2>1 DEF GP!WellFormed, GP!Procedures
  <2>4. \A b : b \in TopLevel <=> \E k \in DOMAIN GP!Procedures : b = GP!Procedures[k]
    BY <2>1, TopLevelIsAttached
  <2>5. ASSUME genpc = "written", NEW b \in TopLevel PROVE Compilable(b)
    <3>1. PICK k \in DOMAIN GP!Procedures : b = GP!Procedures[k]
      BY <2>4
    <3>2. GP!Generable(b)
      BY <2>1, <2>3, <2>5, <3>1 DEF GP!GenerableInv
    <3>. QED
      BY <3>2, GenerableIsCompilable
  <2>6. ASSUME genpc \in {"assert", "fault"}
        PROVE  G!BufferFull \/ \E b \in TopLevel : ~(Compilable(b) /\ InRegisters(b))
    <3>1. GP!BufferFull \/ \E k \in DOMAIN GP!Procedures :
            ~(GP!Generable(GP!Procedures[k]) /\ GP!FewInputs(GP!Procedures[k]))
      BY <2>1, <2>3, <2>6 DEF GP!GenerableInv
    <3>2. CASE GP!BufferFull
      BY <2>2, <3>2
    <3>3. ASSUME NEW k \in DOMAIN GP!Procedures,
                 ~(GP!Generable(GP!Procedures[k]) /\ GP!FewInputs(GP!Procedures[k]))
          PROVE  \E b \in TopLevel : ~(Compilable(b) /\ InRegisters(b))
      BY <2>4, <3>3, GenerableIsCompilable
    <3>. QED
      BY <3>1, <3>2, <3>3
  <2>. QED
    BY <1>1, <2>5, <2>6, WrittenHoldsTopLevel DEF WrittenIffCompilable
<1>. QED
  BY <1>1, MainInvariant, PTL
-----------------------------------------------------------------------------
(***************************************************************************)
(* What the parser promises of its tree holds in a whole run: nobody who   *)
(* takes the tree over undoes it.  Scopes follow the stack, procedures     *)
(* hang in one place, parameters come first, names are defined before they *)
(* are used, texts lie in the file, and a finished block stays as it is    *)
(* (ParseStatement and ParseBlock, before CodegenAST in main).             *)
(***************************************************************************)
THEOREM RunKeepsTree ==
  MainSpec => /\ [](/\ ScopeFollowsStack /\ ProceduresAttachedOnce
                    /\ ParametersPrecedeStatements /\ DefineBeforeUse /\ StatementText)
              /\ FinishedBlocksFrozen
<1>. DEFINE ParserInv == ScopeInv /\ AttachInv /\ ParamInv /\ DefineInv /\ TextInv
<1>1. MainInit => ParserInv
  BY ScopeInit, AttachInit, ParamInit, DefineInit, TextInit DEF MainInit
<1>2. ParserInv /\ [MainStep \/ Ended]_mainvars => ParserInv'
  BY RunsParser, ScopeStep, AttachStep, ParamStep, DefineStep, TextStep
<1>3. ParserInv => /\ ScopeFollowsStack /\ ProceduresAttachedOnce
                   /\ ParametersPrecedeStatements /\ DefineBeforeUse /\ StatementText
  <2>1. ParamInv => ParametersPrecedeStatements
    BY DEF ParamInv, ParametersPrecedeStatements, ParametersFirst, Settled
  <2>. QED
    BY <2>1, AttachedInOnePlace, TextIsInside DEF ScopeInv, DefineInv
<1>4. ParserInv /\ [MainStep \/ Ended]_mainvars => [Frozen]_vars
  BY RunsParser, StepFrozen
<1>5. FinishedBlocksFrozen <=> [][Frozen]_vars
  BY PTL DEF FinishedBlocksFrozen, Frozen
<1>. HIDE DEF ParserInv
<1>. QED
  BY <1>1, <1>2, <1>3, <1>4, <1>5, PTL DEF MainSpec

(***************************************************************************)
(* And what the generator promises of its file: whatever the source, a     *)
(* file written in a run holds every procedure at the top of the source    *)
(* from its label to its end, once each and in root's order, and nothing   *)
(* of those defined inside them; and in no file, written or not, does one  *)
(* procedure run on into the next (CodegenNASMFile).                       *)
(***************************************************************************)
THEOREM RunKeepsFile ==
  MainSpec => [](/\ GP!CompleteWhenWritten /\ GP!NoFallThrough
                 /\ genpc = "written" => HoldsTopLevel)
<1>. DEFINE Control == genpc # "idle" => GP!ControlInv
<1>1. MainInit => Control
  BY DEF MainInit
<1>2. MainInv /\ Control /\ [MainStep \/ Ended]_mainvars => Control'
  <2>. SUFFICES ASSUME MainInv, Control, [MainStep \/ Ended]_mainvars PROVE Control'
    OBVIOUS
  <2>1. CASE Parse
    BY <2>1, ParseIsFresh
  <2>2. CASE ~Parse /\ genpc # "idle"
    BY <2>2, RunsGenerator, GP!NextControl, MainAssumption DEF MainInv, GP!GeneratorInv
  <2>3. CASE ~Parse /\ genpc = "idle"
    <3>1. CASE ParseFileReturned
      <4>1. GP!WellFormed(blocks) /\ GP!Fresh
        BY <2>3, <3>1, TreeWellFormed DEF MainInv
      <4>2. GP!OutputInv /\ GP!ControlInv
        BY <4>1, GP!FreshOutput, MainAssumption DEF GP!Fresh, GP!ControlInv
      <4>. QED
        BY <2>3, <4>2, RunsGenerator, GP!NextControl, MainAssumption
    <3>2. CASE ~ParseFileReturned
      <4>1. genpc' = genpc
        BY <2>3, <3>2, OpenMoves, GenerateMoves, WriteMoves
           DEF MainStep, Ended, OpenOutput, Generate, Nasm, Ld, mainvars, slotvars, GenGoing
      <4>. QED
        BY <2>3, <4>1
    <3>. QED
      BY <3>1, <3>2
  <2>. QED
    BY <2>1, <2>2, <2>3
<1>3. MainInv /\ Control => GP!CompleteWhenWritten /\ GP!NoFallThrough
  <2>. SUFFICES ASSUME MainInv, Control PROVE GP!CompleteWhenWritten /\ GP!NoFallThrough
    OBVIOUS
  <2>1. CASE genpc = "idle"
    <3>1. asm = << >>
      BY <2>1 DEF MainInv, GP!Fresh
    <3>. QED
      BY <2>1, <3>1 DEF GP!CompleteWhenWritten, GP!NoFallThrough
  <2>2. CASE genpc # "idle"
    <3>1. GP!GeneratorInv /\ GP!ControlInv
      BY <2>2 DEF MainInv
    <3>2. GP!NoFallThrough
      BY <3>1 DEF GP!GeneratorInv, GP!OutputInv, GP!ControlInv, GP!NoFallThrough, GP!Ends
    <3>. QED
      BY <3>1, <3>2, GP!GeneratorPromises, MainAssumption
  <2>. QED
    BY <2>1, <2>2
<1>. HIDE DEF Control
<1>. QED
  BY <1>1, <1>2, <1>3, WrittenHoldsTopLevel, MainInvariant, MainInvInit, MainInvStep, PTL
     DEF MainSpec
=============================================================================
