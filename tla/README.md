# TLA+ verification of the sky compiler

The repository is a small compiler for a toy language ("sky"). `main()` reads one
file, `test.sky`, lexes and parses it into a tree of blocks, and writes NASM text
for the tree's procedures; `nasm` and `ld` make an executable of it. Beside it
stand a binary x86-64 encoder with a test program, the headers and the compiled
object of a disassembler (Zydis) that reads the encoder's bytes back, and print
routines in assembly that every output file includes. The program has one thread
and keeps nothing between runs but its output files.

What makes it worth modelling is not concurrency but control: a recursive parser
with one mutable scope pointer and many early returns, null results that callers
do not test, errors that are logged and parsed past, a code generator that ends in
assertions half way, unchecked buffers, tables and child processes, and two pieces
of code, encoder and runtime, whose correctness is a matter of bits and bytes.

At the commit modelled `main.cpp` does not compile: `codegen(ctx, )` at
CodegenASM.cpp:103 is unfinished (and `va_list` is used without its header). The
models take line 103 to emit nothing; the assertion two lines below it ends the
run in any case. `build.sh` builds only the encoder's test program.

## Inventory

| component | source | state | operations | hard behaviour | what makes it correct |
|---|---|---|---|---|---|
| Lexer | main.cpp 27-148 | `ParseState.current`, `token` | `LexNextToken` | order of the symbol table; unknown bytes; calls after the end | no byte lost or shared, longest lexeme, the end is final |
| Parser | main.cpp 150-386 | `currentBlock`, the tree, the C stack | `ParseFile`, `ParseBlock`, `ParseStatement`, `ParseExpression`, `ParseArgumentList` | early returns, null results, logged errors, nested procedures | scope follows nesting, every procedure attached once, parameters before statements, define before use, termination |
| AST and lookup | AST.cpp 26-189 | nodes, arrays of pointers | `Create*`, `FindVariable`, `FindTypeFromToken` | lookup by prefix; a log line that reads behind a table | a reference is to a declared variable of the same block |
| DynamicArray | AST.cpp 1-23 | `capacity`, `count`, `data`, the heap | `ArrayAdd` | growth at a full array, malloc failing half way | an append-only sequence in storage of its own |
| Code generator | codegen_nasm.cpp, CodegenASM.cpp | slots, frame size, output buffer | `CodegenAST` ... `CodegenBinop` | assertions half way, unresolved types, limits of tables and buffer | slots disjoint, accesses inside the frame, complete output or none |
| Driver | main.cpp 388-407, codegen_nasm.cpp 342-358 | three files, exit codes of children | `main`, `CodegenAST`, `system` | the output is emptied first and written last; exit codes ignored | the executable is this run's own exactly when both children succeeded |
| Encoder | asm_x86_64.h, TestCodegenX86_64.cpp | bytes of a buffer | `mov_*`, `add_*`, `sub_*`, `op_*` | fields of ModR/M, sign extension, SIB, high registers | what is encoded decodes to what was asked |
| Runtime | NasmUtils.asm | registers, stack, output | `PrintInt64`, `PrintByte`, `PrintFourBits`, `Syswrite` | clobbered registers, an unaligned stack, writes that fall short | prints the number, comes back to its caller with rax, rsi, rdx, rsp and the caller's frame as they were |
| Zydis input layer | ZydisInstructionDecoder.hpp 51-400 | position, current byte, an instruction's bytes and flags | `inputPeek`, `inputNext`, `setPosition`, memory and stream sources | the end of a stream, the limit of 15 bytes, errors half way | an instruction holds the source's bytes in order, errors are real |
| Zydis instruction decoder | ZydisInstructionDecoder.hpp, ZydisOpcodeTable.hpp, ZydisTypes.hpp | `InstructionInfo`, instruction pointer, tree node | `decodeInstruction` | prefixes without end, broken and cut instructions, rewinding | instructions tile the input, every call gets further |
| Zydis formatter, symbol resolver | ZydisInstructionFormatter.hpp, ZydisSymbolResolver.hpp | a text buffer, a map | - | - | not modelled |
| Samples, scratch files, build script | test.sky, io.sky, tests/, build.sh | - | - | - | not modelled (the tree of test.sky is an input of `codegen`) |

How they interact. The parser calls the lexer for one token at a time; all they
share is `ParseState`. The generator runs after the parser and reads its tree,
adding the slots; it runs whether or not `ParseFile` succeeded, for `main` ignores
what it returns. The generator's output goes through a file to `nasm` and `ld`,
whose exit codes nobody looks at. The encoder and the disassembler meet in the
test program: a buffer of encoded calls is decoded until `decodeInstruction`
returns false. Nothing generated calls the runtime yet; every output file
includes it.

## Modules

**Compiler**

- `TokenStream` - what the lexer promises the parser: each call yields the next
  lexeme or `EndOfBuffer`, and `EndOfBuffer` for ever after. `NextEndOfBuffer` may
  happen at any point, because the lexer takes an unknown byte for the end.
- `Lexer` - `LexNextToken` over a concrete buffer. Bytes are classes (a letter
  stands for `isalpha` or `_`). `lexed` is a history variable. `ImplementsTokenStream`
  maps it to `TokenStream`: an identifier's name is its bytes, `pos` the number of
  lexemes lexed. Line and column numbers are left out; the code never changes them.
- `Parser` - all of main.cpp 150-386 over `TokenStream`. One action is the code
  between two reads of a token. `pc` is the point reached; `stack` the
  `ParseStatement` calls that are defining a procedure (its local `thisBlock` and
  the procedure), which is all the C stack holds that is used again: an expression
  is right recursive, so its pending calls are the leaves and operators in `expr`.
  A failed assertion ends in `"assert"`, a null dereference in `"fault"`, a missing
  file in `"unopened"`. The log line for a new procedure reads the fourth of three
  names (AST.cpp:119): `LogNodeFaults` is the build in which that is no address.
  Names matter through `PrefixOf` alone, since both lookups compare prefixes.
  Values of literals are left out. Text positions and lengths count tokens, which
  keeps their order; a length of zero tokens stands for zero bytes or a negative
  number of them (main.cpp:311), so whether one is positive is exact, and that is
  all `StatementText` asks.
- `AppendOnly`, `DynamicArray` - the sequences that `ArrayAdd` promises (and that
  `Parser` uses), and the code: a capacity, a count and a data pointer over a heap of
  allocations, growth by malloc, memcpy and free, malloc returning any free address
  or null. A malloc that fails leaves the old storage in place under a capacity already
  raised (AST.cpp:16). `ImplementsAppendOnly` is the refinement.
- `Codegen` - `CodegenAST` down to the written buffer, over a tree given at the
  start. One action is one iteration of a loop. `asm` is the buffer's content as
  lines, `bufferUsed` its length in bytes, taken for names of one letter and
  numbers of one digit (the shortest lines). What a seventh integer parameter finds
  behind the table of registers, or behind that of their names, is any name, nothing
  or no address. No expression yields a value in a
  register (CodegenASM.cpp 44-116), hence `CodegenStatement` always ends in
  `"assert"` (codegen_nasm.cpp:282, CodegenASM.cpp:105, 114 or 124). What it assumes
  of its tree is `WellFormed`.
- `Driver` - a run seen from outside: the files `output.asm`, `output.o` and
  `output`, each from before, from this run, or none, the stage reached, and the
  children that failed. An executable linked in this run from an earlier run's object
  is `"stale"`: neither this run's program nor the executable that was there before.
- `Compiler` - `main()`: `Parser` and an instance of `Codegen` on one tree, the
  output file emptied and written, `nasm` and `ld`. `stage` and the files implement
  `Driver` (`ImplementsDriver`). `nasm` and `ld` may succeed, fail and leave the old
  file, or fail and remove it; `failed` records which did, and no guard reads it.
- `NasmUtils` - one call of `PrintInt64` on a machine of `W`-byte words with memory by
  the byte. Blocks of code between calls, returns and system calls are actions;
  return addresses lie on the stack beside data, so a wrong pop returns into the
  wild. The kernel writes all of a buffer, some of it, or fails.

**Encoder and disassembler**

- `X86Encoder` - every procedure of asm_x86_64.h as a function from a call to bytes
  and an assertion; `op_reg_regoffset` refuses `OPERATION_MUL` and `OPERATION_DIV` (162).
- `ZydisInput` - `BaseInput`, `MemoryInput` and `StreamInput` as functions on an input and
  an info; `InputReader` is any client that peeks, reads and moves.
- `OpcodeTable`, `ZydisTable` - the form of the opcode tree, and the part of its contents
  the inputs reach, under the numbers it has in zydis.o.
- `InstructionDecoder` - `decodeInstruction` in 64-bit mode, a state per prefix, tree
  node and operand, and the client's loop. The headers declare the methods; their
  bodies are in zydis.o, so these definitions are marked external in the map. The
  model was compared with the compiled library on 6200 inputs (the ones of the
  run `encode_decode` and random ones over the modelled bytes): flags, length,
  mnemonic, prefixes, operands and return value agree on all.
- `TestCodegen` - the test program: encoder calls into a buffer, then the decoder.

**Instances and proofs**

- `MCLexer`, `MCParser`, `MCCodegen`, `MCCompiler`, `MCNasmUtils`, `MCInputReader`,
  `MCTestCodegen` - values of the constants for TLC (`DynamicArray` needs none).
- `ParserProofs`, `DynamicArrayProofs`, `LexerProofs`, `CodegenProofs`, `CompilerProofs`,
  `NasmUtilsProofs`, `InputReaderProofs`, `DecoderProofs` - theorems.

Definitions marked *mutant* are deliberate mistakes: put in place of the
definition that follows them, a named property fails. They are used by nothing else.

## Runs

| run | shows | bounds and why they suffice |
|---|---|---|
| `lexer` | tiling, longest match, refinement of `TokenStream` | buffers of up to five bytes of six classes: two lexemes with white space, `::` beside `:`, an unknown byte anywhere; other single symbols behave as `(` |
| `lexer_end` (violation) | `EndOfBuffer` before the end of the buffer | one byte is enough |
| `parser` | the parser's six invariants, frozen blocks, termination | twelve tokens, two names (one begins the other and one type's name, the other resolves to no type), one operator: long enough for a procedure in a procedure, inputs and outputs, a body that copies a parameter, sums of two and more, and every error path. Operators are interchangeable to the parser |
| `codegen` | layout, accesses, spills, order, completeness, termination | the tree of test.sky and up to two procedures, three parameters of every type or unresolved, five to seven integers, five shapes of statement, `Main` first or second; the buffer never fills |
| `codegen_buffer` (violation) | the buffer is overrun | a buffer of 96 bytes stands for the code's 1 MiB |
| `codegen_registers` (violation) | seventh argument register | seven integers |
| `codegen_stack` (violation) | the frame is never given back | one parameter |
| `dynamic_array` | storage holds its elements, is owned by one array, none leaks; append-only | two arrays, two values, three addresses (two arrays and the copy under way), growth by 2 for the code's 10, five elements: two growths of each, a freed address reused by the other |
| `compiler` | a file holds the procedures at the top of the source, all of which can be compiled, and nothing of those inside them; the generator dies only of one at the top that it cannot compile, of a seventh argument or of a full buffer; the parser's tree meets `WellFormed` and its parameters arrive; whose program the executable is, for every outcome of nasm and ld; refinement of `Driver`; the run ends | nine tokens, three names ("Main", a small integer type, a float type), any files before the run: a procedure with a parameter and a body, two procedures, every death of parser and generator, every failure of nasm and ld |
| `runtime` | the digits printed, rax, rsi, rdx, rsp and the caller's frame, termination | words of 2 bytes for the code's 8 (the copies of the macro are the same code with another offset); numbers with every digit and both signs; writes of any length or failing |
| `zydis_input` | an instruction's bytes are the source's; errors are real and final | memory and streams of 0, 3, 14, 15, 16 (and 1, 18) bytes, reads of 1, 2, 4 and 8: both sides of the limit of 15, and a read across it and across the end |
| `encode_decode` | encoded programs read back; any bytes tile, stay within 15, and the decoder gets further | one call with each register and with numbers at both ends, every pair of fourteen calls, the test's program, the operations that are refused; every input of up to four bytes over eight that stand for the kinds of byte, runs of prefixes of 13 to 17, addressing modes |

Deadlock is checked everywhere but in `dynamic_array`, where everything stops at
`MaxCount`, or after a crash: elsewhere a program that has ended stutters in an
action of its own (`Terminated`, `GenTerminated`, `Ended`, `Returned`).

Liveness (`Termination`, `GenTermination`, `MainTermination`, `PrintReturns`) assumes
weak fairness of the whole program: one thread that the system goes on running,
reads and writes that return, children that end, a kernel that returns from
`write`. Nothing else is assumed; in particular the token stream may be as long as
`MaxTokens` and end or not wherever it likes, and a child may fail. That the decoder
comes to an end is not stated with fairness but as a ranking: `GetsFurther` says that
every step raises a measure the length of the input bounds, so the client's loop
ends whenever the decoder is run at all.

## Proofs

Each theorem holds for every value of the constants that the assumptions named in
the modules allow; TLC evaluates those assumptions in the runs. The pattern is one:
an inductive invariant, the lemma that the initial states satisfy it, one lemma per
action or kind of step that keeps it, and the property as a consequence.

**Parser and arrays**

`ParserProofs`, for every set of names, prefix relation, table of types and length of
input:

- `TypeCorrect`: `Spec => []TypeOK`. `TypeOK` is not inductive: the count of
  outputs is a difference of two counts, a natural number only because no block has
  more inputs than variables (`InputsCounted`). `TypeInv` is the conjunction.
- `ScopeCorrect`: `Spec => []ScopeFollowsStack`, inductive together with `TypeInv`:
  only `DefineProcedure` and `ParseProcedureReturns` move between scopes, and no step
  changes a parent (`StepGrows`).
- `BlocksFrozen`: `Spec => FinishedBlocksFrozen`, an action property: a step touches
  the current block and the one returned to at most, both open by `ScopeFollowsStack`,
  and only appends.
- `DefineBeforeUseCorrect`: `Spec => []DefineBeforeUse`. Its invariant adds that the
  expression being parsed refers only to what the current block has declared.

and, of the tree it builds:

- `AttachedOnceCorrect`: `Spec => []ProceduresAttachedOnce`. `AttachInv` adds to the
  invariants above that the procedures on the stack are different blocks and in no
  list, that a list holds only closed blocks whose parent it is, each once, and that
  every closed block is in one. Defining opens a block nobody lists; returning lists
  the innermost open one and closes it; no other step changes a list.
- `ParametersFirstCorrect`: `Spec => []ParametersPrecedeStatements`. The property speaks
  of blocks between two statements; `ParamInv` adds what holds inside an argument list
  (`Declaring`): which counts are still zero at each point of `pc`.
- `StatementTextCorrect`: `Spec => []StatementText`. A text's length is the difference of
  two positions of the lexer; `TextInv` orders them: what is declared ends before the
  statement under way, an expression that is a lone reference ends where the
  identifier stands, and any other behind it.

`DynamicArrayProofs`, for any arrays, addresses and growth:

- `TypeCorrect`, `StorageHolds`, `StorageIsOwned`: the three invariants, inductive
  together: an array that moves must know that its old storage is its own before it
  frees it, and that the new storage is nobody's.
- `Implements`: `Spec => ImplementsAppendOnly`. Growth copies what is counted, so the
  array reads as before with one element more; a crash is a stutter.

**Lexer**

`LexerProofs`, for every buffer that ends in its only `NUL`:

- `LexerTypeCorrect`, `TilingCorrect`, `MaximalMunchCorrect`: from one invariant, `LexInv`.
  It says of the lexemes that they are in order and apart, of the bytes between them
  that they are white space, and of a lexer that has reported the end that it stands
  where it will find nothing again (`NothingAt`), which no property states and the
  refinement needs. `SkipStops`, `SymbolFound` and `TokenFound` say what the scanning
  loops of `LexNextToken` return; `StepFinds`, that a step does what they say.
- `LexerIsStream`: `Spec => ImplementsTokenStream`: a call that finds a lexeme is the
  stream's next token, one that finds none is the stream's end, and a call after
  that is a stutter. So what is proved of the parser over `TokenStream` is true of
  it over the lexer.

**Generator**

`CodegenProofs`, for every tree that is `WellFormed` and every table of types:

- `SlotsCorrect`: `Spec => []SlotsDisjoint`. `LayoutInv` adds where the generator is
  (`PlaceOK`), that the frame's size is a multiple of eight, that types with a slot are
  resolved, and that procedures not reached have no slot yet (`LaterUntouched`, which
  needs the procedures to be different blocks).
- `AccessesCorrect`: `Spec => []AccessesInsideFrame`. `OutputInv` adds that a `sub` line
  reserves what its block requires *in the end*: its procedure is behind the
  loop that assigns slots (`Reserved`), and every access is to a slot and behind
  that line. Slots and frames are multiples of eight and types are not empty, so eight
  bytes at a slot reach neither the next slot nor the frame's end.

and, of what the text as a whole says:

- `ControlStaysInside`: `Spec => []NoFallThrough`: before each label is a return, the
  exit or the prologue. `ControlInv` adds that the output ends in such a line whenever
  a label is next.
- `ArgumentsCorrect`: `Spec => []ArgumentsInSlots`. `SpillInv` follows the stores of the
  procedure under way behind its `sub` line (`StoredIn`); `ReturnInv` keeps them for the
  procedures that returned. A procedure writes its `sub` line once because the
  procedures of the tree are different blocks.
- `FileCorrect`: `Spec => []CompleteWhenWritten`. `LabelInv` gives each label its procedure,
  in the order of the list, and each finished procedure its last line;
  `GenerableInv` says that the finished ones had no statement, since none can be
  generated.
- `GeneratorTypeCorrect`: `Spec => []TypeOK`, from the invariants above and `CountInv`.

**The whole compiler**

`CompilerProofs`, for everything `Compiler` takes as a parameter:

- `RunIsDriver`: `MainSpec => ImplementsDriver`: each step of parser, generator or child
  is a step of the driver or a stutter, given the order in which the stages come.
- `CustodyKept`: `MainSpec => []Custody`, from `FilesInv`, which says of each stage what each
  file holds given the children that failed so far: an object is this run's once nasm
  has succeeded, and an earlier run's or gone once it has failed.
- `NoProgramOfTheDead`: a run that dies leaves the earlier object file and executable
  alone and `output.asm` as it was or empty.
- `ParametersArriveCorrect`: `MainSpec => []ParametersArrive`: what the generator's
  theorems assume of their tree, the parser delivers. `TreeWellFormed` derives
  `WellFormed` from the parser's invariants (`TreeInv`: counts in order, references to
  what is declared, procedures attached once); `RunsParser` and `RunsGenerator` say that a
  step of the compiler is one of the parser or a stutter to it, and likewise of the
  generator; `MainInv` hands over: before the output is opened the generator
  is `Fresh`, from then on `GeneratorInv` holds.
- `WrittenIffCompilableCorrect`: `MainSpec => []WrittenIffCompilable`, from `GenerableInv` and
  two facts that join parser and generator. The root's list holds the procedures whose
  parent is the root and no others (`TopLevelIsAttached`, from the parser's
  `ProceduresAttachedOnce` and `StackInv`: when the parser has returned nothing is open),
  and every line of the output is the prologue's or that of a procedure in that list
  (`OwnerInv`), so there is none of a procedure inside another.
- `RunKeepsTree` and `RunKeepsFile`: what the theorems on `Parser` and `Codegen` say of
  each alone holds of a run of both: the parser's five properties of its tree and
  `FinishedBlocksFrozen`, though the generator and the driver go on stepping, and
  `CompleteWhenWritten`, `NoFallThrough` and `HoldsTopLevel` of the file, for the tree of
  whatever source was parsed and not for a tree assumed. They speak of the procedures
  at the top of the source; those inside them are in no file.

**Print routines**

`NasmUtilsProofs`, for words of two to eight bytes, every argument and every content of
the registers:

- `RestoresCallerCorrect`: `AsmSpec => []RestoresCaller`. The property looks at the machine
  when the call is over; `StackInv` says how it gets there: at each block, how far below
  the entry the stack pointer is (`Depth`, odd between two pushes), that the three words
  PrintInt64 saved first lie where it will pop them (`Saved`), and that wherever a `ret`
  will look there is the address of a point the routine may go on at (`ReturnsTo`).
  While the kernel writes, the same holds of the block it returns to. A push leaves the
  bytes above it alone (`Pushed`), so each word survives until it is read; `StoredIsRead`
  says that bytes stored from a word are read as that word, for every width. Nothing is
  assumed of what `write` answers. With 8-byte words it speaks of the code as it is,
  where the run has 2-byte words.
- `SpellsCorrect`: `AsmSpec => []Spells`. `SpellInv` says of each block how many bytes were
  handed to the kernel and where the number is meanwhile (`Stage`): in `rax`, or in the
  word PrintInt64 or PrintByte pushed before `rax` was used for something else
  (`NumberAt`). Which byte is in hand is not a variable of its own: the return address
  below the saved words says where to go on (`Next4`), and with it how many digits are
  out. While the kernel writes, what it was given is what is due next (`Due`). That the
  digits are the number's is arithmetic of its own: a byte of a word is the quotient by a
  power of 256, its halves are the digits (`HexPowerIs`, `Nibbles`), and `HexDigitIs` is the
  addition of 48 or 55.

**Input layer of the disassembler**

`InputReaderProofs`, for every set of memory and stream sources:

- `ReaderTypeCorrect`, `DataIsInputCorrect`, `ErrorsAreRealCorrect`, and the action property
  `NoByteAfterErrorCorrect`, from one invariant, `PairOK` of input, info and the place
  where the instruction began. `DataIsInput` alone is not inductive: a stream that has
  found its end stands where it stood, so a further read would take the 0xFF of
  the end again, did `eof` or `fail` not stop it; and an error must stay true (a source at its
  end stays there, a full buffer stays full) for the next read not to take a byte
  after it. `ByteRead` is what one byte of a source does, `PeekOK` and `NextOK` what
  a peek and a read do, and `ReadGoes` composes them for two, four and eight bytes.

**Decoder**

`DecoderProofs`, for every set of buffers, every opcode table and, in the theorems of
`TestSpec`, every program of encoder calls. `MemoryAssumption` is the client's
choice of source (TestCodegenX86_64.cpp:39); `ProgramsAssumption` types the calls;
`TreeAssumption` says of the table what GetOpcodeTreeChild asserts, what
the decoder's switch can handle, and that the tree is one: a child is a table of the
tree or a definition, an instruction's operands have a type and a size `decodeOperand`
knows, at most one of them memory, and no way from table to table that takes no byte
comes back. `EncoderRowsAssumption`, for `RoundTripCorrect` alone, says which rows stand
behind the encoder's eight opcodes (mnemonic, operands, REX). TLC evaluates all of them
on the contents of `ZydisTable`. The steps follow a child only where the table has one (`HasChild`): a walk out of
the table is undefined in the code and no state here.

- `InstructionsTileCorrect`: `Spec => []InstructionsTile`. The property speaks of the
  instructions decoded; `DecoderInv` adds the one under way, which is the input layer's
  `PairOK` of what that layer sees of it (`Core`), beginning at the instruction pointer.
  `PeekFollows`, `NextFollows` and the lemmas about numbers, ModR/M, SIB and operands
  say that each part of the decoder only reads on; `FailOK` that one step back and one
  forward lead behind the first byte of what broke off.
- `RestIsShortCorrect`: `Spec => []RestIsShort`, a conjunct of the same invariant: the end
  of the input is only reported of an instruction with fewer than fifteen bytes.
- `LengthIsPartsCorrect`: `Spec => []LengthIsParts`. `LengthInv` is a balance kept from
  the first opcode byte on (`Weighed`): bytes taken = prefixes + opcode + numbers of the
  operands so far + one for each of the ModR/M and SIB flags. While prefixes are
  collected every byte is one (`OnlyPrefixes`), and the first opcode byte is not, which
  is where the count of prefixes a reader makes (`PrefixCount`) is the decoder's. The
  SIB flag must not be up when a memory operand begins, which is why an instruction
  may have one only, and a number's size in bytes must be what it was read with, which is
  why the invariant knows the operand mode. `TableOperand` ... `NumberEffect` are the
  balance of one operand, by type.
- `TestDecodesCorrect`: `TestSpec => [](InstructionsTile /\ LengthIsParts /\ RestIsShort)`,
  of the program that encodes and then decodes, the specification of `encode_decode`:
  what the encoder writes are bytes, whatever it is asked for (`EncodedBytes`), and from
  `setDataSource` on the decoder's invariants hold.
- `RoundTripCorrect`: `TestSpec => []DecodesIffExpressible`, for programs of any length,
  both directions. `CodeInv` follows the decoder through the bytes of the calls: the
  lengths returned say where each call begins, and the decoder is either `OnTrack`, every
  instruction so far the call's own (`AsAsked`) and the one under way at a known
  place in its call's bytes (`AtPrefixes`, `AtOpcode`, `AtNode`, `AtOperands`), or `Lost`: some
  call before the instruction pointer was decoded as something else and was not
  `Expressible`. Only the end of an instruction (`Succeed`) leads from one to the other.
  Once lost it stays lost, since decoded instructions are not revised; that is why the second direction needs no knowledge of what the rest decodes to. The
  lemmas about ModR/M, SIB and displacement give, field by field, the operand
  that a call's bytes stand for; the arithmetic of fields is on numbers, since shifts and
  masks are division and remainder here.
- `GetsFurtherCorrect`: `TestSpec => GetsFurther`, an action property: each step raises
  `Work` lexicographically. The steps from table to table that take no byte are the hard
  ones: there it is the height of the node in the tree (`TablesReached`) that falls,
  because the tree has no cycle (`LowerNode`). Stated for the tables of `ZydisTable` alone the measure could be the
  number of the node; for every table it had to be the height.

Model-checked only:

- Liveness (`Termination`, `GenTermination`, `MainTermination`, `PrintReturns`): out of
  the prover's reach.

## What the checks found

Violations of what the sources say, each a run of its own:

- An unknown byte ends the token stream and the rest of the file is dropped in
  silence (`lexer_end`).
- The generator's buffer check does not cover what it writes (`codegen_buffer`).
- A seventh integer parameter is read from behind a table (`codegen_registers`).
- A procedure with a variable does not return to its caller (`codegen_stack`).

Visible in properties that hold:

- No program with a statement in a procedure at its top is compiled, test.sky included
  (`WrittenIffCompilable`, `CompleteWhenWritten`): every statement ends in an
  assertion, after `output.asm` was emptied.
- A procedure defined inside another is parsed, attached to it and dropped without a
  message, even one that could not be compiled (`WrittenIffCompilable`): codegen_nasm.cpp:333
  goes through the root's list and no deeper. `f :: { g :: { x : 1` is compiled, to an empty
  `f`.
- When nasm fails and an object of an earlier run is there, ld links it into a new
  executable and `main` returns as ever (`Custody`, `"stale"`).
- A missing `test.sky` replaces `output.asm` by a program without procedures
  (`WrittenIffCompilable`): `main` ignores what `ParseFile` returns.
- `DecodesIffExpressible` names what the encoder cannot encode: a base register
  other than RSP (asm_x86_64.h:135 writes the SIB byte for all, 59 for none other), a
  number from 0x80 up (passed by the check at 77, sign-extended by the processor),
  and any constant stored to memory (117: a register is stored, the offset is
  dropped and the constant lands in the displacement).
- `Contents` in `InputReader`: a stream's end yields one byte 0xFF that is not in it
  (ZydisInstructionDecoder.hpp:341 casts what `get` returns, and 352 sees the end only
  afterwards), and a first peek that fails reads an
  uninitialised byte.
- `setPosition` returns the opposite of what its comments say
  (ZydisInstructionDecoder.hpp:137 and 246 against 275 and 371), and `decodeInstruction`
  returns false on the last instruction while bytes of it are left (`RestIsShort`,
  596-598): a client that loops on it never sees a cut instruction.

Behaviour that no comment speaks against: an identifier resolves to the first
variable whose name begins it, and a type name to the first type it begins; a
stray `}` at the end of a file and a missing one are both accepted; statements of
the root block are parsed and never generated; an
initialiser without operand or a procedure without body dereferences null in the
parser, an unresolved type in the generator.

One thing the compiled library does against its header is modelled and has no property:
the prefix 0xF2 is recorded as REP, where the comments at ZydisTypes.hpp:69-71 keep it
apart as REPNE. The decoder's body is external here, so a run of its own would show no line of
this repository, and none of the properties depends on which of the two is recorded.

## Not modelled

- The formatter and the symbol resolver: text layout, bodies in zydis.o, no state
  beyond a buffer and a map nobody fills here.
- Of the decoder 16 and 32-bit modes, VEX, x87 and 3DNow!, and the opcode tables
  beyond `ZydisTable`: their contents are data in zydis.o, and the encoder reaches
  none of it.
- A `StreamInput` without a stream.
- The code under `#if 0`, `io.sky` (syntax the parser does not have), `tests/` (scratch).
- Values of literals (`atoi`, main.cpp:180), the one byte a literal's terminator lies
  beyond its array (main.cpp:169, undefined behaviour that depends on padding),
  logging but for the line above, and memory exhaustion outside `DynamicArray`.

## Plan

Done: lexer, parser, arrays, generator, driver and their composition, runtime,
encoder, input layer, decoder. Proved: every safety property that the runs check, for
every value of the constants: of the lexer and its refinement, of the parser, the arrays,
the generator, the whole compiler, the input layer, the decoder and the round trip
through encoder and decoder; and that the print routines print their argument and come back
with rax, rsi, rdx and rsp as they were (rdi, rcx and r11 are clobbered).

Left: liveness, which TLC checks; and the parts under "Not modelled".
