---------------------------- MODULE TestCodegen ----------------------------
(***************************************************************************)
(* TestCodegenX86_64.cpp: instructions are encoded into a buffer, one call *)
(* behind the other at the offset the lengths returned so far add up to,   *)
(* and the buffer is given to the disassembler.  What the disassembler     *)
(* finds is what a processor would run.  Line 37 has the disassembler read *)
(* bytes of the test's own instead: a program without a call does that.    *)
(***************************************************************************)
EXTENDS InstructionDecoder, X86Encoder

CONSTANT Programs   \* the sequences of calls
ASSUME ProgramsAssumption == Programs \subseteq Seq(EncoderCalls)

(* What the opcode tables have to say of the encoder's opcodes: behind each *)
(* stands the mnemonic with these operands, for 0x83 chosen by the reg     *)
(* field, and a REX prefix counts.                                         *)
MnemonicOf(proc) ==
  CASE proc \in {"mov_reg_reg", "mov_regoffset_reg", "mov_regoffset_constant"} -> "mov"
    [] proc \in {"add_reg_reg", "OPERATION_ADD"} -> "add"
    [] proc \in {"sub_reg_reg", "sub_reg_const", "OPERATION_SUB"} -> "sub"

OperandsOf(proc) ==
  LET Of(type, size) == [type |-> type, size |-> size]
  IN  IF proc = "sub_reg_const" THEN <<Of("E", "V"), Of("sI", "B")>>
      ELSE IF proc \in RegOffsetProcs THEN <<Of("G", "V"), Of("E", "V")>>
      ELSE <<Of("E", "V"), Of("G", "V")>>

LeadsTo(child, proc) ==
  /\ IsNode(child, "INSTRUCTION_DEFINITION") /\ GetOpcodeNodeValue(child) # 0
  /\ GetInstructionDefinition(child) =
       [mnemonic |-> MnemonicOf(proc), operand |-> OperandsOf(proc),
        flags |-> {"IDF_ACCEPTS_REXB", "IDF_ACCEPTS_REXX", "IDF_ACCEPTS_REXR", "IDF_ACCEPTS_REXW"}]

EncoderRows ==
  \A proc \in EncoderProcs :
    LET child == GetOpcodeTreeChild(GetOpcodeTreeRoot, Opcode(proc)) IN
    /\ HasChild(GetOpcodeTreeRoot, Opcode(proc))
    /\ IF proc = "sub_reg_const"
       THEN /\ IsNode(child, "MODRM_REG") /\ HasChild(child, RBP)
            /\ LeadsTo(GetOpcodeTreeChild(child, RBP), proc)
       ELSE LeadsTo(child, proc)

ASSUME EncoderRowsAssumption == EncoderRows

VARIABLES
  program,   \* the calls of this run
  lengths,   \* what the calls made so far returned
  buffer     \* the first current_offset bytes of the buffer

testvars == <<vars, program, lengths, buffer>>

TestInit ==
  /\ program \in Programs
  /\ lengths = << >> /\ buffer = << >>
  /\ input = Open([kind |-> "memory", bytes |-> << >>], 0)
  /\ info = NewInfo(0)
  /\ m_instructionPointer = 0 /\ node = 0 /\ decoded = << >>
  /\ phase = "encoding"

Encoded == Encode(program[Len(lengths) + 1])

EncodeOne ==
  /\ phase = "encoding" /\ Len(lengths) < Len(program)
  /\ IF Encoded.asserted
     THEN /\ buffer' = buffer \o Encoded.bytes
          /\ lengths' = Append(lengths, Len(Encoded.bytes))
          /\ UNCHANGED phase
     ELSE phase' = "aborted" /\ UNCHANGED <<buffer, lengths>>
  /\ UNCHANGED <<input, info, m_instructionPointer, node, decoded, program>>

(* A MemoryInput over the buffer, or over bytes that were not encoded here, *)
(* becomes the decoder's data source.                                      *)
setDataSource ==
  /\ phase = "encoding" /\ Len(lengths) = Len(program)
  /\ \E garbage \in Uninitialized :
       \E source \in IF program = << >> THEN Sources
                     ELSE {[kind |-> "memory", bytes |-> buffer]} :
         input' = Open(source, garbage)
  /\ phase' = "client"
  /\ UNCHANGED <<info, m_instructionPointer, node, decoded, program, lengths, buffer>>

Decode == Next /\ UNCHANGED <<program, lengths, buffer>>

TestNext == EncodeOne \/ setDataSource \/ Decode

Ended == phase \in {"stopped", "aborted"} /\ UNCHANGED testvars

TestSpec == TestInit /\ [][TestNext \/ Ended]_testvars
-----------------------------------------------------------------------------
(* Every step gets further, by this measure: an instruction done, however  *)
(* it ended; then a later part of the current one; then a byte more taken, *)
(* an operand more decoded, a lower node of the tree reached.  The input   *)
(* bounds each, so no prefix, error or broken instruction holds the client.*)
Stages ==
  <<"encoding", "client", "prefixes", "opcode", "tree", "operands", "failed", "stopped", "aborted">>
Stage(name) == CHOOSE n \in DOMAIN Stages : Stages[n] = name
Work == <<m_instructionPointer, Stage(phase), Len(lengths) + Len(info.data), Len(info.operand),
          0 - Height(node)>>

LessWork(a, b) == \E i \in DOMAIN a : a[i] < b[i] /\ \A j \in 1 .. i - 1 : a[j] = b[j]

GetsFurther == [][LessWork(Work, Work')]_testvars

(* What a call asks for: the mnemonic and its two operands.                *)
Reg(id) == [type |-> "REGISTER", base |-> Register("GP64", id), index |-> NONE, lval |-> 0]
Mem(id, offset) == [type |-> "MEMORY", base |-> Register("GP64", id), index |-> NONE, lval |-> offset]
Imm(value) == [type |-> "IMMEDIATE", base |-> NONE, index |-> NONE, lval |-> value]

Asked(c) ==
  CASE c.proc = "mov_reg_reg" -> <<"mov", Reg(c.dest), Reg(c.src)>>
    [] c.proc = "add_reg_reg" -> <<"add", Reg(c.dest), Reg(c.src)>>
    [] c.proc = "sub_reg_reg" -> <<"sub", Reg(c.dest), Reg(c.src)>>
    [] c.proc = "mov_regoffset_reg" -> <<"mov", Mem(c.dest, c.offset), Reg(c.src)>>
    [] c.proc = "mov_regoffset_constant" -> <<"mov", Mem(c.dest, c.offset), Imm(c.value)>>
    [] c.proc = "sub_reg_const" -> <<"sub", Reg(c.dest), Imm(c.value)>>
    [] c.proc = "OPERATION_ADD" -> <<"add", Reg(c.dest), Mem(c.src, c.offset)>>
    [] c.proc = "OPERATION_SUB" -> <<"sub", Reg(c.dest), Mem(c.src, c.offset)>>

Seen(o) == [type |-> o.type, base |-> o.base, index |-> o.index, lval |-> o.lval]
Found(i) == <<i.mnemonic, Seen(i.operand[1]), Seen(i.operand[2])>>

(* What the procedures can encode: the base they write the SIB byte for,   *)
(* RSP, and numbers the processor does not take for negative ones; a       *)
(* constant never reaches memory.                                          *)
Expressible(c) ==
  CASE c.proc \in RegRegProcs -> TRUE
    [] c.proc = "mov_regoffset_reg" -> c.dest = RSP /\ c.offset < 128
    [] c.proc \in RegOffsetProcs -> c.src = RSP /\ c.offset < 128
    [] c.proc = "sub_reg_const" -> c.value < 128
    [] c.proc = "mov_regoffset_constant" -> FALSE

(* The k-th instruction is where the lengths returned put it, on 64-bit    *)
(* operands, and does what the k-th call asked for.                        *)
AsAsked(k) ==
  /\ decoded[k].flags \cap IF_ERROR_MASK = {}
  /\ decoded[k].operand_mode = 64
  /\ Len(decoded[k].data) = lengths[k]
  /\ Found(decoded[k]) = Asked(program[k])

(* A program whose assertions hold is read back call by call exactly when  *)
(* all its calls can be expressed: the lengths that asm_x86_64.h:26 says   *)
(* are returned are those of the instructions, registers and numbers are   *)
(* in their fields, and nothing else goes wrong, or right by chance.       *)
DecodesIffExpressible ==
  phase = "stopped" /\ program # << >> =>
    (\A k \in DOMAIN program : Expressible(program[k]))
      <=> (DOMAIN decoded = DOMAIN program /\ \A k \in DOMAIN decoded : AsAsked(k))
=============================================================================
