------------------------- MODULE InstructionDecoder -------------------------
(***************************************************************************)
(* The disassembler's InstructionDecoder in 64-bit mode and the client of  *)
(* TestCodegenX86_64.cpp, which decodes until decodeInstruction returns    *)
(* false.  A state is one call of decodeInstruction under way: collecting  *)
(* prefixes, walking the opcode tree, or decoding operands one by one.     *)
(* The header declares the class; its bodies are compiled into zydis.o.    *)
(***************************************************************************)
EXTENDS ZydisInput, OpcodeTable, FiniteSetsExt

(* The client's data source is a buffer (TestCodegenX86_64.cpp:39).        *)
ASSUME MemoryAssumption == \A source \in Sources : source.kind = "memory"

VARIABLES
  m_instructionPointer,
  phase,      \* where the call is, or "client" between two calls
  node,       \* the node of the opcode tree
  decoded     \* what the calls that returned true left in info

vars == <<input, info, m_instructionPointer, phase, node, decoded>>

Pair       == [input |-> input, info |-> info]
Becomes(s) == input' = s.input /\ info' = s.info

(* The bits lo, lo + 1, ... of a byte.                                     *)
Bits(byte, lo, count) == (byte \div 2 ^ lo) % 2 ^ count

(* A register of a file: the general registers of a size, XMM, RIP.        *)
Register(file, id) == [file |-> file, id |-> id]
NONE == Register("NONE", 0)

RegisterClass(class, size) ==
  CASE class = "XMM" -> "XMM" [] size = 8 -> "GP8" [] size = 16 -> "GP16"
    [] size = 32 -> "GP32"    [] size = 64 -> "GP64"

NoRex   == [w |-> 0, r |-> 0, x |-> 0, b |-> 0]
NoModrm == [mod |-> 0, reg |-> 0, rm |-> 0]

NewInfo(address) ==
  [flags |-> {"IF_DISASSEMBLER_MODE_64"}, data |-> << >>, opcode |-> << >>,
   mnemonic |-> "", rex |-> NoRex, eff_rexvex |-> NoRex, modrm |-> NoModrm,
   operand_mode |-> 0, address_mode |-> 0, operand |-> << >>,
   instrAddress |-> address, instrPointer |-> 0]

PrefixFlag(byte) ==
  CASE byte \in {38, 46, 54, 62, 100, 101} -> {"IF_PREFIX_SEGMENT"}
    [] byte = 102 -> {"IF_PREFIX_OPERAND_SIZE"}
    [] byte = 103 -> {"IF_PREFIX_ADDRESS_SIZE"}
    [] byte = 240 -> {"IF_PREFIX_LOCK"}
    [] byte \in {242, 243} -> {"IF_PREFIX_REP"}
    [] OTHER -> {}

Init ==
  /\ \E source \in Sources, garbage \in Uninitialized : input = Open(source, garbage)
  /\ info = NewInfo(0)
  /\ m_instructionPointer = 0
  /\ phase = "client" /\ node = 0 /\ decoded = << >>

(***************************************************************************)
(* The client calls decodeInstruction, which forgets all of info.          *)
(***************************************************************************)
Call ==
  /\ phase = "client"
  /\ info' = NewInfo(m_instructionPointer)
  /\ phase' = "prefixes"
  /\ UNCHANGED <<input, m_instructionPointer, node, decoded>>

(***************************************************************************)
(* decodePrefixes: one turn of its loop.  A peek that fails yields 0 and   *)
(* leaves the byte read last as the current one, which may be a REX prefix.*)
(***************************************************************************)
Peeked   == inputPeek(Pair)
PeekByte == IF Failed(Peeked) THEN 0 ELSE inputCurrent(Peeked)
IsRex    == PrefixFlag(PeekByte) = {} /\ inputCurrent(Peeked) \div 16 = 4

RepPrefixes == {"IF_PREFIX_REP", "IF_PREFIX_REPNE"}
WithPrefix(flags) ==
  (IF PrefixFlag(PeekByte) = {"IF_PREFIX_REP"} THEN flags \ RepPrefixes ELSE flags)
    \cup (IF IsRex THEN {"IF_PREFIX_REX"} ELSE PrefixFlag(PeekByte))

RexOf(byte) == [w |-> Bits(byte, 3, 1), r |-> Bits(byte, 2, 1),
                x |-> Bits(byte, 1, 1), b |-> Bits(byte, 0, 1)]

PeekPrefix(s) == inputPeek(s)    \* mutant: the prefix is not taken from the input
TakePrefix(s) == inputNext(s)

Prefix ==
  /\ phase = "prefixes"
  /\ IsRex \/ PrefixFlag(PeekByte) # {}
  /\ LET s == TakePrefix([Peeked EXCEPT
                  !.info.flags = WithPrefix(@),
                  !.info.rex = IF IsRex THEN RexOf(inputCurrent(Peeked)) ELSE @])
     IN  Becomes(s) /\ phase' = IF Failed(s) THEN "failed" ELSE phase
  /\ UNCHANGED <<m_instructionPointer, node, decoded>>

EndOfPrefixes ==
  /\ phase = "prefixes"
  /\ ~IsRex /\ PrefixFlag(PeekByte) = {}
  /\ Becomes(Peeked)
  /\ phase' = "opcode"
  /\ UNCHANGED <<m_instructionPointer, node, decoded>>

(***************************************************************************)
(* decodeOpcode: the first byte, then from node to node of the tree.       *)
(***************************************************************************)
TakeOpcode(s) == [s EXCEPT !.info.opcode = Append(@, inputCurrent(s))]

(* One opcode byte, which leads from a table to its child.                 *)
OpcodeByte(table) ==
  LET s == inputNext(Pair) IN
  IF Failed(s) THEN Becomes(s) /\ phase' = "failed" /\ UNCHANGED node
  ELSE /\ Becomes(TakeOpcode(s))
       /\ HasChild(table, inputCurrent(s))
       /\ node' = GetOpcodeTreeChild(table, inputCurrent(s))
       /\ phase' = "tree"

FirstOpcode ==
  /\ phase = "opcode"
  /\ OpcodeByte(GetOpcodeTreeRoot)
  /\ UNCHANGED <<m_instructionPointer, decoded>>

Table ==
  /\ phase = "tree" /\ IsNode(node, "TABLE")
  /\ OpcodeByte(node)
  /\ UNCHANGED <<m_instructionPointer, decoded>>

(* decodeModrm reads the byte once per instruction.                        *)
ParseModrm(byte) == [mod |-> Bits(byte, 6, 2), reg |-> Bits(byte, 3, 3), rm |-> Bits(byte, 0, 3)]

ModrmAgain(s) ==   \* mutant: the byte is read for every operand
  LET t == inputNext(s) IN
  IF Failed(t) THEN t
  ELSE [Raise(t, "IF_MODRM") EXCEPT !.info.modrm = ParseModrm(inputCurrent(t))]

decodeModrm(s) ==
  IF "IF_MODRM" \in s.info.flags THEN s
  ELSE LET t == inputNext(s) IN
       IF Failed(t) THEN t
       ELSE [Raise(t, "IF_MODRM") EXCEPT !.info.modrm = ParseModrm(inputCurrent(t))]

ModrmReg ==
  /\ phase = "tree" /\ IsNode(node, "MODRM_REG")
  /\ LET s == decodeModrm(Pair) IN
     /\ Becomes(s)
     /\ IF Failed(s) THEN phase' = "failed" /\ UNCHANGED node
        ELSE /\ HasChild(node, s.info.modrm.reg)
             /\ node' = GetOpcodeTreeChild(node, s.info.modrm.reg)
             /\ UNCHANGED phase
  /\ UNCHANGED <<m_instructionPointer, decoded>>

(* A mandatory prefix selects the instruction, and is no prefix of it then.*)
MandatoryIndex ==
  IF "IF_PREFIX_REP" \in info.flags THEN 1
  ELSE IF "IF_PREFIX_REPNE" \in info.flags THEN 2
  ELSE IF "IF_PREFIX_OPERAND_SIZE" \in info.flags THEN 3 ELSE 0

UsedPrefixes(index) ==
  CASE index = 0 -> {} [] index \in {1, 2} -> RepPrefixes
    [] index = 3 -> RepPrefixes \cup {"IF_PREFIX_OPERAND_SIZE"}

Mandatory ==
  /\ phase = "tree" /\ IsNode(node, "MANDATORY")
  /\ LET index == IF GetOpcodeTreeChild(node, MandatoryIndex) = 0 THEN 0 ELSE MandatoryIndex
     IN  /\ HasChild(node, MandatoryIndex) /\ HasChild(node, index)
         /\ node' = GetOpcodeTreeChild(node, index)
         /\ info' = [info EXCEPT !.flags = @ \ UsedPrefixes(index)]
  /\ UNCHANGED <<input, m_instructionPointer, phase, decoded>>

Mode ==
  /\ phase = "tree" /\ IsNode(node, "MODE")
  /\ HasChild(node, 1)
  /\ node' = GetOpcodeTreeChild(node, 1)
  /\ UNCHANGED <<input, info, m_instructionPointer, phase, decoded>>

(* calculateEffectiveRexVexValues and resolveOperandAndAddressMode.        *)
EffectiveRex(rex, flags) ==
  [w |-> IF "IDF_ACCEPTS_REXW" \in flags THEN rex.w ELSE 0,
   r |-> IF "IDF_ACCEPTS_REXR" \in flags THEN rex.r ELSE 0,
   x |-> IF "IDF_ACCEPTS_REXX" \in flags THEN rex.x ELSE 0,
   b |-> IF "IDF_ACCEPTS_REXB" \in flags THEN rex.b ELSE 0]

OperandMode(eff, prefixes, flags) ==
  IF eff.w = 1 THEN 64
  ELSE IF "IF_PREFIX_OPERAND_SIZE" \in prefixes THEN 16
  ELSE IF "IDF_DEFAULT_64" \in flags THEN 64 ELSE 32

Definition ==
  /\ phase = "tree" /\ IsNode(node, "INSTRUCTION_DEFINITION")
  /\ LET definition == GetInstructionDefinition(node)
         eff == EffectiveRex(info.rex, definition.flags)
     IN  IF GetOpcodeNodeValue(node) = 0
         THEN Becomes(Raise(Pair, "IF_ERROR_INVALID")) /\ phase' = "failed"
         ELSE IF "IDF_INVALID_64" \in definition.flags
         THEN Becomes(Raise(Pair, "IF_ERROR_INVALID_64")) /\ phase' = "failed"
         ELSE /\ info' = [info EXCEPT
                   !.mnemonic = definition.mnemonic,
                   !.eff_rexvex = eff,
                   !.operand_mode = OperandMode(eff, info.flags, definition.flags),
                   !.address_mode = IF "IF_PREFIX_ADDRESS_SIZE" \in info.flags THEN 32 ELSE 64]
              /\ phase' = "operands" /\ UNCHANGED input
  /\ UNCHANGED <<m_instructionPointer, node, decoded>>

(***************************************************************************)
(* decodeOperands: one operand.                                            *)
(***************************************************************************)
getEffectiveOperandSize(i, size) ==
  CASE size = "V" -> i.operand_mode
    [] size = "Z" -> IF i.operand_mode = 16 THEN 16 ELSE 32
    [] OTHER -> GetSimpleOperandSize[size]

OperandInfo(type, size, base, index, scale, offset, lval) ==
  [type |-> type, size |-> size, base |-> base, index |-> index,
   scale |-> scale, offset |-> offset, lval |-> lval]

WithOperand(s, operand) == [s EXCEPT !.info.operand = Append(@, operand)]

decodeRegisterOperand(s, class, id, size) ==
  WithOperand(s, OperandInfo("REGISTER", size, Register(RegisterClass(class, size), id), NONE, 0, 0, 0))

(* The last n bytes read, the lowest first, as a signed number.            *)
SignedLastBytes(data, n) ==
  LET byte(k) == data[Len(data) - n + k]
      from[k \in 1 .. n] ==
        IF k = n THEN byte(n) - (IF byte(n) >= 128 THEN 256 ELSE 0)
        ELSE 256 * from[k + 1] + byte(k)
  IN  from[1]

(* decodeImmediate and decodeDisplacement read a number of `size' bits; an *)
(* lvalue is kept the way a reader of it, the formatter, takes it: signed  *)
(* unless it is an immediate of type I.                                    *)
decodeNumber(s, size) == IF size = 0 THEN s ELSE inputNextBytes(s, size \div 8)
NumberOf(s, size)     == IF size = 0 THEN 0 ELSE SignedLastBytes(s.info.data, size \div 8)

decodeImmediate(s, type, size) ==
  LET t == decodeNumber(s, size) IN
  IF Failed(t) THEN t
  ELSE WithOperand(t, OperandInfo(type, size, NONE, NONE, 0, 0, NumberOf(t, size)))

(* An immediate of one byte that is not signed.                            *)
decodeUnsigned(s) ==
  LET t == inputNext(s) IN
  IF Failed(t) THEN t
  ELSE WithOperand(t, OperandInfo("IMMEDIATE", 8, NONE, NONE, 0, 0, inputCurrent(t)))

(* A memory operand at base + index * scale + displacement.                *)
MemoryOperand(s, size, base, index, scale, offset) ==
  LET t == decodeNumber(s, offset) IN
  IF Failed(t) THEN t
  ELSE WithOperand(t, OperandInfo("MEMORY", size, base, index, scale, offset, NumberOf(t, offset)))

AddressRegister(i, id) == Register(IF i.address_mode = 32 THEN "GP32" ELSE "GP64", id)

(* The bits of the displacement the addressing mode asks for.              *)
Displacement(mod, always) ==
  CASE mod = 0 /\ ~always -> 0 [] mod = 1 -> 8 [] OTHER -> 32

decodeSIB(s, size) ==
  LET t      == inputNext(s)
      i      == t.info
      sib    == inputCurrent(t)
      base   == Bits(sib, 0, 3) + 8 * i.eff_rexvex.b
      index  == Bits(sib, 3, 3) + 8 * i.eff_rexvex.x
      nobase == base = 5 \/ (base = 13 /\ i.address_mode = 64)
  IN  IF Failed(t) THEN t
      ELSE MemoryOperand(Raise(t, "IF_SIB"), size,
             IF nobase /\ i.modrm.mod = 0 THEN NONE ELSE AddressRegister(i, base),
             IF index = 4 THEN NONE ELSE AddressRegister(i, index),
             IF index = 4 \/ Bits(sib, 6, 2) = 0 THEN 0 ELSE 2 ^ Bits(sib, 6, 2),
             Displacement(i.modrm.mod, nobase))

decodeRegisterMemoryOperand(s, class, size) ==
  LET t == decodeModrm(s)
      i == t.info
      rm == i.modrm.rm + 8 * i.eff_rexvex.b
  IN  IF Failed(t) THEN t
      ELSE IF i.modrm.mod = 3 THEN decodeRegisterOperand(t, class, rm, size)
      ELSE IF i.modrm.rm = 4 THEN decodeSIB(t, size)
      ELSE IF i.modrm.mod = 0 /\ i.modrm.rm = 5 /\ i.address_mode = 64
      THEN MemoryOperand(Raise(t, "IF_RELATIVE"), size, Register("RIP", 0), NONE, 0, 32)
      ELSE IF i.modrm.mod = 0 /\ rm = 5
      THEN MemoryOperand(t, size, NONE, NONE, 0, 32)
      ELSE MemoryOperand(t, size, AddressRegister(i, rm), NONE, 0, Displacement(i.modrm.mod, FALSE))

RegisterOf == [G |-> "GENERAL_PURPOSE", V |-> "XMM"]

decodeOperand(s, type, definedSize) ==
  LET size == getEffectiveOperandSize(s.info, definedSize)
      t    == decodeModrm(s)
      reg  == t.info.modrm.reg + 8 * t.info.eff_rexvex.r
  IN  CASE type = "I"  -> decodeUnsigned(s)
        [] type = "sI" -> decodeImmediate(s, "IMMEDIATE", size)
        [] type = "J"  -> decodeImmediate(Raise(s, "IF_RELATIVE"), "REL_IMMEDIATE", size)
        [] type = "AL" -> decodeRegisterOperand(s, "GENERAL_PURPOSE", 0, size)
        [] type = "R0" -> decodeRegisterOperand(s, "GENERAL_PURPOSE", 8 * s.info.eff_rexvex.b, size)
        [] type = "E"  -> decodeRegisterMemoryOperand(s, "GENERAL_PURPOSE", size)
        [] type = "W"  -> decodeRegisterMemoryOperand(s, "XMM", size)
        [] OTHER       -> IF Failed(t) THEN t
                          ELSE decodeRegisterOperand(t, RegisterOf[type], reg, size)

OperandDefinitions == GetInstructionDefinition(node).operand

Operand ==
  /\ phase = "operands"
  /\ Len(info.operand) < Len(OperandDefinitions)
  /\ LET next == OperandDefinitions[Len(info.operand) + 1]
         s    == decodeOperand(Pair, next.type, next.size)
     IN  IF Failed(s) THEN Becomes(s) /\ phase' = "failed"
         ELSE Becomes(s) /\ UNCHANGED phase
  /\ UNCHANGED <<m_instructionPointer, node, decoded>>

(***************************************************************************)
(* decodeInstruction returns true: the instruction pointer moves behind.   *)
(***************************************************************************)
Succeed ==
  /\ phase = "operands"
  /\ Len(info.operand) = Len(OperandDefinitions)
  /\ m_instructionPointer' = m_instructionPointer + Len(info.data)
  /\ info' = [info EXCEPT !.instrPointer = m_instructionPointer']
  /\ decoded' = Append(decoded, info')
  /\ phase' = "client"
  /\ UNCHANGED <<input, node>>

(***************************************************************************)
(* The error path: of a broken instruction only its first byte is kept,    *)
(* the input goes back behind that byte, and the call returns false when   *)
(* the input ended, true for every other error.  The client stops at the   *)
(* first false.                                                            *)
(***************************************************************************)
SkipFromNext(in, length) == setPosition(in, getPosition(in) - length)   \* mutant: not behind it
Skip1(in, length) == setPosition(AfterGetPosition(in), getPosition(in) + 1 - length)

KeepAll(data) == info   \* mutant: info is not cleared
KeptInfo(data) ==
  [NewInfo(info.instrAddress) EXCEPT !.flags = @ \cup (info.flags \cap IF_ERROR_MASK),
                                     !.data = data]

AnyError   == TRUE   \* mutant: every error ends the client's loop
EndOfInput == "IF_ERROR_END_OF_INPUT" \in info.flags

Fail ==
  /\ phase = "failed"
  /\ m_instructionPointer' = m_instructionPointer + 1
  /\ input' = IF Len(info.data) = 1 THEN input ELSE Skip1(input, Len(info.data))
  /\ IF EndOfInput
     THEN /\ info' = KeptInfo(<< >>)
          /\ phase' = "stopped" /\ UNCHANGED decoded
     ELSE /\ info' = KeptInfo(<<Head(info.data)>>)
          /\ phase' = "client" /\ decoded' = Append(decoded, info')
  /\ UNCHANGED node

Next ==
  \/ Call \/ Prefix \/ EndOfPrefixes \/ FirstOpcode
  \/ Table \/ ModrmReg \/ Mandatory \/ Mode \/ Definition
  \/ Operand \/ Succeed \/ Fail

Spec == Init /\ [][Next]_vars
-----------------------------------------------------------------------------
AtClient == phase \in {"client", "stopped"}

(* The instructions tile the input: each begins where the one before it    *)
(* ended, at its own address, and holds the bytes of the input from there; *)
(* of a broken one there is one byte.  Between two calls the input stands  *)
(* at the instruction pointer, whatever was read and given back.           *)
InstructionsTile ==
  /\ \A k \in DOMAIN decoded :
       LET i == decoded[k] IN
       /\ i.instrAddress = IF k = 1 THEN 0
                           ELSE decoded[k - 1].instrAddress + Len(decoded[k - 1].data)
       /\ i.data = SubSeq(input.bytes, i.instrAddress + 1, i.instrAddress + Len(i.data))
       /\ Len(i.data) \in 1 .. MaximumLength
       /\ i.flags \cap IF_ERROR_MASK # {} => Len(i.data) = 1
  /\ AtClient => m_instructionPointer = input.position

(* An instruction that was decoded is as long as its parts: prefixes,      *)
(* opcode, ModR/M and SIB byte, and the numbers of its operands, none read *)
(* twice or left unread.                                                   *)
IsPrefixByte(byte) == PrefixFlag(byte) # {} \/ byte \div 16 = 4

PrefixCount(i) == CHOOSE n \in 0 .. Len(i.data) :
  /\ \A k \in 1 .. n : IsPrefixByte(i.data[k])
  /\ n < Len(i.data) => ~IsPrefixByte(i.data[n + 1])

NumberLength(operand) ==
  IF operand.type \in {"IMMEDIATE", "REL_IMMEDIATE"} THEN operand.size \div 8
  ELSE operand.offset \div 8

NumbersLength(operands) ==
  LET sum[k \in 0 .. Len(operands)] == IF k = 0 THEN 0 ELSE sum[k - 1] + NumberLength(operands[k])
  IN  sum[Len(operands)]

LengthIsParts ==
  \A k \in DOMAIN decoded :
    LET i == decoded[k]
    IN  i.flags \cap IF_ERROR_MASK = {} =>
          Len(i.data) = PrefixCount(i) + Len(i.opcode) + NumbersLength(i.operand)
                        + Cardinality(i.flags \cap {"IF_MODRM", "IF_SIB"})

(* When the client stops, what the input has left is one instruction cut   *)
(* short: fewer bytes than the longest instruction.                        *)
RestIsShort ==
  phase = "stopped" => Len(input.bytes) + 1 - m_instructionPointer < MaximumLength
=============================================================================
