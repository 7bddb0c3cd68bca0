----------------------------- MODULE X86Encoder -----------------------------
(***************************************************************************)
(* asm_x86_64.h: the procedures that write one instruction to a buffer.    *)
(* A call is a record of the procedure and its arguments; its encoding is  *)
(* the bytes the procedure writes, whose number it returns.  Registers are *)
(* their numbers, 0 to 15, and a failed assertion aborts the program.      *)
(***************************************************************************)
EXTENDS Integers, Sequences

RAX == 0   RCX == 1   RDX == 2   RBX == 3
RSP == 4   RBP == 5   RSI == 6   RDI == 7   R8 == 8
Registers == 0 .. 15

(* The bit fields keep the low bits of what they are given.                *)
encode_rex(is_64_bit, extend_sib_index, extend_modrm_reg, extend_modrm_rm) ==
  64 + 8 * (is_64_bit % 2) + 4 * (extend_sib_index % 2)
     + 2 * (extend_modrm_reg % 2) + (extend_modrm_rm % 2)
RegAndRmSwapped(mod, rm, reg)  ==   \* mutant: of two registers
  IF mod = 3 THEN 64 * mod + 8 * (rm % 8) + (reg % 8) ELSE 64 * mod + 8 * (reg % 8) + (rm % 8)
encode_modrm(mod, rm, reg)     == 64 * (mod % 4) + 8 * (reg % 8) + (rm % 8)
encode_sib(scale, index, base) == 64 * (scale % 4) + 8 * (index % 8) + (base % 8)
encode_disp8(value)            == value % 256

Rex64 == encode_rex(1, 0, 0, 0)

ModrmAsserted(rm, reg) == reg < R8 /\ rm < R8
Disp8Asserted(value)   == value <= 255

(* The calls: two registers, or a register, a base register and an offset, *)
(* or a register and a constant.                                           *)
RegReg(proc, dest, src) == [proc |-> proc, dest |-> dest, src |-> src, offset |-> 0, value |-> 0]
RegOffset(proc, dest, src, offset) ==
  [proc |-> proc, dest |-> dest, src |-> src, offset |-> offset, value |-> 0]
RegConst(proc, dest, offset, value) ==
  [proc |-> proc, dest |-> dest, src |-> 0, offset |-> offset, value |-> value]

Opcode(proc) ==
  CASE proc \in {"mov_reg_reg", "mov_regoffset_reg", "mov_regoffset_constant"} -> 137
    [] proc = "add_reg_reg" -> 1
    [] proc = "sub_reg_reg" -> 41
    [] proc = "sub_reg_const" -> 131
    [] proc = "OPERATION_ADD" -> 3
    [] proc = "OPERATION_SUB" -> 43
    [] proc \in {"OPERATION_MUL", "OPERATION_DIV"} -> 0

RegRegProcs    == {"mov_reg_reg", "add_reg_reg", "sub_reg_reg"}
RegOffsetProcs == {"OPERATION_ADD", "OPERATION_SUB"}
Operations     == RegOffsetProcs \cup {"OPERATION_MUL", "OPERATION_DIV"}
EncoderProcs   ==   \* those no assertion refuses whatever the arguments
  RegRegProcs \cup RegOffsetProcs
    \cup {"mov_regoffset_reg", "mov_regoffset_constant", "sub_reg_const"}

EncoderCalls ==
  [proc : EncoderProcs \cup Operations, dest : Registers, src : Registers,
   offset : Nat, value : Nat]

op_reg_reg(c) ==
  [bytes |-> <<Rex64, Opcode(c.proc), encode_modrm(3, c.dest, c.src)>>,
   asserted |-> ModrmAsserted(c.dest, c.src)]

mov_regoffset_reg(c) ==
  [bytes |-> <<Rex64, Opcode(c.proc), encode_modrm(1, c.dest, c.src),
               encode_sib(0, 4, 4), encode_disp8(c.offset)>>,
   asserted |-> ModrmAsserted(c.dest, c.src) /\ Disp8Asserted(c.offset)]

(* The constant is written where the displacement belongs.                 *)
mov_regoffset_constant(c) ==
  [bytes |-> <<Rex64, Opcode(c.proc), encode_modrm(1, c.dest, c.dest),
               encode_sib(0, 4, 4), encode_disp8(c.value)>>,
   asserted |-> ModrmAsserted(c.dest, c.dest) /\ Disp8Asserted(c.value)]

sub_reg_const(c) ==
  [bytes |-> <<Rex64, Opcode(c.proc), encode_modrm(3, c.dest, RBP), encode_disp8(c.value)>>,
   asserted |-> ModrmAsserted(c.dest, RBP) /\ Disp8Asserted(c.value)]

op_reg_regoffset(c) ==
  [bytes |-> <<Rex64, Opcode(c.proc), encode_modrm(1, c.src, c.dest),
               encode_sib(0, c.src, c.src), encode_disp8(c.offset)>>,
   asserted |-> c.proc \in RegOffsetProcs
                  /\ ModrmAsserted(c.src, c.dest) /\ Disp8Asserted(c.offset)]

Encode(c) ==
  CASE c.proc \in RegRegProcs -> op_reg_reg(c)
    [] c.proc = "mov_regoffset_reg" -> mov_regoffset_reg(c)
    [] c.proc = "mov_regoffset_constant" -> mov_regoffset_constant(c)
    [] c.proc = "sub_reg_const" -> sub_reg_const(c)
    [] c.proc \in Operations -> op_reg_regoffset(c)
=============================================================================
