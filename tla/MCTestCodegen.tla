--------------------------- MODULE MCTestCodegen ---------------------------
(* Programs: one call with every register and with offsets and constants   *)
(* at the ends of their range, every pair of some calls, and the program   *)
(* of the test.  The offsets of calls that cannot be expressed are bytes   *)
(* the tables know as opcodes, for they are read as such.                  *)
EXTENDS TestCodegen, ZydisTable

CONSTANT MaxBytes

TestProgram == <<
  RegReg("mov_reg_reg", RAX, RDX),            RegReg("mov_reg_reg", RSI, RBP),
  RegOffset("mov_regoffset_reg", RSP, RDI, 8), RegConst("sub_reg_const", RSP, 0, 32),
  RegReg("mov_reg_reg", RDI, RSP),
  RegOffset("OPERATION_ADD", RAX, RSP, 16),   RegOffset("OPERATION_ADD", RAX, RSP, 32),
  RegOffset("OPERATION_ADD", RAX, RSP, 48),   RegOffset("OPERATION_SUB", RAX, RSP, 16),
  RegOffset("OPERATION_SUB", RAX, RSP, 32),   RegOffset("OPERATION_SUB", RAX, RSP, 48)>>

Offsets    == {0, 8, 127}
AsOpcode   == {88, 131, 195}
LowOther   == {RAX, RBX, RBP, RDI, R8}

Calls ==
  {RegReg(proc, dest, src) : proc \in RegRegProcs, dest \in Registers, src \in Registers}
  \cup {RegOffset("mov_regoffset_reg", RSP, src, offset) :
          src \in Registers, offset \in Offsets \cup AsOpcode}
  \cup {RegOffset("mov_regoffset_reg", dest, src, offset) :
          dest \in LowOther, src \in {RAX, RSP}, offset \in AsOpcode}
  \cup {RegOffset(proc, dest, RSP, offset) :
          proc \in RegOffsetProcs, dest \in Registers, offset \in Offsets \cup AsOpcode}
  \cup {RegOffset(proc, dest, src, offset) :
          proc \in RegOffsetProcs, dest \in {RDX, RSI}, src \in LowOther, offset \in AsOpcode}
  \cup {RegOffset(proc, RAX, RSP, 16) : proc \in Operations}
  \cup {RegConst("sub_reg_const", dest, 0, value) :
          dest \in Registers, value \in Offsets \cup {128, 255, 256}}
  \cup {RegConst("mov_regoffset_constant", dest, 8, value) :
          dest \in {RSP, RBX}, value \in AsOpcode}

Wrong == {RegOffset("mov_regoffset_reg", RSI, RAX, 88), RegConst("sub_reg_const", RSP, 0, 131),
          RegConst("mov_regoffset_constant", RSP, 8, 88)}
Pairable == {TestProgram[i] : i \in DOMAIN TestProgram} \cup Wrong

MCPrograms ==
  {<< >>, TestProgram} \cup {<<call>> : call \in Calls}
    \cup {<<first, second>> : first \in Pairable, second \in Pairable}

(* Sources: every input of at most MaxBytes bytes of an alphabet with each *)
(* kind of byte, and inputs with a run of prefixes longer than any         *)
(* instruction, a mandatory prefix, displacements, immediates and          *)
(* addressing modes.                                                       *)
Alphabet == {1, 6, 36, 68, 72, 102, 131, 195}
Memory(bytes) == [kind |-> "memory", bytes |-> bytes]
Times(n, byte) == [i \in 1 .. n |-> byte]

Runs == {
  Times(17, 72) \o <<1, 195>>,            Times(14, 102) \o <<1, 195, 195>>,
  Times(13, 102) \o <<1, 195, 195>>,      Times(15, 72)}

Addressing == {
  <<72, 1, 4, 37, 1, 2, 3, 4, 195>>,      <<1, 132, 36, 1, 2, 3, 244>>,
  <<72, 43, 133, 0, 0, 0, 128, 195>>,     <<3, 5, 4, 3, 2, 1, 195>>,
  <<67, 1, 68, 165, 128, 36>>,            <<103, 1, 68, 108, 128>>,
  <<232, 254, 255, 255, 255, 65, 88>>,    <<102, 88, 72, 232, 1, 0, 0, 0>>,
  <<242, 15, 88, 193, 15, 88, 8>>,        <<243, 102, 15, 88, 193, 195>>,
  <<102, 68, 15, 88, 72, 127, 15, 88>>,   <<102, 46, 240, 1, 216>>,
  <<65, 137, 69, 0, 65, 41, 4, 36>>,      <<1, 4, 101, 255, 255, 255, 127>>}

MCSources ==
  {Memory(bytes) : bytes \in BoundedSeq(Alphabet, MaxBytes) \cup Runs \cup Addressing}
=============================================================================
