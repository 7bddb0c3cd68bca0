----------------------------- MODULE NasmUtils -----------------------------
(***************************************************************************)
(* The print routines every output file includes, NasmUtils.asm: one call  *)
(* of PrintInt64 on a machine of W-byte words (8 in the code) with memory  *)
(* by the byte.  An action is the code up to the next call, return or      *)
(* system call; return addresses lie on the stack beside the data.         *)
(***************************************************************************)
EXTENDS Integers, Sequences, SequencesExt

CONSTANTS
  W,           \* bytes in a word
  Arguments,   \* the numbers to print
  Garbage      \* what the other registers hold when PrintInt64 is called

ASSUME WordAssumption == W \in 2 .. 8

(* 256^i, and what a word can hold.                                        *)
Power[i \in 0 .. 8] == IF i = 0 THEN 1 ELSE 256 * Power[i - 1]
Words == 0 .. Power[W] - 1

ASSUME ValueAssumption == Arguments \cup Garbage \subseteq Words

VARIABLES
  machine,     \* registers and memory
  pc,          \* the block of code the processor is at
  out,         \* the bytes handed to the kernel, and whether it took them
  start        \* history: the machine PrintInt64 was entered with

asmvars == <<machine, pc, out, start>>

Blocks == <<"caller", "kernel", "PrintInt64", "bytes", "copy", "newline", "epilogue",
            "PrintByte", "low", "endByte", "PrintFourBits", "endFourBits", "Syswrite",
            "endSyswrite", "wild">>

At(block, k) == [block |-> block, k |-> k]
Code(block, k) == 16 * SelectInSeq(Blocks, LAMBDA b : b = block) + k
Target(word) ==
  IF word \div 16 \in DOMAIN Blocks THEN At(Blocks[word \div 16], word % 16) ELSE At("wild", 0)

StackTop     == 12 * W
EntryRsp     == StackTop - 2 * W      \* the return address, and the caller's frame above it
Byte(n, i)   == (n \div Power[i]) % 256
Unsigned(n)  == n % Power[W]
AtLeast(n, bound) == n >= bound /\ n < Power[W] \div 2     \* jge is signed

(***************************************************************************)
(* The stack.  What a block pushes is given as the bytes from the new rsp  *)
(* up, so the last word pushed comes first; what it pops is given as the   *)
(* bytes it skips and the registers it pops after them.                    *)
(***************************************************************************)
Bytes(word) == [i \in 1 .. W |-> Byte(word, i - 1)]

(* The word at an address, put together from its highest byte down.        *)
WordAt(m, address) ==
  LET word[i \in 0 .. W] ==
        IF i = 0 THEN 0 ELSE 256 * word[i - 1] + m.mem[address + W - i]
  IN  word[W]

Push(m, bytes) ==
  LET sp == m.rsp - Len(bytes)
  IN  [m EXCEPT !.rsp = sp,
                !.mem = [a \in DOMAIN @ |-> IF a \in sp .. m.rsp - 1
                                            THEN bytes[a - sp + 1] ELSE @[a]]]

Pop(m, skip, regs) ==
  [reg \in DOMAIN m |->
     LET i == SelectInSeq(regs, LAMBDA r : r = reg)
     IN  IF i > 0 THEN WordAt(m, m.rsp + skip + W * (i - 1))
         ELSE IF reg = "rsp" THEN m.rsp + skip + W * Len(regs)
         ELSE m[reg]]

Run(m, next) == machine' = m /\ pc' = next /\ UNCHANGED <<out, start>>

(* call: the return address, block return of copy k, is pushed last.        *)
Call(m, locals, block, return, k) ==
  Run(Push(m, Bytes(Code(return, k)) \o locals), At(block, 0))

Ret(m) == Run(Pop(m, W, << >>), Target(WordAt(m, m.rsp)))

(* write(1, buffer, count): the processor keeps the return address in rcx.     *)
SysWrite(m, buffer, count, return) ==
  Run([m EXCEPT !.rax = 1, !.rdi = 1, !.rsi = buffer, !.rdx = count, !.rcx = Code(return, 0)],
      At("kernel", 0))
-----------------------------------------------------------------------------
AsmInit ==
  /\ \E argument \in Arguments, rax, rsi, rdx \in Garbage :
       start = [rax |-> rax, rdi |-> argument, rsi |-> rsi, rdx |-> rdx, rcx |-> 0,
                rsp |-> EntryRsp,
                mem |-> [a \in 0 .. StackTop - 1 |->
                           IF a < EntryRsp \/ a >= EntryRsp + W THEN 204
                           ELSE Byte(Code("caller", 0), a - EntryRsp)]]
  /\ machine = start
  /\ pc = At("PrintInt64", 0)
  /\ out = << >>

(* The kernel writes all of the buffer, some of it, or fails; rax says     *)
(* which.  No routine looks.                                               *)
Kernel ==
  /\ pc.block = "kernel"
  /\ \E n \in -1 .. machine.rdx :
       /\ out' = out \o [i \in 1 .. machine.rdx |->
                           [byte |-> machine.mem[machine.rsi + i - 1], taken |-> i <= n]]
       /\ machine' = [machine EXCEPT !.rax = Unsigned(n)]
  /\ pc' = Target(machine.rcx)
  /\ UNCHANGED start

(***************************************************************************)
(* PrintInt64                                                              *)
(***************************************************************************)
PrintInt64 ==
  /\ pc.block = "PrintInt64"
  /\ LET pushed == Bytes(machine.rdi) \o Bytes(machine.rdx) \o Bytes(machine.rsi)
                     \o Bytes(machine.rax)
     IN  SysWrite(Push(machine, <<48, 120>> \o pushed), machine.rsp - Len(pushed) - 2, 2, "bytes")

(* The argument, pushed as rdi, is popped as rax.                          *)
PopArgument ==
  /\ pc.block = "bytes"
  /\ Run(Pop(machine, 2, <<"rax">>), At("copy", W - 1))

(* PrintByteAtOffset: a copy of the macro for every byte, the highest first. *)
PrintByteAtOffset ==
  /\ pc.block = "copy"
  /\ LET loaded == [machine EXCEPT !.rdi = Byte(machine.rax, pc.k)]
     IN  IF pc.k = 0 THEN Call(loaded, << >>, "PrintByte", "newline", 0)
         ELSE Call(loaded, << >>, "PrintByte", "copy", pc.k - 1)

PrintNewline ==
  /\ pc.block = "newline"
  /\ Call([machine EXCEPT !.rdi = machine.rsp - 1], <<10>>, "Syswrite", "epilogue", 0)

Saved64Swapped == <<"rsi", "rdx", "rax">>        \* mutant: two pops swapped
Saved64TooFew  == <<"rdx", "rsi">>               \* mutant: a pop forgotten
Saved64        == <<"rdx", "rsi", "rax">>

PrintInt64Returns ==
  /\ pc.block = "epilogue"
  /\ Ret(Pop(machine, 1, Saved64))

(***************************************************************************)
(* PrintByte, PrintFourBits, Syswrite                                      *)
(***************************************************************************)
PrintByte ==
  /\ pc.block = "PrintByte"
  /\ Call([machine EXCEPT !.rax = machine.rdi, !.rdi = @ \div 16], Bytes(machine.rax),
          "PrintFourBits", "low", 0)

PrintLowBits ==
  /\ pc.block = "low"
  /\ Call([machine EXCEPT !.rdi = machine.rax % 16], << >>, "PrintFourBits", "endByte", 0)

PrintByteReturns ==
  /\ pc.block = "endByte"
  /\ Ret(Pop(machine, 0, <<"rax">>))

HexDigit(n) == IF AtLeast(n, 10) THEN n + 65 - 10 ELSE n + 48

PrintFourBits ==
  /\ pc.block = "PrintFourBits"
  /\ LET pushed == Bytes(machine.rsi) \o Bytes(machine.rdx) \o Bytes(machine.rax)
         digit  == <<HexDigit(machine.rdi) % 256>>
     IN  SysWrite(Push(machine, digit \o pushed), machine.rsp - Len(pushed) - 1, 1, "endFourBits")

(* mutant: rax left as the system call set it *)
ResultInRax(m) == [Pop(m, 1, <<"rsi", "rdx", "rax">>) EXCEPT !.rax = m.rax]

FreeFourBits(m) == Pop(m, 1, <<"rsi", "rdx", "rax">>)

PrintFourBitsReturns ==
  /\ pc.block = "endFourBits"
  /\ Ret(FreeFourBits(machine))

Syswrite ==
  /\ pc.block = "Syswrite"
  /\ SysWrite(machine, machine.rdi, 1, "endSyswrite")

SyswriteReturns ==
  /\ pc.block = "endSyswrite"
  /\ Ret(machine)

AsmStep ==
  \/ Kernel \/ PrintInt64 \/ PopArgument \/ PrintByteAtOffset \/ PrintNewline
  \/ PrintInt64Returns \/ PrintByte \/ PrintLowBits \/ PrintByteReturns
  \/ PrintFourBits \/ PrintFourBitsReturns \/ Syswrite \/ SyswriteReturns

Returned == pc.block \in {"caller", "wild"} /\ UNCHANGED asmvars

(* The processor goes on, and the kernel returns from write.               *)
AsmSpec == AsmInit /\ [][AsmStep \/ Returned]_asmvars /\ WF_asmvars(AsmStep)
-----------------------------------------------------------------------------
(* What PrintInt64 is to print: 0x, all the digits of its argument, highest *)
(* first, and a newline.                                                   *)
HexPower[k \in 0 .. 16] == IF k = 0 THEN 1 ELSE 16 * HexPower[k - 1]
Nibble(k) == (start.rdi \div HexPower[k]) % 16
Expected ==
  <<48, 120>>
    \o [i \in 1 .. 2 * W |-> LET n == Nibble(2 * W - i) IN IF n < 10 THEN 48 + n ELSE 55 + n]
    \o <<10>>

(* The bytes handed to the kernel are the number's, in order and no other, *)
(* and all of them by the end, though every write leaves its result in the *)
(* register the number is kept in: a write that fails loses its own bytes. *)
Spells ==
  LET handed == [i \in DOMAIN out |-> out[i].byte]
  IN  /\ IsPrefix(handed, Expected)
      /\ pc.block = "caller" => handed = Expected

(* PrintInt64 returns to its caller, with the registers it pushed and the  *)
(* stack pointer as they were, and no byte of the caller's frame written   *)
(* meanwhile: the routines move rsp by one and two bytes between pushes.   *)
RestoresCaller ==
  /\ \A a \in EntryRsp .. StackTop - 1 : machine.mem[a] = start.mem[a]
  /\ pc.block # "wild"
  /\ pc.block = "caller" =>
       /\ machine.rsp = EntryRsp + W
       /\ \A reg \in {"rax", "rsi", "rdx"} : machine[reg] = start[reg]

(* A call of PrintInt64 ends, whatever write answers.                      *)
PrintReturns == <>(pc.block = "caller")
=============================================================================
