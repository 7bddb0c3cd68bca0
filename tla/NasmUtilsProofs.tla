-------------------------- MODULE NasmUtilsProofs --------------------------
(***************************************************************************)
(* What is proved of the print routines for every width of a word: a call  *)
(* of PrintInt64 comes back to its caller, with what it was entered with,  *)
(* and what it has handed to the kernel is its argument in hexadecimal.    *)
(***************************************************************************)
EXTENDS NasmUtils, TLAPS, SequenceTheorems

(***************************************************************************)
(* Words and their bytes.                                                  *)
(***************************************************************************)
IsPower(p) == p = [i \in 0 .. 8 |-> IF i = 0 THEN 1 ELSE 256 * p[i - 1]]

LEMMA PowerIs ==
  /\ Power[0] = 1
  /\ \A i \in 1 .. 8 : Power[i] = 256 * Power[i - 1]
<1>. DEFINE p == [i \in 0 .. 8 |->
          CASE i = 0 -> 1 [] i = 1 -> 256 [] i = 2 -> 65536 [] i = 3 -> 16777216
            [] i = 4 -> 4294967296 [] i = 5 -> 1099511627776 [] i = 6 -> 281474976710656
            [] i = 7 -> 72057594037927936 [] i = 8 -> 18446744073709551616]
<1>1. \A i \in 0 .. 8 : p[i] = IF i = 0 THEN 1 ELSE 256 * p[i - 1]
  <2>1. /\ p[0] = 1 /\ p[1] = 256 /\ p[2] = 65536 /\ p[3] = 16777216
        /\ p[4] = 4294967296 /\ p[5] = 1099511627776 /\ p[6] = 281474976710656
        /\ p[7] = 72057594037927936 /\ p[8] = 18446744073709551616
    OBVIOUS
  <2>. HIDE DEF p
  <2>. QED
    BY <2>1
<1>2. p = [i \in 0 .. 8 |-> p[i]]
  OBVIOUS
<1>. HIDE DEF p
<1>3. IsPower(p)
  BY <1>1, <1>2 DEF IsPower
<1>4. Power = CHOOSE q : IsPower(q)
  BY Zenon DEF Power, IsPower
<1>5. IsPower(Power)
  BY <1>3, <1>4
<1>. QED
  BY <1>5 DEF IsPower

LEMMA PowerPositive == \A i \in 0 .. 8 : Power[i] \in Nat \ {0}
<1>. DEFINE P(i) == Power[i] \in Nat \ {0}
<1>1. P(0)
  BY PowerIs
<1>2. \A i \in 1 .. 8 : P(i - 1) => P(i)
  BY PowerIs
<1>3. P(1) /\ P(2) /\ P(3) /\ P(4)
  BY <1>1, <1>2
<1>4. P(5) /\ P(6) /\ P(7) /\ P(8)
  BY <1>2, <1>3
<1>. QED
  BY <1>1, <1>3, <1>4

LEMMA WordSize == Power[W] \in Nat /\ Power[W] >= 256
<1>1. W \in 2 .. 8 /\ W - 1 \in 0 .. 8 /\ W \in 1 .. 8
  BY WordAssumption
<1>. QED
  BY <1>1, PowerIs, PowerPositive

(* Shifting further, by a digit or a byte, divides once more.              *)
DividesAgain(n, p, c) == n \div (c * p) = (n \div p) \div c

LEMMA DivideAgain ==
  ASSUME NEW n \in Nat, NEW p \in Nat \ {0}, NEW c \in {16, 256}
  PROVE  DividesAgain(n, p, c)
<1>. DEFINE q == n \div p
            r == n % p
            s == q \div c
            t == q % c
<1>1. q \in Nat /\ r \in Nat /\ r < p /\ n = p * q + r
  OBVIOUS
<1>2. s \in Nat /\ t \in Nat /\ t <= c - 1 /\ q = c * s + t
  BY <1>1
<1>. HIDE DEF q, r, s, t
<1>3. p * q = p * (c * s) + p * t
  BY <1>1, <1>2
<1>4. n = (c * p) * s + (p * t + r)
  BY <1>1, <1>2, <1>3
<1>5. p * t + r \in Nat /\ p * t + r < c * p
  <2>1. p * t <= p * (c - 1)
    BY <1>2
  <2>. QED
    BY <1>1, <1>2, <2>1
<1>6. n \div (c * p) = s
  <2>. DEFINE d == c * p
              u == p * t + r
  <2>1. d \in Nat \ {0} /\ u \in Nat /\ u < d /\ n = d * s + u
    BY <1>4, <1>5
  <2>. HIDE DEF d, u
  <2>2. n \div d = s
    BY <1>2, <2>1
  <2>. QED
    BY <2>2 DEF d
<1>. QED
  BY <1>6 DEF q, s, DividesAgain

IsWord(m, address, f) ==
  f = [i \in 0 .. W |-> IF i = 0 THEN 0 ELSE 256 * f[i - 1] + m.mem[address + W - i]]

LEMMA WordAtIs ==
  ASSUME NEW m, NEW address, \E f : IsWord(m, address, f)
  PROVE  \E f : IsWord(m, address, f) /\ WordAt(m, address) = f[W]
<1>. DEFINE f == CHOOSE f : IsWord(m, address, f)
<1>1. IsWord(m, address, f)
  OBVIOUS
<1>2. WordAt(m, address) = f[W]
  BY Zenon DEF WordAt, IsWord
<1>. HIDE DEF f
<1>. QED
  BY <1>1, <1>2

(* The bytes of a word are in memory from an address up; then they are     *)
(* read as that word.                                                      *)
Stored(m, address, word) == \A i \in 0 .. W - 1 : m.mem[address + i] = Byte(word, i)

LEMMA StoredIsRead ==
  ASSUME NEW m, NEW address \in Int, NEW word \in Words, Stored(m, address, word)
  PROVE  WordAt(m, address) = word
<1>. DEFINE top(i) == word \div Power[W - i]
<1>1. W \in 2 .. 8
  BY WordAssumption
<1>2. word \in Nat /\ word < Power[W] /\ \A i \in 0 .. W : Power[W - i] \in Nat \ {0}
  BY <1>1, PowerPositive DEF Words
<1>3. top(0) = 0 /\ top(W) = word
  BY <1>1, <1>2, PowerIs
<1>4. \A i \in 0 .. W : top(i) \in Nat
  BY <1>2
<1>5. ASSUME NEW i \in 1 .. W
      PROVE  top(i) = 256 * top(i - 1) + m.mem[address + W - i]
  <2>1. W - i \in 0 .. 7 /\ W - (i - 1) \in 1 .. 8 /\ (W - (i - 1)) - 1 = W - i
    BY <1>1
  <2>2. Power[W - (i - 1)] = 256 * Power[W - i]
    BY <2>1, PowerIs
  <2>3. Power[W - i] \in Nat \ {0}
    BY <2>1, PowerPositive
  <2>4. top(i - 1) = top(i) \div 256
    <3>1. DividesAgain(word, Power[W - i], 256)
      BY <1>2, <2>3, DivideAgain
    <3>. QED
      BY <1>2, <2>2, <3>1 DEF DividesAgain
  <2>5. W - i \in 0 .. W - 1 /\ address + W - i = address + (W - i)
    BY <1>1
  <2>6. m.mem[address + W - i] = Byte(word, W - i)
    BY <2>5 DEF Stored
  <2>7. Byte(word, W - i) = top(i) % 256
    BY DEF Byte
  <2>8. top(i) \in Nat
    BY <1>4
  <2>. HIDE DEF top
  <2>. QED
    BY <2>4, <2>6, <2>7, <2>8
<1>. DEFINE g == [i \in 0 .. W |-> top(i)]
<1>6. IsWord(m, address, g)
  <2>1. \A i \in 0 .. W : i # 0 => i \in 1 .. W /\ i - 1 \in 0 .. W
    BY <1>1
  <2>2. 0 \in 0 .. W
    BY <1>1
  <2>. HIDE DEF top
  <2>3. \A i \in 0 .. W : top(i) = IF i = 0 THEN 0 ELSE 256 * g[i - 1] + m.mem[address + W - i]
    BY <1>3, <1>5, <2>1
  <2>4. g = [i \in 0 .. W |-> IF i = 0 THEN 0 ELSE 256 * g[i - 1] + m.mem[address + W - i]]
    BY <2>3
  <2>. HIDE DEF g
  <2>. QED
    BY <2>4 DEF IsWord
<1>. HIDE DEF g
<1>7. PICK f : IsWord(m, address, f) /\ WordAt(m, address) = f[W]
  BY <1>6, WordAtIs
<1>. DEFINE P(i) == i <= W => f[i] = top(i)
<1>8. P(0)
  BY <1>1, <1>3, <1>7 DEF IsWord
<1>9. ASSUME NEW i \in 1 .. 8, P(i - 1) PROVE P(i)
  <2>1. SUFFICES ASSUME i <= W PROVE f[i] = top(i)
    OBVIOUS
  <2>2. i \in 1 .. W /\ i \in 0 .. W /\ i # 0 /\ i - 1 <= W
    BY <1>1, <2>1
  <2>3. f[i] = 256 * f[i - 1] + m.mem[address + W - i]
    BY <1>7, <2>2 DEF IsWord
  <2>4. f[i - 1] = top(i - 1)
    BY <1>9, <2>2
  <2>5. top(i) = 256 * top(i - 1) + m.mem[address + W - i]
    BY <1>5, <2>2
  <2>. HIDE DEF top
  <2>. QED
    BY <2>3, <2>4, <2>5
<1>. HIDE DEF P
<1>10. P(1) /\ P(2) /\ P(3) /\ P(4)
  <2>1. P(1)
    BY <1>8, <1>9
  <2>2. P(2)
    BY <1>9, <2>1
  <2>3. P(3)
    BY <1>9, <2>2
  <2>. QED
    BY <1>9, <2>1, <2>2, <2>3
<1>11. P(5) /\ P(6) /\ P(7) /\ P(8)
  <2>1. P(5)
    BY <1>9, <1>10
  <2>2. P(6)
    BY <1>9, <2>1
  <2>3. P(7)
    BY <1>9, <2>2
  <2>. QED
    BY <1>9, <2>1, <2>2, <2>3
<1>12. P(W)
  BY <1>1, <1>10, <1>11
<1>13. f[W] = top(W)
  BY <1>1, <1>12 DEF P
<1>. QED
  BY <1>3, <1>7, <1>13
-----------------------------------------------------------------------------
(***************************************************************************)
(* Return addresses.                                                       *)
(***************************************************************************)
LEMMA IndexIs ==
  ASSUME NEW q, NEW n \in Nat, Len(q) = n, NEW k \in 1 .. n,
         \A i \in 1 .. k - 1 : q[i] # q[k]
  PROVE  SelectInSeq(q, LAMBDA b : b = q[k]) = k
<1>. DEFINE S == {i \in 1 .. Len(q) : q[i] = q[k]}
<1>1. k \in S /\ \A i \in S : k <= i
  OBVIOUS
<1>2. \A i \in S : i \in Int
  OBVIOUS
<1>3. SelectInSeq(q, LAMBDA b : b = q[k]) = Min(S)
  BY <1>1 DEF SelectInSeq
<1>. HIDE DEF S
<1>4. \A x \in S : (\A y \in S : x <= y) => x = k
  BY <1>1, <1>2
<1>5. Min(S) = k
  BY <1>1, <1>4 DEF Min
<1>. QED
  BY <1>3, <1>5

ReturnPoints == {"bytes", "copy", "newline", "epilogue", "low", "endByte", "endFourBits",
                 "endSyswrite", "caller"}

LEMMA CodeIs ==
  ASSUME NEW block \in ReturnPoints, NEW k \in 0 .. 7
  PROVE  Code(block, k) \in Words /\ Target(Code(block, k)) = At(block, k)
<1>. DEFINE n == SelectInSeq(Blocks, LAMBDA b : b = block)
<1>1. n \in 1 .. 15 /\ Blocks[n] = block
  <2>1. ASSUME NEW j \in 1 .. 15, Blocks[j] = block, \A i \in 1 .. j - 1 : Blocks[i] # Blocks[j]
        PROVE  n = j
    <3>1. Len(Blocks) = 15
      BY DEF Blocks
    <3>2. SelectInSeq(Blocks, LAMBDA b : b = Blocks[j]) = j
      BY <2>1, <3>1, IndexIs
    <3>. QED
      BY <2>1, <3>2
  <2>. HIDE DEF n
  <2>2. \A i, j \in 1 .. 15 : i # j => Blocks[i] # Blocks[j]
    BY DEF Blocks
  <2>3. \E j \in 1 .. 15 : Blocks[j] = block
    <3>1. /\ Blocks[1] = "caller" /\ Blocks[4] = "bytes" /\ Blocks[5] = "copy"
          /\ Blocks[6] = "newline" /\ Blocks[7] = "epilogue" /\ Blocks[9] = "low"
          /\ Blocks[10] = "endByte" /\ Blocks[12] = "endFourBits" /\ Blocks[14] = "endSyswrite"
      BY DEF Blocks
    <3>. QED
      BY <3>1 DEF ReturnPoints
  <2>. QED
    BY <2>1, <2>2, <2>3
<1>2. Code(block, k) = 16 * n + k
  BY DEF Code
<1>. HIDE DEF n
<1>3. (16 * n + k) \div 16 = n /\ (16 * n + k) % 16 = k
  BY <1>1
<1>4. n \in DOMAIN Blocks
  BY <1>1 DEF Blocks
<1>5. Power[W] \in Nat /\ Power[W] >= 256
  BY WordSize
<1>. QED
  BY <1>1, <1>2, <1>3, <1>4, <1>5 DEF Target, Words
-----------------------------------------------------------------------------
(***************************************************************************)
(* The stack.                                                              *)
(***************************************************************************)
IsSequence(q) == \E S : q \in Seq(S)
Names         == {"rax", "rdi", "rsi", "rdx", "rcx", "rsp", "mem"}

IsMachine(m) ==
  /\ DOMAIN m = Names
  /\ m.rsp \in Int
  /\ DOMAIN m.mem = 0 .. StackTop - 1

(* A later machine has the same bytes from the stack pointer up.           *)
Keeps(m, t) == \A a \in 0 .. StackTop - 1 : a >= m.rsp => t.mem[a] = m.mem[a]

LEMMA Joined ==
  ASSUME NEW p, NEW q, IsSequence(p), IsSequence(q)
  PROVE  /\ IsSequence(p \o q) /\ Len(p) \in Nat /\ Len(q) \in Nat
         /\ Len(p \o q) = Len(p) + Len(q)
         /\ \A i \in 1 .. Len(p) : (p \o q)[i] = p[i]
         /\ \A i \in 1 .. Len(q) : (p \o q)[Len(p) + i] = q[i]
<1>1. PICK S, T : p \in Seq(S) /\ q \in Seq(T)
  BY DEF IsSequence
<1>. DEFINE U == S \cup T
<1>2. p \in Seq(U) /\ q \in Seq(U)
  BY <1>1
<1>. HIDE DEF U
<1>3. p \o q \in Seq(U)
  BY <1>2
<1>. QED
  BY <1>2, <1>3 DEF IsSequence

LEMMA BytesAre ==
  ASSUME NEW word
  PROVE  /\ IsSequence(Bytes(word)) /\ Len(Bytes(word)) = W
         /\ \A i \in 1 .. W : Bytes(word)[i] = Byte(word, i - 1)
<1>1. W \in Nat
  BY WordAssumption
<1>. DEFINE S == {Byte(word, i - 1) : i \in 1 .. W}
            f == Bytes(word)
<1>2. f \in [1 .. W -> S] /\ \A i \in 1 .. W : f[i] = Byte(word, i - 1)
  BY DEF Bytes
<1>. HIDE DEF S, f
<1>3. f \in Seq(S) /\ Len(f) = W
  BY <1>1, <1>2
<1>. QED
  BY <1>2, <1>3 DEF IsSequence, f

LEMMA Pushed ==
  ASSUME NEW m, IsMachine(m), NEW q, NEW n \in Nat, Len(q) = n
  PROVE  LET t == Push(m, q)
         IN  /\ IsMachine(t) /\ t.rsp = m.rsp - n /\ Keeps(m, t)
             /\ t.rax = m.rax /\ t.rdi = m.rdi
             /\ \A a \in 0 .. StackTop - 1 :
                  a \in m.rsp - n .. m.rsp - 1 => t.mem[a] = q[a - (m.rsp - n) + 1]
<1>. DEFINE sp == m.rsp - n
            mem == [a \in DOMAIN m.mem |-> IF a \in sp .. m.rsp - 1
                                           THEN q[a - sp + 1] ELSE m.mem[a]]
            t == Push(m, q)
<1>1. t = [m EXCEPT !.rsp = sp, !.mem = mem]
  BY DEF Push
<1>2. DOMAIN mem = 0 .. StackTop - 1
  BY DEF IsMachine
<1>3. /\ \A a \in 0 .. StackTop - 1 : a >= m.rsp => mem[a] = m.mem[a]
      /\ \A a \in 0 .. StackTop - 1 : a \in sp .. m.rsp - 1 => mem[a] = q[a - sp + 1]
  BY DEF IsMachine
<1>. HIDE DEF mem, t
<1>4. /\ DOMAIN t = Names /\ t.rsp = sp /\ t.mem = mem
      /\ t.rax = m.rax /\ t.rdi = m.rdi
  BY <1>1 DEF IsMachine, Names
<1>5. sp \in Int
  BY DEF IsMachine
<1>. QED
  BY <1>2, <1>3, <1>4, <1>5 DEF IsMachine, Keeps, t

LEMMA StoredOn ==
  ASSUME NEW m, NEW t, Keeps(m, t), NEW address \in Nat, address >= m.rsp,
         address + W <= StackTop, m.rsp \in Int, NEW word, Stored(m, address, word)
  PROVE  Stored(t, address, word)
<1>1. W \in Nat /\ StackTop \in Int
  BY WordAssumption DEF StackTop
<1>2. \A i \in 0 .. W - 1 : address + i \in 0 .. StackTop - 1 /\ address + i >= m.rsp
  BY <1>1
<1>. QED
  BY <1>2 DEF Stored, Keeps

(* A call leaves the return address at the stack pointer.                  *)
LEMMA Called ==
  ASSUME NEW m, IsMachine(m), NEW locals, IsSequence(locals), NEW n, Len(locals) = n,
         NEW word, m.rsp - W - n >= 0, m.rsp <= StackTop
  PROVE  LET t == Push(m, Bytes(word) \o locals)
         IN  /\ IsMachine(t) /\ Keeps(m, t)
             /\ t.rsp = m.rsp - W - n /\ Stored(t, t.rsp, word)
             /\ t.rax = m.rax /\ t.rdi = m.rdi
             /\ \A i \in 1 .. n : t.mem[t.rsp + W + i - 1] = locals[i]
<1>. DEFINE q == Bytes(word) \o locals
            t == Push(m, q)
<1>1. W \in Nat /\ StackTop \in Int /\ m.rsp \in Int
  BY WordAssumption DEF StackTop, IsMachine
<1>2. /\ n \in Nat /\ Len(q) = W + n
      /\ \A i \in 1 .. W : q[i] = Byte(word, i - 1)
      /\ \A i \in 1 .. n : q[W + i] = locals[i]
  <2>. DEFINE b == Bytes(word)
  <2>1. IsSequence(b) /\ Len(b) = W /\ \A i \in 1 .. W : b[i] = Byte(word, i - 1)
    BY BytesAre
  <2>2. q = b \o locals
    OBVIOUS
  <2>. HIDE DEF b, q
  <2>3. IsSequence(b) /\ IsSequence(locals)
    BY <2>1
  <2>4. /\ Len(locals) \in Nat /\ Len(b \o locals) = Len(b) + Len(locals)
        /\ \A i \in 1 .. Len(b) : (b \o locals)[i] = b[i]
        /\ \A i \in 1 .. Len(locals) : (b \o locals)[Len(b) + i] = locals[i]
    BY <2>3, Joined, SMTT(60)
  <2>. QED
    BY <2>1, <2>2, <2>4
<1>. HIDE DEF q
<1>3. /\ IsMachine(t) /\ t.rsp = m.rsp - (W + n) /\ Keeps(m, t)
      /\ t.rax = m.rax /\ t.rdi = m.rdi
      /\ \A a \in 0 .. StackTop - 1 :
           a \in m.rsp - (W + n) .. m.rsp - 1 => t.mem[a] = q[a - (m.rsp - (W + n)) + 1]
  <2>. DEFINE k == W + n
  <2>1. k \in Nat /\ Len(q) = k
    BY <1>1, <1>2
  <2>. HIDE DEF k
  <2>2. /\ IsMachine(t) /\ t.rsp = m.rsp - k /\ Keeps(m, t)
        /\ t.rax = m.rax /\ t.rdi = m.rdi
        /\ \A a \in 0 .. StackTop - 1 :
             a \in m.rsp - k .. m.rsp - 1 => t.mem[a] = q[a - (m.rsp - k) + 1]
    BY <2>1, Pushed, Zenon
  <2>. QED
    BY <2>2 DEF k
<1>. HIDE DEF t
<1>4. ASSUME NEW i \in 0 .. W - 1 PROVE t.mem[t.rsp + i] = Byte(word, i)
  <2>. DEFINE a == t.rsp + i
  <2>1. /\ a \in 0 .. StackTop - 1 /\ a \in m.rsp - (W + n) .. m.rsp - 1
        /\ a - (m.rsp - (W + n)) + 1 = i + 1
    BY <1>1, <1>2, <1>3
  <2>2. t.mem[a] = q[i + 1]
    BY <1>3, <2>1
  <2>. QED
    BY <1>1, <1>2, <2>2
<1>5. ASSUME NEW i \in 1 .. n PROVE t.mem[t.rsp + W + i - 1] = locals[i]
  <2>. DEFINE a == t.rsp + W + i - 1
  <2>1. /\ a \in 0 .. StackTop - 1 /\ a \in m.rsp - (W + n) .. m.rsp - 1
        /\ a - (m.rsp - (W + n)) + 1 = W + i
    <3>1. n \in Nat /\ t.rsp = m.rsp - (W + n)
      BY <1>2, <1>3
    <3>. QED
      BY <1>1, <3>1
  <2>. HIDE DEF a
  <2>2. t.mem[a] = q[W + i]
    BY <1>3, <2>1
  <2>. QED
    BY <1>2, <2>2 DEF a
<1>. QED
  BY <1>1, <1>2, <1>3, <1>4, <1>5 DEF Stored, t, q

(* A pop moves the stack pointer and takes registers off the stack.        *)
LEMMA Popped ==
  ASSUME NEW m, IsMachine(m), NEW skip \in Int, NEW regs, Len(regs) \in Nat,
         \A i \in 1 .. Len(regs) : regs[i] \in {"rax", "rsi", "rdx"}
  PROVE  LET t == Pop(m, skip, regs)
         IN  /\ DOMAIN t = Names /\ t.mem = m.mem /\ t.rsp = m.rsp + skip + W * Len(regs)
             /\ \A k \in 1 .. Len(regs) : (\A i \in 1 .. k - 1 : regs[i] # regs[k]) =>
                  t[regs[k]] = WordAt(m, m.rsp + skip + W * (k - 1))
             /\ \A reg \in {"rax", "rsi", "rdx"} :
                  (\A i \in 1 .. Len(regs) : regs[i] # reg) => t[reg] = m[reg]
<1>. DEFINE t == Pop(m, skip, regs)
            index(reg) == SelectInSeq(regs, LAMBDA r : r = reg)
<1>1. /\ DOMAIN t = Names
      /\ \A reg \in Names :
           t[reg] = IF index(reg) > 0 THEN WordAt(m, m.rsp + skip + W * (index(reg) - 1))
                    ELSE IF reg = "rsp" THEN m.rsp + skip + W * Len(regs)
                    ELSE m[reg]
  BY Zenon DEF Pop, IsMachine
<1>2. ASSUME NEW reg, \A i \in 1 .. Len(regs) : regs[i] # reg PROVE index(reg) = 0
  <2>1. \A i \in 1 .. Len(regs) : regs[i] # reg
    BY <1>2
  <2>. QED
    BY <2>1 DEF SelectInSeq
<1>3. \A k \in 1 .. Len(regs) : (\A i \in 1 .. k - 1 : regs[i] # regs[k]) => index(regs[k]) = k
  BY IndexIs
<1>. HIDE DEF t, index
<1>4. t.rsp = m.rsp + skip + W * Len(regs)
  <2>1. index("rsp") = 0
    BY <1>2
  <2>. QED
    BY <1>1, <2>1 DEF Names
<1>5. t.mem = m.mem
  <2>1. index("mem") = 0
    BY <1>2
  <2>. QED
    BY <1>1, <2>1 DEF Names
<1>6. ASSUME NEW reg \in {"rax", "rsi", "rdx"}, \A i \in 1 .. Len(regs) : regs[i] # reg
      PROVE  t[reg] = m[reg]
  <2>1. index(reg) = 0 /\ reg \in Names /\ reg # "rsp"
    BY <1>2, <1>6 DEF Names
  <2>. QED
    BY <1>1, <2>1
<1>7. ASSUME NEW k \in 1 .. Len(regs), \A i \in 1 .. k - 1 : regs[i] # regs[k]
      PROVE  t[regs[k]] = WordAt(m, m.rsp + skip + W * (k - 1))
  <2>1. index(regs[k]) = k /\ regs[k] \in Names /\ k > 0
    BY <1>3, <1>7 DEF Names
  <2>. QED
    BY <1>1, <2>1
<1>. QED
  BY <1>1, <1>4, <1>5, <1>6, <1>7 DEF t
-----------------------------------------------------------------------------
(***************************************************************************)
(* The inductive invariant: how far below its entry the stack pointer is   *)
(* at each block, and what lies on the stack from there up.  What          *)
(* PrintInt64 saved is in the first three words, and every return address  *)
(* is where the ret behind it will look.                                   *)
(***************************************************************************)
Depth ==
  [bytes |-> 4 * W + 2, copy |-> 3 * W, newline |-> 3 * W, epilogue |-> 3 * W + 1,
   PrintByte |-> 4 * W, low |-> 5 * W, endByte |-> 5 * W,
   PrintFourBits |-> 6 * W, endFourBits |-> 9 * W + 1,
   Syswrite |-> 4 * W + 1, endSyswrite |-> 4 * W + 1]

InPrintByte     == {"PrintByte", "low", "endByte", "PrintFourBits", "endFourBits"}
InPrintFourBits == {"PrintFourBits", "endFourBits"}
InSyswrite      == {"Syswrite", "endSyswrite"}

(* Where PrintInt64 goes on after byte k.                                  *)
After(k) == IF k = 0 THEN At("newline", 0) ELSE At("copy", k - 1)

BehindPrintByte     == {After(k) : k \in 0 .. W - 1}
BehindPrintFourBits == {At("low", 0), At("endByte", 0)}
BehindSyswrite      == {At("epilogue", 0)}

(* The word at an address is the address of one of these points.           *)
ReturnsTo(m, address, points) ==
  \E p \in points : Stored(m, address, Code(p.block, p.k))

Saved(m) ==
  /\ Stored(m, EntryRsp - W, start.rax)
  /\ Stored(m, EntryRsp - 2 * W, start.rsi)
  /\ Stored(m, EntryRsp - 3 * W, start.rdx)

Layout(m, block) ==
  /\ block \in DOMAIN Depth
  /\ m.rsp = EntryRsp - Depth[block]
  /\ Saved(m)
  /\ block \in InPrintByte => ReturnsTo(m, EntryRsp - 4 * W, BehindPrintByte)
  /\ block \in InPrintFourBits => ReturnsTo(m, EntryRsp - 6 * W, BehindPrintFourBits)
  /\ block \in InSyswrite => ReturnsTo(m, EntryRsp - 4 * W - 1, BehindSyswrite)

BehindKernel == {"bytes", "endFourBits", "endSyswrite"}

CallerKept(m) ==
  /\ Stored(start, EntryRsp, Code("caller", 0))
  /\ \A a \in EntryRsp .. StackTop - 1 : m.mem[a] = start.mem[a]

Restored(m) ==
  /\ m.rsp = EntryRsp + W
  /\ \A reg \in {"rax", "rsi", "rdx"} : m[reg] = start[reg]

StackInv ==
  /\ IsMachine(machine) /\ CallerKept(machine)
  /\ start.rax \in Words /\ start.rsi \in Words /\ start.rdx \in Words
  /\ \/ pc = At("PrintInt64", 0) /\ machine = start /\ machine.rsp = EntryRsp
     \/ /\ pc.block = "kernel"
        /\ \E block \in BehindKernel : machine.rcx = Code(block, 0) /\ Layout(machine, block)
     \/ /\ Layout(machine, pc.block)
        /\ (pc = At("copy", pc.k) /\ pc.k \in 0 .. W - 1) \/ pc = At(pc.block, 0)
     \/ pc = At("caller", 0) /\ Restored(machine)

LEMMA Sizes ==
  /\ W \in 2 .. 8 /\ EntryRsp = 10 * W /\ StackTop = 12 * W
BY WordAssumption DEF EntryRsp, StackTop

LEMMA Depths ==
  /\ DOMAIN Depth = {"bytes", "copy", "newline", "epilogue", "PrintByte", "low", "endByte",
                     "PrintFourBits", "endFourBits", "Syswrite", "endSyswrite"}
  /\ Depth["bytes"] = 4 * W + 2 /\ Depth["copy"] = 3 * W /\ Depth["newline"] = 3 * W
  /\ Depth["epilogue"] = 3 * W + 1 /\ Depth["PrintByte"] = 4 * W /\ Depth["low"] = 5 * W
  /\ Depth["endByte"] = 5 * W /\ Depth["PrintFourBits"] = 6 * W
  /\ Depth["endFourBits"] = 9 * W + 1 /\ Depth["Syswrite"] = 4 * W + 1
  /\ Depth["endSyswrite"] = 4 * W + 1
BY DEF Depth

LEMMA AfterIs ==
  ASSUME NEW k \in 0 .. W - 1
  PROVE  /\ After(k) \in BehindPrintByte
         /\ After(k).block \in ReturnPoints /\ After(k).k \in 0 .. 7
         /\ After(k) = At(After(k).block, After(k).k)
         /\ \/ k = 0 /\ After(k).block = "newline" /\ After(k) = At("newline", 0)
            \/ /\ k # 0 /\ After(k).block = "copy" /\ After(k).k = k - 1
               /\ k - 1 \in 0 .. W - 1
<1>1. After(k) \in BehindPrintByte
  BY DEF BehindPrintByte
<1>2. CASE k = 0
  BY <1>1, <1>2 DEF After, At, ReturnPoints
<1>3. CASE k # 0
  <2>1. k - 1 \in 0 .. W - 1 /\ k - 1 \in 0 .. 7
    BY <1>3, Sizes
  <2>2. At("copy", k - 1).block = "copy" /\ At("copy", k - 1).k = k - 1
    BY DEF At
  <2>3. After(k) = At("copy", k - 1)
    BY <1>3 DEF After
  <2>. QED
    BY <1>1, <1>3, <2>1, <2>2, <2>3 DEF ReturnPoints
<1>. QED
  BY <1>2, <1>3

(* Blocks, and where each may be.                                          *)
LEMMA Places ==
  ASSUME StackInv
  PROVE  /\ pc.block = "PrintInt64" => machine = start /\ machine.rsp = EntryRsp
         /\ pc.block = "kernel" =>
              \E block \in BehindKernel : machine.rcx = Code(block, 0) /\ Layout(machine, block)
         /\ pc.block \in DOMAIN Depth => Layout(machine, pc.block)
         /\ pc.block = "copy" => pc.k \in 0 .. W - 1
         /\ pc.block = "caller" => Restored(machine)
         /\ pc.block # "wild"
         /\ pc.block \in DOMAIN Depth \cup {"PrintInt64", "kernel", "caller"}
<1>. USE Depths DEF At
<1>1. CASE pc = At("PrintInt64", 0) /\ machine = start /\ machine.rsp = EntryRsp
  BY <1>1
<1>2. CASE /\ pc.block = "kernel"
           /\ \E block \in BehindKernel : machine.rcx = Code(block, 0) /\ Layout(machine, block)
  BY <1>2
<1>3. CASE /\ Layout(machine, pc.block)
           /\ (pc = At("copy", pc.k) /\ pc.k \in 0 .. W - 1) \/ pc = At(pc.block, 0)
  <2>1. pc.block \in DOMAIN Depth
    BY <1>3 DEF Layout
  <2>2. pc.block = "copy" => pc.k \in 0 .. W - 1
    BY <1>3, Sizes
  <2>. QED
    BY <1>3, <2>1, <2>2
<1>4. CASE pc = At("caller", 0) /\ Restored(machine)
  BY <1>4
<1>. QED
  BY <1>1, <1>2, <1>3, <1>4 DEF StackInv

LEMMA SavedOn ==
  ASSUME NEW m, NEW t, Keeps(m, t), m.rsp \in Int, m.rsp <= EntryRsp - 3 * W, Saved(m)
  PROVE  Saved(t)
<1>1. /\ EntryRsp - W \in Nat /\ EntryRsp - 2 * W \in Nat /\ EntryRsp - 3 * W \in Nat
      /\ EntryRsp - W >= m.rsp /\ EntryRsp - 2 * W >= m.rsp /\ EntryRsp - 3 * W >= m.rsp
      /\ EntryRsp - W + W <= StackTop /\ EntryRsp - 2 * W + W <= StackTop
      /\ EntryRsp - 3 * W + W <= StackTop
  BY Sizes
<1>. QED
  BY <1>1, StoredOn DEF Saved

LEMMA ReturnsOn ==
  ASSUME NEW m, NEW t, Keeps(m, t), m.rsp \in Int, NEW address \in Nat, address >= m.rsp,
         address <= EntryRsp, NEW points, ReturnsTo(m, address, points)
  PROVE  ReturnsTo(t, address, points)
<1>1. address + W <= StackTop
  BY Sizes
<1>. QED
  BY <1>1, StoredOn DEF ReturnsTo

LEMMA CallerOn ==
  ASSUME NEW m, NEW t, Keeps(m, t), m.rsp \in Int, m.rsp <= EntryRsp, CallerKept(m)
  PROVE  CallerKept(t)
<1>1. \A a \in EntryRsp .. StackTop - 1 : a \in 0 .. StackTop - 1 /\ a >= m.rsp
  BY Sizes
<1>. QED
  BY <1>1 DEF CallerKept, Keeps

(* A word that is the address of one of some points is read as one.        *)
LEMMA Return ==
  ASSUME NEW m, NEW address \in Int, NEW points, ReturnsTo(m, address, points),
         \A p \in points : p.block \in ReturnPoints /\ p.k \in 0 .. 7 /\ p = At(p.block, p.k)
  PROVE  Target(WordAt(m, address)) \in points
<1>1. PICK p \in points : Stored(m, address, Code(p.block, p.k))
  BY DEF ReturnsTo
<1>2. Code(p.block, p.k) \in Words /\ Target(Code(p.block, p.k)) = p
  BY CodeIs
<1>3. WordAt(m, address) = Code(p.block, p.k)
  BY <1>1, <1>2, StoredIsRead
<1>. QED
  BY <1>2, <1>3

LEMMA SameStack ==
  ASSUME NEW m, NEW t, IsMachine(m), DOMAIN t = Names, t.rsp \in Int, t.mem = m.mem
  PROVE  /\ IsMachine(t) /\ (Saved(m) => Saved(t)) /\ (CallerKept(m) => CallerKept(t))
         /\ \A address, points : ReturnsTo(m, address, points) => ReturnsTo(t, address, points)
BY DEF IsMachine, Saved, CallerKept, ReturnsTo, Stored

(* A register that is loaded leaves the stack alone.                       *)
LEMMA Loaded ==
  ASSUME NEW m, IsMachine(m), NEW value
  PROVE  LET t == [m EXCEPT !.rdi = value]
         IN  /\ DOMAIN t = Names /\ t.rsp = m.rsp /\ t.mem = m.mem
             /\ t.rax = m.rax /\ t.rdi = value
BY DEF IsMachine, Names

LEMMA Arrived ==
  ASSUME StackInv, UNCHANGED start, IsMachine(machine'), CallerKept(machine'),
         \/ /\ pc'.block = "kernel"
            /\ \E block \in BehindKernel :
                 machine'.rcx = Code(block, 0) /\ Layout(machine', block)
         \/ /\ Layout(machine', pc'.block)
            /\ (pc' = At("copy", pc'.k) /\ pc'.k \in 0 .. W - 1) \/ pc' = At(pc'.block, 0)
         \/ pc' = At("caller", 0) /\ Restored(machine')
  PROVE  StackInv'
BY DEF StackInv, IsMachine, CallerKept, Layout, Saved, ReturnsTo, Restored, Depth

LEMMA KernelStack == StackInv /\ Kernel => StackInv'
<1>. SUFFICES ASSUME StackInv, Kernel PROVE StackInv'
  OBVIOUS
<1>1. PICK block \in BehindKernel : machine.rcx = Code(block, 0) /\ Layout(machine, block)
  BY Places DEF Kernel
<1>2. PICK n : machine' = [machine EXCEPT !.rax = Unsigned(n)]
  BY DEF Kernel
<1>3. IsMachine(machine) /\ CallerKept(machine) /\ UNCHANGED start
  BY DEF StackInv, Kernel
<1>4. /\ DOMAIN machine' = Names /\ machine'.rsp = machine.rsp /\ machine'.mem = machine.mem
  BY <1>2, <1>3 DEF IsMachine, Names
<1>5. IsMachine(machine') /\ CallerKept(machine') /\ Layout(machine', block)
  BY <1>1, <1>3, <1>4, SameStack DEF Layout, IsMachine
<1>6. pc' = At(block, 0)
  <2>1. block \in ReturnPoints
    BY DEF BehindKernel, ReturnPoints
  <2>. QED
    BY <1>1, <2>1, CodeIs DEF Kernel
<1>7. pc'.block = block
  BY <1>6 DEF At
<1>. QED
  BY <1>3, <1>5, <1>6, <1>7, Arrived

LEMMA PopArgumentStack ==
  StackInv /\ PopArgument =>
    /\ StackInv'
    /\ machine'.rax = WordAt(machine, EntryRsp - 4 * W)
<1>. SUFFICES ASSUME StackInv, PopArgument
     PROVE  /\ StackInv'
            /\ machine'.rax = WordAt(machine, EntryRsp - 4 * W)
  OBVIOUS
<1>1. Layout(machine, "bytes") /\ IsMachine(machine) /\ CallerKept(machine)
  BY Places, Depths DEF PopArgument, StackInv
<1>2. /\ machine' = Pop(machine, 2, <<"rax">>) /\ pc' = At("copy", W - 1) /\ UNCHANGED start
  BY DEF PopArgument, Run
<1>3. /\ DOMAIN machine' = Names /\ machine'.mem = machine.mem
      /\ machine'.rsp = machine.rsp + 2 + W * 1
      /\ machine'.rax = WordAt(machine, machine.rsp + 2 + W * (1 - 1))
  <2>. DEFINE regs == <<"rax">>
  <2>1. Len(regs) = 1 /\ Len(regs) \in Nat
        /\ \A i \in 1 .. Len(regs) : regs[i] \in {"rax", "rsi", "rdx"}
    OBVIOUS
  <2>. HIDE DEF regs
  <2>2. /\ DOMAIN Pop(machine, 2, regs) = Names /\ Pop(machine, 2, regs).mem = machine.mem
        /\ Pop(machine, 2, regs).rsp = machine.rsp + 2 + W * 1
    <3>1. /\ DOMAIN Pop(machine, 2, regs) = Names /\ Pop(machine, 2, regs).mem = machine.mem
          /\ Pop(machine, 2, regs).rsp = machine.rsp + 2 + W * Len(regs)
      BY <1>1, <2>1, Popped
    <3>. QED
      BY <2>1, <3>1
  <2>3. Pop(machine, 2, regs).rax = WordAt(machine, machine.rsp + 2 + W * (1 - 1))
    <3>1. regs[1] = "rax" /\ 1 \in 1 .. Len(regs) /\ \A i \in 1 .. 1 - 1 : regs[i] # regs[1]
      BY <2>1 DEF regs
    <3>2. Pop(machine, 2, regs)[regs[1]] = WordAt(machine, machine.rsp + 2 + W * (1 - 1))
      BY <1>1, <2>1, <3>1, Popped
    <3>. QED
      BY <3>1, <3>2
  <2>. QED
    BY <1>2, <2>2, <2>3 DEF regs
<1>4. machine'.rsp = EntryRsp - Depth["copy"] /\ machine'.rsp \in Int
  BY <1>1, <1>3, Depths, Sizes DEF Layout
<1>5. IsMachine(machine') /\ CallerKept(machine') /\ Saved(machine')
  BY <1>1, <1>3, <1>4, SameStack DEF Layout
<1>6. Layout(machine', "copy")
  BY <1>4, <1>5, Depths DEF Layout, InPrintByte, InPrintFourBits, InSyswrite
<1>7. pc'.block = "copy" /\ pc'.k = W - 1 /\ W - 1 \in 0 .. W - 1
  BY <1>2, Sizes DEF At
<1>8. StackInv'
  BY <1>2, <1>5, <1>6, <1>7, Arrived
<1>9. machine.rsp + 2 + W * (1 - 1) = EntryRsp - 4 * W
  BY <1>1, Depths, Sizes DEF Layout
<1>. QED
  BY <1>3, <1>8, <1>9

LEMMA PoppedNone ==
  ASSUME NEW m, IsMachine(m), NEW skip \in Int
  PROVE  LET t == Pop(m, skip, << >>)
         IN  /\ DOMAIN t = Names /\ t.mem = m.mem /\ t.rsp = m.rsp + skip
             /\ \A reg \in {"rax", "rsi", "rdx"} : t[reg] = m[reg]
<1>. DEFINE regs == << >>
<1>1. Len(regs) = 0 /\ Len(regs) \in Nat
      /\ \A i \in 1 .. Len(regs) : regs[i] \in {"rax", "rsi", "rdx"}
  OBVIOUS
<1>2. \A reg : \A i \in 1 .. Len(regs) : regs[i] # reg
  BY <1>1
<1>. HIDE DEF regs
<1>3. LET t == Pop(m, skip, regs)
      IN  /\ DOMAIN t = Names /\ t.mem = m.mem /\ t.rsp = m.rsp + skip + W * Len(regs)
          /\ \A reg \in {"rax", "rsi", "rdx"} : t[reg] = m[reg]
  BY <1>1, <1>2, Popped
<1>4. m.rsp + skip + W * Len(regs) = m.rsp + skip
  BY <1>1, WordAssumption DEF IsMachine
<1>. QED
  BY <1>3, <1>4 DEF regs

LEMMA PoppedThree ==
  ASSUME NEW m, IsMachine(m), NEW skip \in Int,
         NEW a \in {"rax", "rsi", "rdx"}, NEW b \in {"rax", "rsi", "rdx"} \ {a},
         NEW c \in {"rax", "rsi", "rdx"} \ {a, b}
  PROVE  LET t == Pop(m, skip, <<a, b, c>>)
         IN  /\ DOMAIN t = Names /\ t.mem = m.mem /\ t.rsp = m.rsp + skip + 3 * W
             /\ t[a] = WordAt(m, m.rsp + skip)
             /\ t[b] = WordAt(m, m.rsp + skip + W)
             /\ t[c] = WordAt(m, m.rsp + skip + 2 * W)
<1>. DEFINE regs == <<a, b, c>>
<1>1. Len(regs) = 3 /\ regs[1] = a /\ regs[2] = b /\ regs[3] = c
  OBVIOUS
<1>. HIDE DEF regs
<1>2. Len(regs) \in Nat /\ \A i \in 1 .. Len(regs) : regs[i] \in {"rax", "rsi", "rdx"}
  BY <1>1
<1>3. LET t == Pop(m, skip, regs)
      IN  /\ DOMAIN t = Names /\ t.mem = m.mem /\ t.rsp = m.rsp + skip + W * Len(regs)
          /\ \A k \in 1 .. Len(regs) : (\A i \in 1 .. k - 1 : regs[i] # regs[k]) =>
               t[regs[k]] = WordAt(m, m.rsp + skip + W * (k - 1))
  BY <1>2, Popped, SMTT(60)
<1>4. \A k \in 1 .. 3 : \A i \in 1 .. k - 1 : regs[i] # regs[k]
  BY <1>1
<1>5. /\ W * Len(regs) = 3 * W
      /\ m.rsp + skip + W * (1 - 1) = m.rsp + skip
      /\ m.rsp + skip + W * (2 - 1) = m.rsp + skip + W
      /\ m.rsp + skip + W * (3 - 1) = m.rsp + skip + 2 * W
  BY <1>1, WordAssumption DEF IsMachine
<1>6. \A k \in 1 .. 3 :
        Pop(m, skip, regs)[regs[k]] = WordAt(m, m.rsp + skip + W * (k - 1))
  BY <1>1, <1>3, <1>4
<1>7. /\ Pop(m, skip, regs)[a] = WordAt(m, m.rsp + skip + W * (1 - 1))
      /\ Pop(m, skip, regs)[b] = WordAt(m, m.rsp + skip + W * (2 - 1))
      /\ Pop(m, skip, regs)[c] = WordAt(m, m.rsp + skip + W * (3 - 1))
  BY <1>1, <1>6
<1>. QED
  BY <1>3, <1>5, <1>7 DEF regs

(* From one layout to the next, deeper one.                                *)
LEMMA Deeper ==
  ASSUME NEW m, NEW t, NEW block, Layout(m, block), CallerKept(m), IsMachine(m),
         IsMachine(t), Keeps(m, t)
  PROVE  /\ CallerKept(t) /\ Saved(t)
         /\ block \in InPrintByte => ReturnsTo(t, EntryRsp - 4 * W, BehindPrintByte)
         /\ block \in InPrintFourBits => ReturnsTo(t, EntryRsp - 6 * W, BehindPrintFourBits)
<1>1. m.rsp = EntryRsp - Depth[block] /\ block \in DOMAIN Depth
  BY DEF Layout
<1>2. /\ m.rsp \in Int /\ m.rsp <= EntryRsp - 3 * W
      /\ block \in InPrintByte => m.rsp <= EntryRsp - 4 * W
      /\ block \in InPrintFourBits => m.rsp <= EntryRsp - 6 * W
      /\ EntryRsp - 4 * W \in Nat /\ EntryRsp - 6 * W \in Nat
      /\ m.rsp <= EntryRsp /\ EntryRsp - 4 * W <= EntryRsp /\ EntryRsp - 6 * W <= EntryRsp
  BY <1>1, Sizes, Depths DEF InPrintByte, InPrintFourBits
<1>. QED
  BY <1>2, SavedOn, CallerOn, ReturnsOn DEF Layout

(* A call from a block, after registers were loaded: point p is where it   *)
(* returns to.                                                             *)
LEMMA CallDeeper ==
  ASSUME NEW m, NEW block, Layout(m, block), CallerKept(m), IsMachine(m),
         block \in {"copy", "newline", "PrintByte", "low"},
         NEW loaded, DOMAIN loaded = Names, loaded.rsp = m.rsp, loaded.mem = m.mem,
         NEW locals, IsSequence(locals), Len(locals) \in 0 .. W, NEW p,
         NEW t, t = Push(loaded, Bytes(Code(p.block, p.k)) \o locals)
  PROVE  /\ IsMachine(t) /\ CallerKept(t) /\ Saved(t)
         /\ t.rsp = EntryRsp - Depth[block] - W - Len(locals)
         /\ Stored(t, t.rsp, Code(p.block, p.k))
         /\ Keeps(m, t) /\ t.rax = loaded.rax /\ t.rdi = loaded.rdi
         /\ \A i \in 1 .. Len(locals) : t.mem[t.rsp + W + i - 1] = locals[i]
         /\ block \in InPrintByte => ReturnsTo(t, EntryRsp - 4 * W, BehindPrintByte)
<1>. DEFINE word == Code(p.block, p.k)
<1>1. m.rsp = EntryRsp - Depth[block]
  BY DEF Layout
<1>2. m.rsp \in Int /\ m.rsp - W - Len(locals) >= 0 /\ m.rsp <= StackTop
  <2>1. Depth[block] \in 3 * W .. 5 * W
    <3>1. 3 * W \in 3 * W .. 5 * W /\ 4 * W \in 3 * W .. 5 * W /\ 5 * W \in 3 * W .. 5 * W
      BY Sizes
    <3>. QED
      BY <3>1, Depths, Zenon
  <2>2. Len(locals) \in Int /\ Len(locals) <= W
    BY Sizes
  <2>. HIDE DEF word
  <2>. QED
    BY <1>1, <2>1, <2>2, Sizes
<1>3. IsMachine(loaded)
  BY <1>2 DEF IsMachine
<1>. HIDE DEF word
<1>4. IsMachine(t) /\ Keeps(loaded, t) /\ t.rsp = m.rsp - W - Len(locals) /\ Stored(t, t.rsp, word)
      /\ t.rax = loaded.rax /\ t.rdi = loaded.rdi
      /\ \A i \in 1 .. Len(locals) : t.mem[t.rsp + W + i - 1] = locals[i]
  BY <1>2, <1>3, Called DEF word
<1>5. Keeps(m, t)
  BY <1>4 DEF Keeps
<1>6. block \notin InPrintFourBits
  BY DEF InPrintFourBits
<1>7. CallerKept(t) /\ Saved(t)
      /\ (block \in InPrintByte => ReturnsTo(t, EntryRsp - 4 * W, BehindPrintByte))
  BY <1>4, <1>5, Deeper
<1>. QED
  BY <1>1, <1>4, <1>5, <1>7 DEF word

LEMMA NoLocals == IsSequence(<< >>) /\ Len(<< >>) = 0 /\ Len(<< >>) \in 0 .. W
<1>1. << >> \in Seq({})
  OBVIOUS
<1>. QED
  BY <1>1, Sizes DEF IsSequence

LEMMA PrintByteAtOffsetStack ==
  StackInv /\ PrintByteAtOffset =>
    /\ StackInv'
    /\ Stored(machine', EntryRsp - 4 * W, Code(After(pc.k).block, After(pc.k).k))
    /\ machine'.rax = machine.rax /\ machine'.rdi = Byte(machine.rax, pc.k)
<1>. SUFFICES ASSUME StackInv, PrintByteAtOffset
     PROVE  /\ StackInv'
            /\ Stored(machine', EntryRsp - 4 * W, Code(After(pc.k).block, After(pc.k).k))
            /\ machine'.rax = machine.rax /\ machine'.rdi = Byte(machine.rax, pc.k)
  OBVIOUS
<1>. DEFINE loaded == [machine EXCEPT !.rdi = Byte(machine.rax, pc.k)]
            locals == << >>
            p == After(pc.k)
<1>1. /\ Layout(machine, "copy") /\ IsMachine(machine) /\ CallerKept(machine)
      /\ pc.block = "copy" /\ pc.k \in 0 .. W - 1
  BY Places, Depths DEF PrintByteAtOffset, StackInv
<1>2. /\ DOMAIN loaded = Names /\ loaded.rsp = machine.rsp /\ loaded.mem = machine.mem
      /\ loaded.rax = machine.rax /\ loaded.rdi = Byte(machine.rax, pc.k)
  BY <1>1, Loaded
<1>3. /\ machine' = Push(loaded, Bytes(Code(p.block, p.k)) \o locals)
      /\ pc' = At("PrintByte", 0) /\ UNCHANGED start
  BY DEF PrintByteAtOffset, Call, Run, At, After
<1>4. IsSequence(locals) /\ Len(locals) = 0 /\ Len(locals) \in 0 .. W
  BY NoLocals
<1>. HIDE DEF loaded, locals, p
<1>5. /\ IsMachine(machine') /\ CallerKept(machine') /\ Saved(machine')
      /\ machine'.rsp = EntryRsp - Depth["copy"] - W - Len(locals)
      /\ Stored(machine', machine'.rsp, Code(p.block, p.k))
      /\ machine'.rax = loaded.rax /\ machine'.rdi = loaded.rdi
  <2>1. IsSequence(locals) /\ Len(locals) \in 0 .. W
    BY <1>4
  <2>. QED
    BY <1>1, <1>2, <1>3, <2>1, CallDeeper
<1>6. machine'.rsp = EntryRsp - Depth["PrintByte"] /\ machine'.rsp = EntryRsp - 4 * W
  <2>1. machine'.rsp = EntryRsp - Depth["copy"] - W - 0
    BY <1>4, <1>5
  <2>. QED
    BY <2>1, Sizes, Depths
<1>7. ReturnsTo(machine', EntryRsp - 4 * W, BehindPrintByte)
  <2>1. p \in BehindPrintByte
    BY <1>1, AfterIs DEF p
  <2>. QED
    BY <1>5, <1>6, <2>1 DEF ReturnsTo
<1>8. Layout(machine', "PrintByte")
  BY <1>5, <1>6, <1>7, Depths DEF Layout, InPrintFourBits, InSyswrite
<1>9. pc'.block = "PrintByte"
  BY <1>3 DEF At
<1>10. StackInv'
  BY <1>3, <1>5, <1>8, <1>9, Arrived
<1>. QED
  BY <1>2, <1>5, <1>6, <1>10 DEF p

LEMMA PrintNewlineStack ==
  StackInv /\ PrintNewline =>
    /\ StackInv'
    /\ machine'.rdi = EntryRsp - 3 * W - 1 /\ machine'.mem[EntryRsp - 3 * W - 1] = 10
<1>. SUFFICES ASSUME StackInv, PrintNewline
     PROVE  /\ StackInv'
            /\ machine'.rdi = EntryRsp - 3 * W - 1 /\ machine'.mem[EntryRsp - 3 * W - 1] = 10
  OBVIOUS
<1>. DEFINE loaded == [machine EXCEPT !.rdi = machine.rsp - 1]
            locals == <<10>>
            p == At("epilogue", 0)
<1>1. /\ Layout(machine, "newline") /\ IsMachine(machine) /\ CallerKept(machine)
  BY Places, Depths DEF PrintNewline, StackInv
<1>2. /\ DOMAIN loaded = Names /\ loaded.rsp = machine.rsp /\ loaded.mem = machine.mem
      /\ loaded.rdi = machine.rsp - 1
  BY <1>1, Loaded
<1>3. /\ machine' = Push(loaded, Bytes(Code(p.block, p.k)) \o locals)
      /\ pc' = At("Syswrite", 0) /\ UNCHANGED start
  BY DEF PrintNewline, Call, Run, At
<1>4. IsSequence(locals) /\ Len(locals) = 1 /\ Len(locals) \in 0 .. W /\ locals[1] = 10
  <2>1. locals \in Seq({10}) /\ Len(locals) = 1 /\ locals[1] = 10
    OBVIOUS
  <2>. HIDE DEF locals
  <2>. QED
    BY <2>1, Sizes DEF IsSequence
<1>5. p \in BehindSyswrite
  BY DEF BehindSyswrite
<1>. HIDE DEF loaded, locals, p
<1>6. /\ IsMachine(machine') /\ CallerKept(machine') /\ Saved(machine')
      /\ machine'.rsp = EntryRsp - Depth["newline"] - W - Len(locals)
      /\ Stored(machine', machine'.rsp, Code(p.block, p.k))
      /\ machine'.rdi = loaded.rdi
      /\ \A i \in 1 .. Len(locals) : machine'.mem[machine'.rsp + W + i - 1] = locals[i]
  <2>1. IsSequence(locals) /\ Len(locals) \in 0 .. W
    BY <1>4
  <2>. QED
    BY <1>1, <1>2, <1>3, <2>1, CallDeeper
<1>7. machine'.rsp = EntryRsp - Depth["Syswrite"] /\ machine'.rsp = EntryRsp - 4 * W - 1
  BY <1>4, <1>6, Sizes, Depths
<1>8. ReturnsTo(machine', EntryRsp - 4 * W - 1, BehindSyswrite)
  BY <1>5, <1>6, <1>7 DEF ReturnsTo
<1>9. Layout(machine', "Syswrite")
  BY <1>6, <1>7, <1>8, Depths DEF Layout, InPrintByte, InPrintFourBits
<1>10. pc'.block = "Syswrite"
  BY <1>3 DEF At
<1>11. StackInv'
  BY <1>3, <1>6, <1>9, <1>10, Arrived
<1>12. machine'.rdi = EntryRsp - 3 * W - 1
  BY <1>1, <1>2, <1>6, Depths, Sizes DEF Layout
<1>13. machine'.mem[EntryRsp - 3 * W - 1] = 10
  <2>1. machine'.rsp + W + 1 - 1 = EntryRsp - 3 * W - 1
    BY <1>7, Sizes
  <2>2. machine'.mem[machine'.rsp + W + 1 - 1] = locals[1]
    BY <1>4, <1>6
  <2>. QED
    BY <1>4, <2>1, <2>2
<1>. QED
  BY <1>11, <1>12, <1>13

LEMMA PrintByteStack ==
  StackInv /\ PrintByte =>
    /\ StackInv'
    /\ Keeps(machine, machine') /\ Stored(machine', EntryRsp - 5 * W, machine.rax)
    /\ Stored(machine', EntryRsp - 6 * W, Code("low", 0))
    /\ machine'.rax = machine.rdi /\ machine'.rdi = machine.rdi \div 16
<1>. SUFFICES ASSUME StackInv, PrintByte
     PROVE  /\ StackInv'
            /\ Keeps(machine, machine') /\ Stored(machine', EntryRsp - 5 * W, machine.rax)
            /\ Stored(machine', EntryRsp - 6 * W, Code("low", 0))
            /\ machine'.rax = machine.rdi /\ machine'.rdi = machine.rdi \div 16
  OBVIOUS
<1>. DEFINE loaded == [machine EXCEPT !.rax = machine.rdi, !.rdi = @ \div 16]
            locals == Bytes(machine.rax)
            p == At("low", 0)
<1>1. /\ Layout(machine, "PrintByte") /\ IsMachine(machine) /\ CallerKept(machine)
  BY Places, Depths DEF PrintByte, StackInv
<1>2. /\ DOMAIN loaded = Names /\ loaded.rsp = machine.rsp /\ loaded.mem = machine.mem
      /\ loaded.rax = machine.rdi /\ loaded.rdi = machine.rdi \div 16
  BY <1>1 DEF IsMachine, Names
<1>3. /\ machine' = Push(loaded, Bytes(Code(p.block, p.k)) \o locals)
      /\ pc' = At("PrintFourBits", 0) /\ UNCHANGED start
  BY DEF PrintByte, Call, Run, At
<1>4. /\ IsSequence(locals) /\ Len(locals) = W /\ Len(locals) \in 0 .. W
      /\ \A i \in 1 .. W : locals[i] = Byte(machine.rax, i - 1)
  BY BytesAre, Sizes
<1>5. p \in BehindPrintFourBits /\ p.block = "low" /\ p.k = 0
  BY DEF BehindPrintFourBits, At
<1>. HIDE DEF loaded, locals, p
<1>6. /\ IsMachine(machine') /\ CallerKept(machine') /\ Saved(machine')
      /\ machine'.rsp = EntryRsp - Depth["PrintByte"] - W - Len(locals)
      /\ Stored(machine', machine'.rsp, Code(p.block, p.k))
      /\ Keeps(machine, machine') /\ machine'.rax = loaded.rax /\ machine'.rdi = loaded.rdi
      /\ \A i \in 1 .. Len(locals) : machine'.mem[machine'.rsp + W + i - 1] = locals[i]
      /\ ReturnsTo(machine', EntryRsp - 4 * W, BehindPrintByte)
  <2>1. IsSequence(locals) /\ Len(locals) \in 0 .. W
    BY <1>4
  <2>. QED
    BY <1>1, <1>2, <1>3, <2>1, CallDeeper DEF InPrintByte
<1>7. machine'.rsp = EntryRsp - Depth["PrintFourBits"] /\ machine'.rsp = EntryRsp - 6 * W
  <2>1. machine'.rsp = EntryRsp - Depth["PrintByte"] - W - W
    BY <1>4, <1>6
  <2>. QED
    BY <2>1, Sizes, Depths
<1>8. ReturnsTo(machine', EntryRsp - 6 * W, BehindPrintFourBits)
  BY <1>5, <1>6, <1>7 DEF ReturnsTo
<1>9. Layout(machine', "PrintFourBits")
  BY <1>6, <1>7, <1>8, Depths DEF Layout, InSyswrite
<1>10. pc'.block = "PrintFourBits"
  BY <1>3 DEF At
<1>11. StackInv'
  BY <1>3, <1>6, <1>9, <1>10, Arrived
<1>12. Stored(machine', EntryRsp - 5 * W, machine.rax)
  <2>1. ASSUME NEW i \in 0 .. W - 1
        PROVE  machine'.mem[EntryRsp - 5 * W + i] = Byte(machine.rax, i)
    <3>1. /\ i + 1 \in 1 .. W /\ (i + 1) - 1 = i
          /\ machine'.rsp + W + (i + 1) - 1 = EntryRsp - 5 * W + i
      BY <1>7, Sizes
    <3>2. machine'.mem[machine'.rsp + W + (i + 1) - 1] = locals[i + 1]
      BY <1>4, <1>6, <3>1
    <3>. QED
      BY <1>4, <3>1, <3>2
  <2>. QED
    BY <2>1 DEF Stored
<1>. QED
  BY <1>2, <1>5, <1>6, <1>7, <1>11, <1>12

LEMMA PrintLowBitsStack ==
  StackInv /\ PrintLowBits =>
    /\ StackInv'
    /\ Keeps(machine, machine') /\ Stored(machine', EntryRsp - 6 * W, Code("endByte", 0))
    /\ machine'.rdi = machine.rax % 16
<1>. SUFFICES ASSUME StackInv, PrintLowBits
     PROVE  /\ StackInv'
            /\ Keeps(machine, machine') /\ Stored(machine', EntryRsp - 6 * W, Code("endByte", 0))
            /\ machine'.rdi = machine.rax % 16
  OBVIOUS
<1>. DEFINE loaded == [machine EXCEPT !.rdi = machine.rax % 16]
            locals == << >>
            p == At("endByte", 0)
<1>1. /\ Layout(machine, "low") /\ IsMachine(machine) /\ CallerKept(machine)
  BY Places, Depths DEF PrintLowBits, StackInv
<1>2. /\ DOMAIN loaded = Names /\ loaded.rsp = machine.rsp /\ loaded.mem = machine.mem
      /\ loaded.rdi = machine.rax % 16
  BY <1>1, Loaded
<1>3. /\ machine' = Push(loaded, Bytes(Code(p.block, p.k)) \o locals)
      /\ pc' = At("PrintFourBits", 0) /\ UNCHANGED start
  BY DEF PrintLowBits, Call, Run, At
<1>4. IsSequence(locals) /\ Len(locals) = 0 /\ Len(locals) \in 0 .. W
  BY NoLocals
<1>5. p \in BehindPrintFourBits /\ p.block = "endByte" /\ p.k = 0
  BY DEF BehindPrintFourBits, At
<1>. HIDE DEF loaded, locals, p
<1>6. /\ IsMachine(machine') /\ CallerKept(machine') /\ Saved(machine')
      /\ machine'.rsp = EntryRsp - Depth["low"] - W - Len(locals)
      /\ Stored(machine', machine'.rsp, Code(p.block, p.k))
      /\ Keeps(machine, machine') /\ machine'.rdi = loaded.rdi
      /\ ReturnsTo(machine', EntryRsp - 4 * W, BehindPrintByte)
  <2>1. IsSequence(locals) /\ Len(locals) \in 0 .. W
    BY <1>4
  <2>. QED
    BY <1>1, <1>2, <1>3, <2>1, CallDeeper DEF InPrintByte
<1>7. machine'.rsp = EntryRsp - Depth["PrintFourBits"] /\ machine'.rsp = EntryRsp - 6 * W
  <2>1. machine'.rsp = EntryRsp - Depth["low"] - W - 0
    BY <1>4, <1>6
  <2>. QED
    BY <2>1, Sizes, Depths
<1>8. ReturnsTo(machine', EntryRsp - 6 * W, BehindPrintFourBits)
  BY <1>5, <1>6, <1>7 DEF ReturnsTo
<1>9. Layout(machine', "PrintFourBits")
  BY <1>6, <1>7, <1>8, Depths DEF Layout, InSyswrite
<1>10. pc'.block = "PrintFourBits"
  BY <1>3 DEF At
<1>11. StackInv'
  BY <1>3, <1>6, <1>9, <1>10, Arrived
<1>. QED
  BY <1>2, <1>5, <1>6, <1>7, <1>11

(* A ret goes to one of the points it may, one word up.                    *)
ArePoints(points) ==
  \A p \in points : p.block \in ReturnPoints /\ p.k \in 0 .. 7 /\ p = At(p.block, p.k)

LEMMA Points ==
  /\ ArePoints(BehindPrintByte) /\ ArePoints(BehindPrintFourBits) /\ ArePoints(BehindSyswrite)
  /\ ArePoints({At("caller", 0)})
<1>1. ArePoints(BehindPrintByte)
  BY AfterIs DEF ArePoints, BehindPrintByte
<1>. QED
  BY <1>1 DEF ArePoints, BehindPrintFourBits, BehindSyswrite, ReturnPoints, At

LEMMA Returns ==
  ASSUME NEW m, IsMachine(m), NEW points, ArePoints(points), ReturnsTo(m, m.rsp, points),
         NEW t, NEW q, t = Pop(m, W, << >>), q = Target(WordAt(m, m.rsp))
  PROVE  /\ IsMachine(t) /\ t.mem = m.mem /\ t.rsp = m.rsp + W /\ q \in points
         /\ \A reg \in {"rax", "rsi", "rdx"} : t[reg] = m[reg]
<1>1. W \in Int /\ m.rsp \in Int
  BY Sizes DEF IsMachine
<1>2. q \in points
  BY <1>1, Return DEF ArePoints
<1>3. /\ DOMAIN t = Names /\ t.mem = m.mem /\ t.rsp = m.rsp + W
      /\ \A reg \in {"rax", "rsi", "rdx"} : t[reg] = m[reg]
  BY <1>1, PoppedNone
<1>. QED
  BY <1>1, <1>2, <1>3 DEF IsMachine

LEMMA PrintByteReturnsStack ==
  StackInv /\ PrintByteReturns =>
    /\ StackInv'
    /\ machine'.rax = WordAt(machine, EntryRsp - 5 * W)
    /\ \A word \in Words : Stored(machine, EntryRsp - 4 * W, word) => pc' = Target(word)
<1>. SUFFICES ASSUME StackInv, PrintByteReturns
     PROVE  /\ StackInv'
            /\ machine'.rax = WordAt(machine, EntryRsp - 5 * W)
            /\ \A word \in Words : Stored(machine, EntryRsp - 4 * W, word) => pc' = Target(word)
  OBVIOUS
<1>. DEFINE regs == <<"rax">>
            m == Pop(machine, 0, regs)
<1>1. /\ Layout(machine, "endByte") /\ IsMachine(machine) /\ CallerKept(machine)
  BY Places, Depths DEF PrintByteReturns, StackInv
<1>2. /\ DOMAIN m = Names /\ m.mem = machine.mem /\ m.rsp = machine.rsp + 0 + W * Len(regs)
      /\ m.rax = WordAt(machine, machine.rsp + 0 + W * (1 - 1))
  <2>1. /\ Len(regs) \in Nat /\ \A i \in 1 .. Len(regs) : regs[i] \in {"rax", "rsi", "rdx"}
        /\ regs[1] = "rax" /\ 1 \in 1 .. Len(regs) /\ \A i \in 1 .. 1 - 1 : regs[i] # regs[1]
    OBVIOUS
  <2>. DEFINE skip == 0
  <2>2. skip \in Int /\ m = Pop(machine, skip, regs) /\ machine.rsp + skip = machine.rsp + 0
    OBVIOUS
  <2>. HIDE DEF regs, skip, m
  <2>3. LET t == Pop(machine, skip, regs)
        IN  /\ DOMAIN t = Names /\ t.mem = machine.mem
            /\ t.rsp = machine.rsp + skip + W * Len(regs)
            /\ t[regs[1]] = WordAt(machine, machine.rsp + skip + W * (1 - 1))
    BY <1>1, <2>1, <2>2, Popped
  <2>. QED
    BY <2>1, <2>2, <2>3
<1>3. Len(regs) = 1
  OBVIOUS
<1>4. machine' = Pop(m, W, << >>) /\ pc' = Target(WordAt(m, m.rsp)) /\ UNCHANGED start
  BY DEF PrintByteReturns, Ret, Run
<1>. HIDE DEF m, regs
<1>5. m.rsp = EntryRsp - 4 * W /\ m.rsp \in Int
  BY <1>1, <1>2, <1>3, Depths, Sizes DEF Layout
<1>6. IsMachine(m) /\ CallerKept(m) /\ Saved(m) /\ ReturnsTo(m, m.rsp, BehindPrintByte)
  BY <1>1, <1>2, <1>5, SameStack DEF Layout, InPrintByte
<1>7. /\ IsMachine(machine') /\ machine'.mem = m.mem /\ machine'.rsp = m.rsp + W
      /\ pc' \in BehindPrintByte /\ machine'.rax = m.rax
  BY <1>4, <1>6, Points, Returns
<1>8. CallerKept(machine') /\ Saved(machine') /\ machine'.rsp = EntryRsp - 3 * W
  <2>1. machine'.rsp = EntryRsp - 3 * W
    BY <1>5, <1>7, Sizes
  <2>2. CallerKept(machine') /\ Saved(machine')
    BY <1>6, <1>7, SameStack DEF IsMachine
  <2>. QED
    BY <2>1, <2>2
<1>9. Layout(machine', "copy") /\ Layout(machine', "newline")
  BY <1>8, Depths DEF Layout, InPrintByte, InPrintFourBits, InSyswrite
<1>10. /\ pc'.block \in {"copy", "newline"}
       /\ (pc' = At("copy", pc'.k) /\ pc'.k \in 0 .. W - 1) \/ pc' = At(pc'.block, 0)
  <2>1. PICK k \in 0 .. W - 1 : pc' = After(k)
    BY <1>7 DEF BehindPrintByte
  <2>. QED
    BY <2>1, AfterIs
<1>11. StackInv'
  BY <1>4, <1>7, <1>8, <1>9, <1>10, Arrived
<1>12. machine'.rax = WordAt(machine, EntryRsp - 5 * W)
  <2>1. machine.rsp + 0 + W * (1 - 1) = EntryRsp - 5 * W
    BY <1>1, Depths, Sizes DEF Layout
  <2>. QED
    BY <1>2, <1>7, <2>1
<1>13. ASSUME NEW word \in Words, Stored(machine, EntryRsp - 4 * W, word)
       PROVE  pc' = Target(word)
  <2>1. Stored(m, m.rsp, word)
    BY <1>2, <1>5, <1>13 DEF Stored
  <2>2. WordAt(m, m.rsp) = word
    BY <1>5, <2>1, StoredIsRead
  <2>. QED
    BY <1>4, <2>2
<1>. QED
  BY <1>4, <1>11, <1>12, <1>13

(* A system call leaves the stack alone too.                               *)
LEMMA SystemCall ==
  ASSUME NEW m, IsMachine(m), NEW buffer, NEW count, NEW return,
         SysWrite(m, buffer, count, return)
  PROVE  /\ DOMAIN machine' = Names /\ machine'.rsp = m.rsp /\ machine'.mem = m.mem
         /\ machine'.rcx = Code(return, 0) /\ machine'.rsi = buffer /\ machine'.rdx = count
         /\ pc' = At("kernel", 0) /\ UNCHANGED start
<1>. DEFINE code == Code(return, 0)
<1>1. /\ machine' = [m EXCEPT !.rax = 1, !.rdi = 1, !.rsi = buffer, !.rdx = count, !.rcx = code]
      /\ pc' = At("kernel", 0) /\ UNCHANGED start
  BY DEF SysWrite, Run
<1>. HIDE DEF code
<1>2. /\ DOMAIN machine' = Names /\ machine'.rsp = m.rsp /\ machine'.mem = m.mem
      /\ machine'.rcx = code /\ machine'.rsi = buffer /\ machine'.rdx = count
  BY <1>1 DEF IsMachine, Names
<1>. QED
  BY <1>1, <1>2 DEF code

LEMMA SyswriteStack ==
  StackInv /\ Syswrite =>
    /\ StackInv'
    /\ machine'.mem = machine.mem /\ machine'.rcx = Code("endSyswrite", 0)
    /\ machine'.rsi = machine.rdi /\ machine'.rdx = 1
<1>. SUFFICES ASSUME StackInv, Syswrite
     PROVE  /\ StackInv'
            /\ machine'.mem = machine.mem /\ machine'.rcx = Code("endSyswrite", 0)
            /\ machine'.rsi = machine.rdi /\ machine'.rdx = 1
  OBVIOUS
<1>1. /\ Layout(machine, "Syswrite") /\ IsMachine(machine) /\ CallerKept(machine)
  BY Places, Depths DEF Syswrite, StackInv
<1>2. /\ DOMAIN machine' = Names /\ machine'.rsp = machine.rsp /\ machine'.mem = machine.mem
      /\ machine'.rcx = Code("endSyswrite", 0)
      /\ machine'.rsi = machine.rdi /\ machine'.rdx = 1
      /\ pc' = At("kernel", 0) /\ UNCHANGED start
  BY <1>1, SystemCall DEF Syswrite
<1>3. IsMachine(machine') /\ CallerKept(machine') /\ Layout(machine', "endSyswrite")
  <2>1. machine'.rsp \in Int
    BY <1>1, <1>2 DEF IsMachine
  <2>2. /\ IsMachine(machine') /\ CallerKept(machine') /\ Saved(machine')
        /\ ReturnsTo(machine', EntryRsp - 4 * W - 1, BehindSyswrite)
    BY <1>1, <1>2, <2>1, SameStack DEF Layout, InSyswrite
  <2>. QED
    BY <1>1, <1>2, <2>2, Depths DEF Layout, InPrintByte, InPrintFourBits
<1>4. pc'.block = "kernel" /\ "endSyswrite" \in BehindKernel
  BY <1>2 DEF At, BehindKernel
<1>. QED
  BY <1>2, <1>3, <1>4, Arrived

LEMMA SyswriteReturnsStack ==
  StackInv /\ SyswriteReturns =>
    /\ StackInv'
    /\ pc' = At("epilogue", 0)
<1>. SUFFICES ASSUME StackInv, SyswriteReturns
     PROVE  /\ StackInv'
            /\ pc' = At("epilogue", 0)
  OBVIOUS
<1>1. /\ Layout(machine, "endSyswrite") /\ IsMachine(machine) /\ CallerKept(machine)
  BY Places, Depths DEF SyswriteReturns, StackInv
<1>2. machine.rsp = EntryRsp - 4 * W - 1
  BY <1>1, Depths, Sizes DEF Layout
<1>3. /\ machine' = Pop(machine, W, << >>) /\ pc' = Target(WordAt(machine, machine.rsp))
      /\ UNCHANGED start
  BY DEF SyswriteReturns, Ret, Run
<1>4. ReturnsTo(machine, machine.rsp, BehindSyswrite)
  BY <1>1, <1>2 DEF Layout, InSyswrite
<1>5. /\ IsMachine(machine') /\ machine'.mem = machine.mem /\ machine'.rsp = machine.rsp + W
      /\ pc' \in BehindSyswrite
  BY <1>1, <1>3, <1>4, Points, Returns
<1>6. CallerKept(machine') /\ Saved(machine') /\ machine'.rsp = EntryRsp - 3 * W - 1
  <2>1. machine'.rsp = EntryRsp - 3 * W - 1
    BY <1>2, <1>5, Sizes
  <2>2. CallerKept(machine') /\ Saved(machine')
    BY <1>1, <1>5, SameStack DEF IsMachine, Layout
  <2>. QED
    BY <2>1, <2>2
<1>7. Layout(machine', "epilogue")
  BY <1>6, Depths, Sizes DEF Layout, InPrintByte, InPrintFourBits, InSyswrite
<1>8. pc' = At("epilogue", 0) /\ pc'.block = "epilogue"
  BY <1>5 DEF BehindSyswrite, At
<1>. QED
  BY <1>3, <1>5, <1>6, <1>7, <1>8, Arrived

(* What is pushed word after word, lowest address first.                   *)
AreThreeWords(q, a, b, c) == q = Bytes(a) \o Bytes(b) \o Bytes(c)

LEMMA ThreeWords ==
  ASSUME NEW q, NEW a, NEW b, NEW c, AreThreeWords(q, a, b, c)
  PROVE  /\ IsSequence(q) /\ Len(q) = 3 * W
         /\ \A i \in 1 .. W : /\ q[i] = Byte(a, i - 1)
                             /\ q[W + i] = Byte(b, i - 1)
                             /\ q[2 * W + i] = Byte(c, i - 1)
<1>. DEFINE A == Bytes(a)
            B == Bytes(b)
            C == Bytes(c)
            AB == A \o B
<1>1. IsSequence(A) /\ IsSequence(B) /\ IsSequence(C)
  BY BytesAre
<1>2. /\ Len(A) = W /\ Len(B) = W /\ Len(C) = W
      /\ \A i \in 1 .. W : /\ A[i] = Byte(a, i - 1) /\ B[i] = Byte(b, i - 1)
                          /\ C[i] = Byte(c, i - 1)
  BY BytesAre
<1>. HIDE DEF A, B, C
<1>3. AB = A \o B /\ q = AB \o C
  BY DEF AreThreeWords, A, B, C
<1>. HIDE DEF AB
<1>4. /\ IsSequence(AB) /\ Len(AB) = Len(A) + Len(B)
      /\ \A i \in 1 .. Len(A) : AB[i] = A[i]
      /\ \A i \in 1 .. Len(B) : AB[Len(A) + i] = B[i]
  BY <1>1, <1>3, Joined
<1>5. /\ IsSequence(q) /\ Len(q) = Len(AB) + Len(C)
      /\ \A i \in 1 .. Len(AB) : q[i] = AB[i]
      /\ \A i \in 1 .. Len(C) : q[Len(AB) + i] = C[i]
  BY <1>1, <1>3, <1>4, Joined
<1>6. Len(AB) = 2 * W /\ Len(q) = 3 * W
  BY <1>2, <1>4, <1>5, Sizes
<1>7. \A i \in 1 .. W : i \in 1 .. 2 * W /\ W + i \in 1 .. 2 * W
  BY Sizes
<1>8. \A i \in 1 .. W : q[i] = A[i]
  BY <1>2, <1>4, <1>5, <1>6, <1>7
<1>9. \A i \in 1 .. W : q[W + i] = B[i]
  <2>1. \A i \in 1 .. W : AB[W + i] = B[i]
    BY <1>2, <1>4
  <2>. QED
    BY <1>5, <1>6, <1>7, <2>1
<1>10. \A i \in 1 .. W : q[2 * W + i] = C[i]
  BY <1>2, <1>5, <1>6
<1>. QED
  BY <1>2, <1>5, <1>6, <1>8, <1>9, <1>10

AreWords(q, a, b, c, d) == q = Bytes(a) \o Bytes(b) \o Bytes(c) \o Bytes(d)

LEMMA FourWords ==
  ASSUME NEW q, NEW a, NEW b, NEW c, NEW d, AreWords(q, a, b, c, d)
  PROVE  /\ IsSequence(q) /\ Len(q) = 4 * W
         /\ \A i \in 1 .. W : /\ q[i] = Byte(a, i - 1)
                             /\ q[W + i] = Byte(b, i - 1)
                             /\ q[2 * W + i] = Byte(c, i - 1)
                             /\ q[3 * W + i] = Byte(d, i - 1)
<1>. DEFINE ABC == Bytes(a) \o Bytes(b) \o Bytes(c)
            D == Bytes(d)
<1>1. AreThreeWords(ABC, a, b, c) /\ q = ABC \o D
  BY DEF AreThreeWords, AreWords
<1>. HIDE DEF ABC
<1>2. /\ IsSequence(ABC) /\ Len(ABC) = 3 * W
      /\ \A i \in 1 .. W : /\ ABC[i] = Byte(a, i - 1)
                          /\ ABC[W + i] = Byte(b, i - 1)
                          /\ ABC[2 * W + i] = Byte(c, i - 1)
  BY <1>1, ThreeWords
<1>3. IsSequence(D) /\ Len(D) = W /\ \A i \in 1 .. W : D[i] = Byte(d, i - 1)
  BY BytesAre
<1>. HIDE DEF D
<1>4. /\ IsSequence(q) /\ Len(q) = Len(ABC) + Len(D)
      /\ \A i \in 1 .. Len(ABC) : q[i] = ABC[i]
      /\ \A i \in 1 .. Len(D) : q[Len(ABC) + i] = D[i]
  <2>1. IsSequence(ABC) /\ IsSequence(D)
    BY <1>2, <1>3
  <2>. QED
    BY <1>1, <2>1, Joined
<1>5. Len(q) = 4 * W
  BY <1>2, <1>3, <1>4, Sizes
<1>6. \A i \in 1 .. W : /\ i \in 1 .. 3 * W /\ W + i \in 1 .. 3 * W
                       /\ 2 * W + i \in 1 .. 3 * W
  BY Sizes
<1>7. \A i \in 1 .. W : /\ q[i] = ABC[i] /\ q[W + i] = ABC[W + i]
                       /\ q[2 * W + i] = ABC[2 * W + i]
  BY <1>2, <1>4, <1>6
<1>8. \A i \in 1 .. W : q[3 * W + i] = D[i]
  BY <1>2, <1>3, <1>4
<1>. QED
  BY <1>2, <1>3, <1>4, <1>5, <1>7, <1>8

(* A word in what is pushed is in memory as far above the stack pointer.   *)
LEMMA PushedWord ==
  ASSUME NEW m, IsMachine(m), NEW q, NEW n \in Nat, Len(q) = n,
         m.rsp - n >= 0, m.rsp <= StackTop, NEW offset \in Nat, offset + W <= n,
         NEW word, \A i \in 1 .. W : q[offset + i] = Byte(word, i - 1)
  PROVE  Stored(Push(m, q), m.rsp - n + offset, word)
<1>. DEFINE t == Push(m, q)
            sp == m.rsp - n
<1>1. W \in Nat /\ StackTop \in Int /\ m.rsp \in Int
  <2>1. W \in Nat /\ StackTop \in Int
    BY Sizes
  <2>2. m.rsp \in Int
    BY Zenon DEF IsMachine
  <2>. QED
    BY <2>1, <2>2
<1>2. \A a \in 0 .. StackTop - 1 :
        a \in m.rsp - n .. m.rsp - 1 => t.mem[a] = q[a - (m.rsp - n) + 1]
  BY Pushed, ZenonT(60)
<1>. HIDE DEF t
<1>3. ASSUME NEW i \in 0 .. W - 1 PROVE t.mem[sp + offset + i] = Byte(word, i)
  <2>. DEFINE a == sp + offset + i
  <2>1. /\ a \in 0 .. StackTop - 1 /\ a \in m.rsp - n .. m.rsp - 1
        /\ a - (m.rsp - n) + 1 = offset + (i + 1)
        /\ i + 1 \in 1 .. W /\ (i + 1) - 1 = i
    BY <1>1
  <2>. HIDE DEF a
  <2>2. t.mem[a] = q[offset + (i + 1)]
    BY <1>2, <2>1
  <2>3. q[offset + (i + 1)] = Byte(word, (i + 1) - 1)
    BY <2>1
  <2>. QED
    BY <2>1, <2>2, <2>3 DEF a
<1>. QED
  BY <1>3 DEF Stored, t

LEMMA PrintFourBitsStack ==
  StackInv /\ PrintFourBits =>
    /\ StackInv'
    /\ Keeps(machine, machine') /\ Stored(machine', EntryRsp - 7 * W, machine.rax)
    /\ machine'.mem[machine'.rsi] = HexDigit(machine.rdi) % 256 /\ machine'.rdx = 1
    /\ machine'.rcx = Code("endFourBits", 0) /\ machine'.rsi \in Int
<1>. SUFFICES ASSUME StackInv, PrintFourBits
     PROVE  /\ StackInv'
            /\ Keeps(machine, machine') /\ Stored(machine', EntryRsp - 7 * W, machine.rax)
            /\ machine'.mem[machine'.rsi] = HexDigit(machine.rdi) % 256 /\ machine'.rdx = 1
            /\ machine'.rcx = Code("endFourBits", 0) /\ machine'.rsi \in Int
  OBVIOUS
<1>. DEFINE pushed == Bytes(machine.rsi) \o Bytes(machine.rdx) \o Bytes(machine.rax)
            digit  == <<HexDigit(machine.rdi) % 256>>
            q      == digit \o pushed
            m      == Push(machine, q)
            buffer == machine.rsp - Len(pushed) - 1
<1>1. /\ Layout(machine, "PrintFourBits") /\ IsMachine(machine) /\ CallerKept(machine)
  BY Places, Depths DEF PrintFourBits, StackInv
<1>2. /\ IsSequence(pushed) /\ Len(pushed) = 3 * W
      /\ \A i \in 1 .. W : pushed[2 * W + i] = Byte(machine.rax, i - 1)
  <2>1. AreThreeWords(pushed, machine.rsi, machine.rdx, machine.rax)
    BY DEF AreThreeWords
  <2>. HIDE DEF pushed
  <2>. QED
    BY <2>1, ThreeWords
<1>3. SysWrite(m, buffer, 1, "endFourBits")
  BY DEF PrintFourBits
<1>4. /\ Len(q) = 3 * W + 1 /\ Len(q) \in Nat /\ q[1] = HexDigit(machine.rdi) % 256
      /\ \A i \in 1 .. 3 * W : q[1 + i] = pushed[i]
  <2>1. IsSequence(pushed) /\ Len(pushed) = 3 * W
    BY <1>2
  <2>2. IsSequence(digit) /\ Len(digit) = 1 /\ digit[1] = HexDigit(machine.rdi) % 256
    <3>. DEFINE value == HexDigit(machine.rdi) % 256
    <3>. HIDE DEF value
    <3>1. <<value>> \in Seq({value}) /\ Len(<<value>>) = 1 /\ <<value>>[1] = value
      OBVIOUS
    <3>. QED
      BY <3>1 DEF IsSequence, value
  <2>3. q = digit \o pushed
    OBVIOUS
  <2>. HIDE DEF pushed, digit, q
  <2>4. IsSequence(digit) /\ IsSequence(pushed)
    BY <2>1, <2>2
  <2>5. /\ Len(q) = Len(digit) + Len(pushed) /\ \A i \in 1 .. Len(digit) : q[i] = digit[i]
        /\ \A i \in 1 .. Len(pushed) : q[Len(digit) + i] = pushed[i]
    BY <2>3, <2>4, Joined
  <2>. QED
    BY <2>1, <2>2, <2>5, Sizes
<1>5. buffer = machine.rsp - Len(q)
  BY <1>1, <1>2, <1>4, Sizes DEF IsMachine
<1>. HIDE DEF pushed, digit, q, buffer
<1>6. /\ IsMachine(m) /\ m.rsp = machine.rsp - Len(q) /\ Keeps(machine, m)
      /\ \A a \in 0 .. StackTop - 1 :
           a \in machine.rsp - Len(q) .. machine.rsp - 1
             => m.mem[a] = q[a - (machine.rsp - Len(q)) + 1]
  BY <1>1, <1>4, Pushed
<1>7. machine.rsp = EntryRsp - 6 * W /\ m.rsp = EntryRsp - 9 * W - 1 /\ buffer = m.rsp
  BY <1>1, <1>4, <1>5, <1>6, Depths, Sizes DEF Layout
<1>8. Stored(m, EntryRsp - 7 * W, machine.rax) /\ m.mem[m.rsp] = q[1]
  <2>1. \A i \in 1 .. W : q[(2 * W + 1) + i] = Byte(machine.rax, i - 1)
    <3>1. \A i \in 1 .. W : 2 * W + i \in 1 .. 3 * W /\ (2 * W + 1) + i = 1 + (2 * W + i)
      BY Sizes
    <3>. QED
      BY <1>2, <1>4, <3>1
  <2>2. /\ 3 * W + 1 \in Nat /\ 2 * W + 1 \in Nat /\ (2 * W + 1) + W <= 3 * W + 1
        /\ machine.rsp - (3 * W + 1) >= 0 /\ machine.rsp <= StackTop
        /\ machine.rsp - (3 * W + 1) + (2 * W + 1) = EntryRsp - 7 * W
    BY <1>7, Sizes
  <2>3. Stored(m, machine.rsp - (3 * W + 1) + (2 * W + 1), machine.rax)
    <3>. DEFINE n      == 3 * W + 1
                offset == 2 * W + 1
    <3>1. /\ n \in Nat /\ offset \in Nat /\ offset + W <= n
          /\ machine.rsp - n >= 0 /\ machine.rsp <= StackTop
          /\ Len(q) = n /\ \A i \in 1 .. W : q[offset + i] = Byte(machine.rax, i - 1)
      BY <1>4, <2>1, <2>2
    <3>. HIDE DEF n, offset
    <3>2. Stored(m, machine.rsp - n + offset, machine.rax)
      BY <1>1, <3>1, PushedWord DEF m
    <3>. QED
      BY <3>2 DEF n, offset
  <2>4. m.mem[m.rsp] = q[1]
    <3>1. m.rsp \in 0 .. StackTop - 1 /\ m.rsp \in machine.rsp - Len(q) .. machine.rsp - 1
          /\ m.rsp - (machine.rsp - Len(q)) + 1 = 1
      BY <1>4, <1>6, <1>7, Sizes
    <3>. QED
      BY <1>6, <3>1
  <2>. QED
    BY <2>2, <2>3, <2>4
<1>. HIDE DEF m
<1>9. /\ DOMAIN machine' = Names /\ machine'.rsp = m.rsp /\ machine'.mem = m.mem
      /\ machine'.rcx = Code("endFourBits", 0) /\ machine'.rsi = m.rsp /\ machine'.rdx = 1
      /\ pc' = At("kernel", 0) /\ UNCHANGED start
  BY <1>3, <1>6, <1>7, SystemCall
<1>10. IsMachine(machine') /\ Keeps(machine, machine')
  BY <1>6, <1>9 DEF IsMachine, Keeps
<1>11. /\ CallerKept(machine') /\ Saved(machine')
       /\ ReturnsTo(machine', EntryRsp - 4 * W, BehindPrintByte)
       /\ ReturnsTo(machine', EntryRsp - 6 * W, BehindPrintFourBits)
  BY <1>1, <1>10, Deeper DEF InPrintByte, InPrintFourBits
<1>12. machine'.rsp = EntryRsp - Depth["endFourBits"]
  BY <1>7, <1>9, Depths, Sizes
<1>13. Layout(machine', "endFourBits")
  BY <1>11, <1>12, Depths DEF Layout, InSyswrite
<1>14. pc'.block = "kernel" /\ "endFourBits" \in BehindKernel
  BY <1>9 DEF At, BehindKernel
<1>15. StackInv'
  BY <1>9, <1>10, <1>11, <1>13, <1>14, Arrived
<1>16. Stored(machine', EntryRsp - 7 * W, machine.rax)
  BY <1>8, <1>9 DEF Stored
<1>. QED
  BY <1>4, <1>7, <1>8, <1>9, <1>10, <1>15, <1>16, Sizes

LEMMA PrintFourBitsReturnsStack ==
  StackInv /\ PrintFourBitsReturns =>
    /\ StackInv'
    /\ machine'.mem = machine.mem /\ machine'.rax = WordAt(machine, EntryRsp - 7 * W)
    /\ \A word \in Words : Stored(machine, EntryRsp - 6 * W, word) => pc' = Target(word)
<1>. SUFFICES ASSUME StackInv, PrintFourBitsReturns
     PROVE  /\ StackInv'
            /\ machine'.mem = machine.mem /\ machine'.rax = WordAt(machine, EntryRsp - 7 * W)
            /\ \A word \in Words : Stored(machine, EntryRsp - 6 * W, word) => pc' = Target(word)
  OBVIOUS
<1>. DEFINE m == FreeFourBits(machine)
<1>1. /\ Layout(machine, "endFourBits") /\ IsMachine(machine) /\ CallerKept(machine)
  BY Places, Depths DEF PrintFourBitsReturns, StackInv
<1>2. /\ DOMAIN m = Names /\ m.mem = machine.mem /\ m.rsp = machine.rsp + 1 + 3 * W
      /\ m.rax = WordAt(machine, machine.rsp + 1 + 2 * W)
  BY <1>1, PoppedThree DEF FreeFourBits
<1>3. machine' = Pop(m, W, << >>) /\ pc' = Target(WordAt(m, m.rsp)) /\ UNCHANGED start
  BY DEF PrintFourBitsReturns, Ret, Run
<1>. HIDE DEF m
<1>4. m.rsp = EntryRsp - 6 * W /\ m.rsp \in Int
  BY <1>1, <1>2, Depths, Sizes DEF Layout
<1>5. /\ IsMachine(m) /\ CallerKept(m) /\ Saved(m) /\ ReturnsTo(m, m.rsp, BehindPrintFourBits)
      /\ ReturnsTo(m, EntryRsp - 4 * W, BehindPrintByte)
  BY <1>1, <1>2, <1>4, SameStack DEF Layout, InPrintByte, InPrintFourBits
<1>6. /\ IsMachine(machine') /\ machine'.mem = m.mem /\ machine'.rsp = m.rsp + W
      /\ pc' \in BehindPrintFourBits /\ machine'.rax = m.rax
  BY <1>3, <1>5, Points, Returns
<1>7. machine'.rsp = EntryRsp - 5 * W
  BY <1>4, <1>6, Sizes
<1>8. /\ CallerKept(machine') /\ Saved(machine')
      /\ ReturnsTo(machine', EntryRsp - 4 * W, BehindPrintByte)
  BY <1>5, <1>6, SameStack DEF IsMachine
<1>9. Layout(machine', "low") /\ Layout(machine', "endByte")
  BY <1>7, <1>8, Depths DEF Layout, InPrintByte, InPrintFourBits, InSyswrite
<1>10. pc'.block \in {"low", "endByte"} /\ pc' = At(pc'.block, 0)
  BY <1>6 DEF BehindPrintFourBits, At
<1>11. StackInv'
  BY <1>3, <1>6, <1>8, <1>9, <1>10, Arrived
<1>12. machine.rsp + 1 + 2 * W = EntryRsp - 7 * W
  BY <1>1, Depths, Sizes DEF Layout
<1>13. ASSUME NEW word \in Words, Stored(machine, EntryRsp - 6 * W, word)
       PROVE  pc' = Target(word)
  <2>1. Stored(m, m.rsp, word)
    BY <1>2, <1>4, <1>13 DEF Stored
  <2>2. WordAt(m, m.rsp) = word
    BY <1>4, <2>1, StoredIsRead
  <2>. QED
    BY <1>3, <2>2
<1>. QED
  BY <1>2, <1>6, <1>11, <1>12, <1>13

LEMMA PrintInt64ReturnsStack ==
  StackInv /\ PrintInt64Returns =>
    /\ StackInv'
    /\ pc' = At("caller", 0)
<1>. SUFFICES ASSUME StackInv, PrintInt64Returns
     PROVE  /\ StackInv'
            /\ pc' = At("caller", 0)
  OBVIOUS
<1>. DEFINE m == Pop(machine, 1, Saved64)
<1>1. /\ Layout(machine, "epilogue") /\ IsMachine(machine) /\ CallerKept(machine)
  BY Places, Depths DEF PrintInt64Returns, StackInv
<1>2. machine.rsp = EntryRsp - 3 * W - 1
  BY <1>1, Depths, Sizes DEF Layout
<1>3. /\ DOMAIN m = Names /\ m.mem = machine.mem /\ m.rsp = machine.rsp + 1 + 3 * W
      /\ m.rdx = WordAt(machine, machine.rsp + 1)
      /\ m.rsi = WordAt(machine, machine.rsp + 1 + W)
      /\ m.rax = WordAt(machine, machine.rsp + 1 + 2 * W)
  BY <1>1, PoppedThree DEF Saved64
<1>4. machine' = Pop(m, W, << >>) /\ pc' = Target(WordAt(m, m.rsp)) /\ UNCHANGED start
  BY DEF PrintInt64Returns, Ret, Run
<1>. HIDE DEF m
<1>5. m.rsp = EntryRsp
  BY <1>2, <1>3, Sizes
<1>6. m.rdx = start.rdx /\ m.rsi = start.rsi /\ m.rax = start.rax
  <2>1. /\ machine.rsp + 1 = EntryRsp - 3 * W /\ machine.rsp + 1 + W = EntryRsp - 2 * W
        /\ machine.rsp + 1 + 2 * W = EntryRsp - W
        /\ EntryRsp - W \in Int /\ EntryRsp - 2 * W \in Int /\ EntryRsp - 3 * W \in Int
    BY <1>2, Sizes
  <2>2. start.rdx \in Words /\ start.rsi \in Words /\ start.rax \in Words
    BY DEF StackInv
  <2>3. /\ WordAt(machine, EntryRsp - 3 * W) = start.rdx
        /\ WordAt(machine, EntryRsp - 2 * W) = start.rsi
        /\ WordAt(machine, EntryRsp - W) = start.rax
    BY <1>1, <2>1, <2>2, StoredIsRead DEF Layout, Saved
  <2>. QED
    BY <1>3, <2>1, <2>3
<1>7. IsMachine(m) /\ CallerKept(m)
  BY <1>1, <1>3, <1>5, Sizes, SameStack
<1>8. ReturnsTo(m, m.rsp, {At("caller", 0)})
  <2>1. Stored(start, EntryRsp, Code("caller", 0))
    BY <1>7 DEF CallerKept
  <2>2. \A i \in 0 .. W - 1 : EntryRsp + i \in EntryRsp .. StackTop - 1
    BY Sizes
  <2>3. Stored(m, EntryRsp, Code("caller", 0))
    BY <1>7, <2>1, <2>2 DEF CallerKept, Stored
  <2>. QED
    BY <1>5, <2>3 DEF ReturnsTo, At
<1>9. /\ IsMachine(machine') /\ machine'.mem = m.mem /\ machine'.rsp = m.rsp + W
      /\ pc' \in {At("caller", 0)}
      /\ \A reg \in {"rax", "rsi", "rdx"} : machine'[reg] = m[reg]
  BY <1>4, <1>7, <1>8, Points, Returns
<1>10. CallerKept(machine')
  BY <1>7, <1>9, SameStack DEF IsMachine
<1>11. Restored(machine')
  BY <1>5, <1>6, <1>9 DEF Restored
<1>. QED
  BY <1>4, <1>9, <1>10, <1>11, Arrived

LEMMA PrintInt64Stack ==
  StackInv /\ PrintInt64 =>
    /\ StackInv'
    /\ Stored(machine', EntryRsp - 4 * W, start.rdi)
    /\ machine'.mem[machine'.rsi] = 48 /\ machine'.mem[machine'.rsi + 1] = 120 /\ machine'.rdx = 2
    /\ machine'.rcx = Code("bytes", 0) /\ machine'.rsi \in Int
<1>. SUFFICES ASSUME StackInv, PrintInt64
     PROVE  /\ StackInv'
            /\ Stored(machine', EntryRsp - 4 * W, start.rdi)
            /\ machine'.mem[machine'.rsi] = 48 /\ machine'.mem[machine'.rsi + 1] = 120 /\ machine'.rdx = 2
            /\ machine'.rcx = Code("bytes", 0) /\ machine'.rsi \in Int
  OBVIOUS
<1>. DEFINE pushed == Bytes(machine.rdi) \o Bytes(machine.rdx) \o Bytes(machine.rsi)
                        \o Bytes(machine.rax)
            prefix == <<48, 120>>
            q      == prefix \o pushed
            m      == Push(machine, q)
            buffer == machine.rsp - Len(pushed) - 2
<1>1. /\ machine = start /\ machine.rsp = EntryRsp /\ IsMachine(machine)
      /\ CallerKept(machine)
  BY Places DEF PrintInt64, StackInv
<1>2. SysWrite(m, buffer, 2, "bytes")
  BY DEF PrintInt64
<1>3. /\ IsSequence(pushed) /\ Len(pushed) = 4 * W
      /\ \A i \in 1 .. W : /\ pushed[i] = Byte(machine.rdi, i - 1)
                          /\ pushed[W + i] = Byte(machine.rdx, i - 1)
                          /\ pushed[2 * W + i] = Byte(machine.rsi, i - 1)
                          /\ pushed[3 * W + i] = Byte(machine.rax, i - 1)
  <2>1. AreWords(pushed, machine.rdi, machine.rdx, machine.rsi, machine.rax)
    BY DEF AreWords
  <2>. HIDE DEF pushed
  <2>. QED
    BY <2>1, FourWords
<1>4. IsSequence(prefix) /\ Len(prefix) = 2 /\ prefix[1] = 48 /\ prefix[2] = 120
  <2>1. prefix \in Seq({48, 120}) /\ Len(prefix) = 2 /\ prefix[1] = 48 /\ prefix[2] = 120
    OBVIOUS
  <2>. QED
    BY <2>1 DEF IsSequence
<1>5. q = prefix \o pushed
  OBVIOUS
<1>. HIDE DEF pushed, prefix, q, buffer
<1>6. /\ Len(q) = Len(prefix) + Len(pushed)
      /\ \A i \in 1 .. Len(prefix) : q[i] = prefix[i]
      /\ \A i \in 1 .. Len(pushed) : q[Len(prefix) + i] = pushed[i]
  <2>1. IsSequence(prefix) /\ IsSequence(pushed)
    BY <1>3, <1>4
  <2>. QED
    BY <1>5, <2>1, Joined
<1>7. Len(q) = 4 * W + 2 /\ 4 * W + 2 \in Nat
  BY <1>3, <1>4, <1>6, Sizes
<1>8. /\ IsMachine(m) /\ m.rsp = machine.rsp - (4 * W + 2) /\ Keeps(machine, m)
      /\ m.mem[m.rsp] = 48 /\ m.mem[m.rsp + 1] = 120
  <2>1. /\ IsMachine(m) /\ m.rsp = machine.rsp - (4 * W + 2) /\ Keeps(machine, m)
        /\ \A a \in 0 .. StackTop - 1 :
             a \in machine.rsp - (4 * W + 2) .. machine.rsp - 1
               => m.mem[a] = q[a - (machine.rsp - (4 * W + 2)) + 1]
    BY <1>1, <1>7, Pushed
  <2>2. q[1] = 48 /\ q[2] = 120
    BY <1>4, <1>6
  <2>. HIDE DEF m
  <2>3. ASSUME NEW i \in 0 .. 1 PROVE m.mem[m.rsp + i] = q[i + 1]
    <3>1. /\ m.rsp + i \in 0 .. StackTop - 1
          /\ m.rsp + i \in machine.rsp - (4 * W + 2) .. machine.rsp - 1
          /\ (m.rsp + i) - (machine.rsp - (4 * W + 2)) + 1 = i + 1
      BY <1>1, <2>1, Sizes
    <3>. QED
      BY <2>1, <3>1
  <2>4. m.mem[m.rsp + 0] = q[1] /\ m.mem[m.rsp + 1] = q[2] /\ m.rsp + 0 = m.rsp
    <3>1. 0 + 1 = 1 /\ 1 + 1 = 2 /\ m.rsp + 0 = m.rsp
      BY <2>1 DEF IsMachine
    <3>. QED
      BY <2>3, <3>1
  <2>. QED
    BY <2>1, <2>2, <2>4
<1>9. Saved(m) /\ Stored(m, EntryRsp - 4 * W, machine.rdi)
  <2>1. ASSUME NEW k \in 0 .. 3, NEW word,
               \A i \in 1 .. W : pushed[k * W + i] = Byte(word, i - 1)
        PROVE  Stored(m, EntryRsp - (4 - k) * W, word)
    <3>. DEFINE n      == 4 * W + 2
                offset == k * W + 2
    <3>1. /\ n \in Nat /\ offset \in Nat /\ offset + W <= n
          /\ machine.rsp - n >= 0 /\ machine.rsp <= StackTop
          /\ machine.rsp - n + offset = EntryRsp - (4 - k) * W
      BY <1>1, Sizes
    <3>2. ASSUME NEW i \in 1 .. W PROVE q[offset + i] = Byte(word, i - 1)
      <4>1. k * W + i \in 1 .. 4 * W /\ offset + i = 2 + (k * W + i)
        BY Sizes
      <4>2. q[2 + (k * W + i)] = pushed[k * W + i]
        BY <1>3, <1>4, <1>6, <4>1
      <4>. QED
        BY <2>1, <4>1, <4>2
    <3>3. Len(q) = n
      BY <1>7
    <3>. HIDE DEF n, offset
    <3>4. Stored(m, machine.rsp - n + offset, word)
      BY <1>1, <3>1, <3>2, <3>3, PushedWord
    <3>. QED
      BY <3>1, <3>4
  <2>2. \A i \in 1 .. W : /\ pushed[0 * W + i] = Byte(machine.rdi, i - 1)
                         /\ pushed[1 * W + i] = Byte(machine.rdx, i - 1)
                         /\ pushed[2 * W + i] = Byte(machine.rsi, i - 1)
                         /\ pushed[3 * W + i] = Byte(machine.rax, i - 1)
    <3>1. 1 * W = W /\ \A i \in 1 .. W : 0 * W + i = i
      BY Sizes
    <3>. QED
      BY <1>3, <3>1, Zenon
  <2>3. /\ Stored(m, EntryRsp - (4 - 0) * W, machine.rdi)
        /\ Stored(m, EntryRsp - (4 - 1) * W, machine.rdx)
        /\ Stored(m, EntryRsp - (4 - 2) * W, machine.rsi)
        /\ Stored(m, EntryRsp - (4 - 3) * W, machine.rax)
    <3>. HIDE DEF m
    <3>. QED
      BY <2>1, <2>2
  <2>4. (4 - 0) * W = 4 * W /\ (4 - 1) * W = 3 * W /\ (4 - 2) * W = 2 * W /\ (4 - 3) * W = W
    BY Sizes
  <2>. QED
    BY <1>1, <2>3, <2>4 DEF Saved
<1>. HIDE DEF m
<1>10. /\ DOMAIN machine' = Names /\ machine'.rsp = m.rsp /\ machine'.mem = m.mem
       /\ machine'.rcx = Code("bytes", 0) /\ machine'.rsi = buffer /\ machine'.rdx = 2
       /\ pc' = At("kernel", 0) /\ UNCHANGED start
  BY <1>2, <1>8, SystemCall
<1>11. IsMachine(machine') /\ Keeps(machine, machine')
  BY <1>8, <1>10 DEF IsMachine, Keeps
<1>12. CallerKept(machine')
  BY <1>1, <1>11, CallerOn, Sizes
<1>13. Layout(machine', "bytes")
  <2>1. machine'.rsp = EntryRsp - Depth["bytes"]
    BY <1>1, <1>8, <1>10, Depths, Sizes
  <2>2. Saved(machine')
    BY <1>8, <1>9, <1>10, <1>11, SameStack DEF IsMachine
  <2>. QED
    BY <2>1, <2>2, Depths DEF Layout, InPrintByte, InPrintFourBits, InSyswrite
<1>14. pc'.block = "kernel" /\ "bytes" \in BehindKernel
  BY <1>10 DEF At, BehindKernel
<1>15. StackInv'
  BY <1>10, <1>11, <1>12, <1>13, <1>14, Arrived
<1>16. Stored(machine', EntryRsp - 4 * W, start.rdi)
  BY <1>1, <1>9, <1>10 DEF Stored
<1>17. buffer = m.rsp /\ m.rsp \in Int
  BY <1>1, <1>3, <1>8, Sizes DEF buffer
<1>. QED
  BY <1>8, <1>10, <1>15, <1>16, <1>17
-----------------------------------------------------------------------------
(* PrintInt64 is entered with its return address on the stack.             *)
LEMMA StackInit == AsmInit => StackInv
<1>. SUFFICES ASSUME AsmInit PROVE StackInv
  OBVIOUS
<1>. DEFINE code == Code("caller", 0)
            mem  == [a \in 0 .. StackTop - 1 |->
                       IF a < EntryRsp \/ a >= EntryRsp + W THEN 204
                       ELSE Byte(code, a - EntryRsp)]
<1>1. PICK argument \in Arguments, rax \in Garbage, rsi \in Garbage, rdx \in Garbage :
        start = [rax |-> rax, rdi |-> argument, rsi |-> rsi, rdx |-> rdx, rcx |-> 0,
                 rsp |-> EntryRsp, mem |-> mem]
  BY DEF AsmInit
<1>2. machine = start /\ pc = At("PrintInt64", 0)
  BY DEF AsmInit
<1>3. /\ DOMAIN mem = 0 .. StackTop - 1
      /\ \A i \in 0 .. W - 1 : mem[EntryRsp + i] = Byte(code, i)
  <2>. HIDE DEF code
  <2>1. ASSUME NEW i \in 0 .. W - 1 PROVE mem[EntryRsp + i] = Byte(code, i)
    <3>. DEFINE a == EntryRsp + i
    <3>1. /\ a \in 0 .. StackTop - 1 /\ a - EntryRsp = i
          /\ ~(a < EntryRsp \/ a >= EntryRsp + W)
      BY Sizes
    <3>. HIDE DEF a
    <3>2. mem[a] = Byte(code, a - EntryRsp)
      BY <3>1
    <3>. QED
      BY <3>1, <3>2 DEF a
  <2>. QED
    BY <2>1
<1>. HIDE DEF mem
<1>4. /\ DOMAIN start = Names /\ start.rsp = EntryRsp /\ start.mem = mem
      /\ start.rax = rax /\ start.rsi = rsi /\ start.rdx = rdx
  BY <1>1 DEF Names
<1>5. IsMachine(machine)
  BY <1>2, <1>3, <1>4, Sizes DEF IsMachine
<1>6. CallerKept(machine)
  BY <1>2, <1>3, <1>4 DEF CallerKept, Stored
<1>7. start.rax \in Words /\ start.rsi \in Words /\ start.rdx \in Words
  BY <1>4, ValueAssumption
<1>. QED
  BY <1>2, <1>4, <1>5, <1>6, <1>7 DEF StackInv

LEMMA StackStep == StackInv /\ [AsmStep \/ Returned]_asmvars => StackInv'
<1>. SUFFICES ASSUME StackInv, [AsmStep \/ Returned]_asmvars PROVE StackInv'
  OBVIOUS
<1>1. CASE AsmStep
  BY <1>1, KernelStack, PrintInt64Stack, PopArgumentStack, PrintByteAtOffsetStack,
     PrintNewlineStack, PrintInt64ReturnsStack, PrintByteStack, PrintLowBitsStack,
     PrintByteReturnsStack, PrintFourBitsStack, PrintFourBitsReturnsStack, SyswriteStack,
     SyswriteReturnsStack DEF AsmStep
<1>2. CASE UNCHANGED asmvars
  BY <1>2 DEF asmvars, StackInv, IsMachine, CallerKept, Layout, Saved, Stored, ReturnsTo,
              Restored, Keeps
<1>. QED
  BY <1>1, <1>2 DEF Returned

(* PrintInt64 gives its caller back rax, rsi, rdx and the stack pointer,   *)
(* never leaves for an address that is no return point of its own, and     *)
(* writes nothing above its entry: for every width of a word, every        *)
(* argument and whatever the kernel answers.                               *)
THEOREM RestoresCallerCorrect == AsmSpec => []RestoresCaller
<1>1. StackInv => RestoresCaller
  <2>. SUFFICES ASSUME StackInv PROVE RestoresCaller
    OBVIOUS
  <2>1. CallerKept(machine)
    BY DEF StackInv
  <2>. QED
    BY <2>1, Places DEF RestoresCaller, CallerKept, Restored
<1>. QED
  BY <1>1, StackInit, StackStep, PTL DEF AsmSpec
-----------------------------------------------------------------------------
(***************************************************************************)
(* The digits of a number are the halves of its bytes.                     *)
(***************************************************************************)
IsHexPower(h) == h = [k \in 0 .. 16 |-> IF k = 0 THEN 1 ELSE 16 * h[k - 1]]

LEMMA HexPowerIs ==
  ASSUME NEW j \in 0 .. 7
  PROVE  HexPower[2 * j] = Power[j] /\ HexPower[2 * j + 1] = 16 * Power[j]
<1>. DEFINE h == [k \in 0 .. 16 |->
          IF k % 2 = 0 THEN Power[k \div 2] ELSE 16 * Power[k \div 2]]
<1>1. ASSUME NEW k \in 0 .. 16, k # 0 PROVE h[k] = 16 * h[k - 1]
  <2>1. CASE k % 2 = 0
    <3>1. k \div 2 \in 1 .. 8 /\ (k - 1) % 2 = 1 /\ (k - 1) \div 2 = k \div 2 - 1
          /\ k - 1 \in 0 .. 16
      BY <1>1, <2>1
    <3>2. Power[k \div 2] = 256 * Power[k \div 2 - 1] /\ Power[k \div 2 - 1] \in Nat
      BY <3>1, PowerIs, PowerPositive
    <3>. QED
      BY <2>1, <3>1, <3>2
  <2>2. CASE k % 2 # 0
    <3>1. (k - 1) % 2 = 0 /\ (k - 1) \div 2 = k \div 2 /\ k - 1 \in 0 .. 16
      BY <1>1, <2>2
    <3>. QED
      BY <2>2, <3>1
  <2>. QED
    BY <2>1, <2>2
<1>2. h[0] = 1
  BY PowerIs
<1>3. h = [k \in 0 .. 16 |-> h[k]]
  OBVIOUS
<1>4. h[2 * j] = Power[j] /\ h[2 * j + 1] = 16 * Power[j]
  <2>1. 2 * j \in 0 .. 16 /\ (2 * j) % 2 = 0 /\ (2 * j) \div 2 = j
    OBVIOUS
  <2>2. 2 * j + 1 \in 0 .. 16 /\ (2 * j + 1) % 2 = 1 /\ (2 * j + 1) \div 2 = j
    OBVIOUS
  <2>. QED
    BY <2>1, <2>2
<1>. HIDE DEF h
<1>5. IsHexPower(h)
  <2>1. \A k \in 0 .. 16 : h[k] = IF k = 0 THEN 1 ELSE 16 * h[k - 1]
    BY <1>1, <1>2
  <2>. QED
    BY <1>3, <2>1 DEF IsHexPower
<1>6. HexPower = CHOOSE f : IsHexPower(f)
  BY Zenon DEF HexPower, IsHexPower
<1>7. IsHexPower(HexPower)
  BY <1>5, <1>6
<1>8. /\ HexPower[0] = 1 /\ h[0] = 1
      /\ \A k \in 1 .. 16 : HexPower[k] = 16 * HexPower[k - 1] /\ h[k] = 16 * h[k - 1]
  BY <1>1, <1>2, <1>7 DEF IsHexPower
<1>. DEFINE P(k) == HexPower[k] = h[k]
<1>9. P(0) /\ \A k \in 1 .. 16 : P(k - 1) => P(k)
  BY <1>8
<1>. HIDE DEF P
<1>10. P(1) /\ P(2) /\ P(3) /\ P(4) /\ P(5)
  BY <1>9
<1>11. P(6) /\ P(7) /\ P(8) /\ P(9) /\ P(10)
  BY <1>9, <1>10
<1>12. P(11) /\ P(12) /\ P(13) /\ P(14) /\ P(15)
  BY <1>9, <1>11
<1>13. \A k \in 0 .. 15 : P(k)
  BY <1>9, <1>10, <1>11, <1>12
<1>14. 2 * j \in 0 .. 15 /\ 2 * j + 1 \in 0 .. 15
  OBVIOUS
<1>. QED
  BY <1>4, <1>13, <1>14 DEF P

WordOf(k) == Byte(start.rdi, k)

LEMMA Nibbles ==
  ASSUME start.rdi \in Nat, NEW j \in 0 .. 7
  PROVE  /\ WordOf(j) \in 0 .. 255
         /\ Nibble(2 * j) = WordOf(j) % 16 /\ Nibble(2 * j + 1) = WordOf(j) \div 16
<1>. DEFINE n == start.rdi
            p == Power[j]
            q == n \div p
<1>1. p \in Nat \ {0} /\ n \in Nat
  BY PowerPositive
<1>2. WordOf(j) = q % 256
  BY DEF WordOf, Byte
<1>3. Nibble(2 * j) = q % 16
  BY HexPowerIs DEF Nibble
<1>4. Nibble(2 * j + 1) = (n \div (16 * p)) % 16
  BY HexPowerIs DEF Nibble
<1>. HIDE DEF n, p
<1>5. n \div (16 * p) = q \div 16
  <2>1. DividesAgain(n, p, 16)
    BY <1>1, DivideAgain
  <2>. QED
    BY <2>1 DEF DividesAgain, q
<1>6. q \in Nat
  BY <1>1
<1>. HIDE DEF q
<1>7. /\ q % 256 \in 0 .. 255 /\ q % 16 = (q % 256) % 16
      /\ (q \div 16) % 16 = (q % 256) \div 16
  BY <1>6
<1>. QED
  BY <1>2, <1>3, <1>4, <1>5, <1>7

Digit(n) == IF n < 10 THEN 48 + n ELSE 55 + n

LEMMA HexDigitIs ==
  ASSUME NEW n \in 0 .. 15
  PROVE  HexDigit(n) % 256 = Digit(n)
<1>1. n < Power[W] \div 2
  BY WordSize
<1>. QED
  BY <1>1 DEF HexDigit, AtLeast, Digit

(* What is expected of byte k: its two digits.                             *)
Before(k) == 2 + 2 * (W - 1 - k)

LEMMA ExpectedIs ==
  ASSUME start.rdi \in Nat
  PROVE  /\ IsSequence(Expected) /\ Len(Expected) = 3 + 2 * W
         /\ Expected[1] = 48 /\ Expected[2] = 120 /\ Expected[3 + 2 * W] = 10
         /\ \A k \in 0 .. W - 1 :
              /\ Expected[Before(k) + 1] = HexDigit(WordOf(k) \div 16) % 256
              /\ Expected[Before(k) + 2] = HexDigit(WordOf(k) % 16) % 256
<1>. DEFINE prefix == <<48, 120>>
            digits == [i \in 1 .. 2 * W |-> Digit(Nibble(2 * W - i))]
            q      == prefix \o digits
            last   == <<10>>
<1>1. Expected = q \o last
  BY DEF Expected, Digit
<1>2. IsSequence(prefix) /\ Len(prefix) = 2 /\ prefix[1] = 48 /\ prefix[2] = 120
  <2>1. prefix \in Seq({48, 120}) /\ Len(prefix) = 2 /\ prefix[1] = 48 /\ prefix[2] = 120
    OBVIOUS
  <2>. QED
    BY <2>1 DEF IsSequence
<1>3. IsSequence(last) /\ Len(last) = 1 /\ last[1] = 10
  <2>1. last \in Seq({10}) /\ Len(last) = 1 /\ last[1] = 10
    OBVIOUS
  <2>. QED
    BY <2>1 DEF IsSequence
<1>4. /\ IsSequence(digits) /\ Len(digits) = 2 * W
      /\ \A i \in 1 .. 2 * W : digits[i] = Digit(Nibble(2 * W - i))
  <2>. DEFINE S == {Digit(Nibble(2 * W - i)) : i \in 1 .. 2 * W}
  <2>1. /\ digits \in [1 .. 2 * W -> S]
        /\ \A i \in 1 .. 2 * W : digits[i] = Digit(Nibble(2 * W - i))
    OBVIOUS
  <2>2. 2 * W \in Nat
    BY Sizes
  <2>. HIDE DEF digits, S
  <2>3. digits \in Seq(S) /\ Len(digits) = 2 * W
    BY <2>1, <2>2
  <2>. QED
    BY <2>1, <2>3 DEF IsSequence
<1>5. q = prefix \o digits
  OBVIOUS
<1>. HIDE DEF prefix, digits, q, last
<1>6. /\ IsSequence(q) /\ Len(q) = Len(prefix) + Len(digits)
      /\ \A i \in 1 .. Len(prefix) : q[i] = prefix[i]
      /\ \A i \in 1 .. Len(digits) : q[Len(prefix) + i] = digits[i]
  <2>1. IsSequence(prefix) /\ IsSequence(digits)
    BY <1>2, <1>4
  <2>. QED
    BY <1>5, <2>1, Joined
<1>7. /\ IsSequence(Expected) /\ Len(Expected) = Len(q) + Len(last)
      /\ \A i \in 1 .. Len(q) : Expected[i] = q[i]
      /\ \A i \in 1 .. Len(last) : Expected[Len(q) + i] = last[i]
  <2>1. IsSequence(q) /\ IsSequence(last)
    BY <1>3, <1>6
  <2>. QED
    BY <1>1, <2>1, Joined
<1>8. Len(q) = 2 + 2 * W /\ Len(Expected) = 3 + 2 * W
  BY <1>2, <1>3, <1>4, <1>6, <1>7, Sizes
<1>9. Expected[1] = 48 /\ Expected[2] = 120
  <2>1. 1 \in 1 .. Len(q) /\ 2 \in 1 .. Len(q)
    BY <1>8, Sizes
  <2>. QED
    BY <1>2, <1>6, <1>7, <2>1
<1>10. Expected[3 + 2 * W] = 10
  <2>1. Expected[Len(q) + 1] = last[1] /\ Len(q) + 1 = 3 + 2 * W
    BY <1>3, <1>7, <1>8, Sizes
  <2>. QED
    BY <1>3, <2>1
<1>11. \A i \in 1 .. 2 * W : Expected[2 + i] = Digit(Nibble(2 * W - i))
  <2>1. \A i \in 1 .. 2 * W : 2 + i \in 1 .. Len(q)
    BY <1>8, Sizes
  <2>2. \A i \in 1 .. 2 * W : Expected[2 + i] = q[2 + i]
    BY <1>7, <2>1
  <2>3. \A i \in 1 .. 2 * W : q[2 + i] = digits[i]
    BY <1>2, <1>4, <1>6
  <2>. QED
    BY <1>4, <2>2, <2>3
<1>12. ASSUME NEW k \in 0 .. W - 1
       PROVE  /\ Expected[Before(k) + 1] = HexDigit(WordOf(k) \div 16) % 256
              /\ Expected[Before(k) + 2] = HexDigit(WordOf(k) % 16) % 256
  <2>. DEFINE i == 2 * (W - 1 - k) + 1
  <2>1. /\ i \in 1 .. 2 * W /\ i + 1 \in 1 .. 2 * W /\ k \in 0 .. 7
        /\ Before(k) + 1 = 2 + i /\ Before(k) + 2 = 2 + (i + 1)
        /\ 2 * W - i = 2 * k + 1 /\ 2 * W - (i + 1) = 2 * k
    BY Sizes DEF Before
  <2>. HIDE DEF i
  <2>2. /\ Expected[Before(k) + 1] = Digit(Nibble(2 * k + 1))
        /\ Expected[Before(k) + 2] = Digit(Nibble(2 * k))
    BY <1>11, <2>1
  <2>3. /\ WordOf(k) \in 0 .. 255
        /\ Nibble(2 * k) = WordOf(k) % 16 /\ Nibble(2 * k + 1) = WordOf(k) \div 16
    BY <2>1, Nibbles
  <2>4. WordOf(k) % 16 \in 0 .. 15 /\ WordOf(k) \div 16 \in 0 .. 15
    BY <2>3
  <2>. QED
    BY <2>2, <2>3, <2>4, HexDigitIs
<1>. QED
  BY <1>7, <1>8, <1>9, <1>10, <1>12
-----------------------------------------------------------------------------
(***************************************************************************)
(* What has been handed to the kernel at each place, and where the number  *)
(* is meanwhile: in rax, or on the stack while a routine below uses rax.   *)
(* While byte k is printed the word below what PrintInt64 saved says where *)
(* to go on after it, so nothing else need remember k.                     *)
(***************************************************************************)
Next4(m, k)    == Stored(m, EntryRsp - 4 * W, Code(After(k).block, After(k).k))
NumberAt(m, j) == Stored(m, EntryRsp - j * W, start.rdi)

(* In PrintFourBits, for the high or the low half of byte k.               *)
HighHalf(m, k, done) ==
  /\ Stored(m, EntryRsp - 6 * W, Code("low", 0)) /\ done = Before(k)
LowHalf(m, k, done) ==
  /\ Stored(m, EntryRsp - 6 * W, Code("endByte", 0)) /\ done = Before(k) + 1

Stage(m, p, done) ==
  /\ p.block = "PrintInt64" => done = 0
  /\ p.block = "bytes" => done = 2 /\ NumberAt(m, 4)
  /\ p.block = "copy" => done = Before(p.k) /\ m.rax = start.rdi
  /\ p.block = "PrintByte" => \E k \in 0 .. W - 1 :
       /\ done = Before(k) /\ m.rax = start.rdi /\ m.rdi = WordOf(k) /\ Next4(m, k)
  /\ p.block = "low" => \E k \in 0 .. W - 1 :
       /\ done = Before(k) + 1 /\ m.rax = WordOf(k) /\ NumberAt(m, 5) /\ Next4(m, k)
  /\ p.block = "endByte" => \E k \in 0 .. W - 1 :
       /\ done = Before(k) + 2 /\ NumberAt(m, 5) /\ Next4(m, k)
  /\ p.block = "PrintFourBits" => \E k \in 0 .. W - 1 :
       /\ NumberAt(m, 5) /\ Next4(m, k)
       /\ \/ HighHalf(m, k, done) /\ m.rax = WordOf(k) /\ m.rdi = WordOf(k) \div 16
          \/ LowHalf(m, k, done) /\ m.rdi = WordOf(k) % 16
  /\ p.block = "endFourBits" => \E k \in 0 .. W - 1 :
       /\ NumberAt(m, 5) /\ Next4(m, k)
       /\ \/ HighHalf(m, k, done - 1) /\ Stored(m, EntryRsp - 7 * W, WordOf(k))
          \/ LowHalf(m, k, done - 1)
  /\ p.block = "newline" => done = 2 + 2 * W
  /\ p.block = "Syswrite" =>
       done = 2 + 2 * W /\ m.rdi = EntryRsp - 3 * W - 1 /\ m.mem[m.rdi] = 10
  /\ p.block \in {"endSyswrite", "epilogue", "caller"} => done = 3 + 2 * W

(* The bytes from an address up are to be handed over next.                *)
Due(m, address, count) == \A i \in 1 .. count : m.mem[address + i - 1] = Expected[Len(out) + i]

SpellInv ==
  /\ start.rdi \in Words
  /\ IsSequence(out) /\ \A i \in 1 .. Len(out) : out[i].byte = Expected[i]
  /\ pc.block = "kernel" => \E block \in BehindKernel :
       /\ machine.rcx = Code(block, 0) /\ machine.rdx \in Nat
       /\ Stage(machine, At(block, 0), Len(out) + machine.rdx)
       /\ Due(machine, machine.rsi, machine.rdx)
  /\ pc.block # "kernel" => Stage(machine, pc, Len(out))

LEMMA WordOfIs ==
  ASSUME start.rdi \in Words, NEW k \in 0 .. W - 1
  PROVE  WordOf(k) \in 0 .. 255 /\ WordOf(k) \in Words /\ start.rdi \in Nat
<1>1. start.rdi \in Nat /\ k \in 0 .. 7
  BY WordSize, Sizes DEF Words
<1>2. WordOf(k) \in 0 .. 255
  BY <1>1, Nibbles
<1>. QED
  BY <1>1, <1>2, WordSize DEF Words

LEMMA Kept ==
  ASSUME NEW m, NEW t, Keeps(m, t), m.rsp \in Int, NEW j \in 4 .. 7,
         m.rsp <= EntryRsp - j * W, NEW word, Stored(m, EntryRsp - j * W, word)
  PROVE  Stored(t, EntryRsp - j * W, word)
<1>. DEFINE address == EntryRsp - j * W
<1>1. address \in Nat /\ address + W <= StackTop /\ address >= m.rsp
  BY Sizes
<1>. HIDE DEF address
<1>2. Stored(m, address, word) => Stored(t, address, word)
  BY <1>1, StoredOn
<1>. QED
  BY <1>2 DEF address

LEMMA SameStart ==
  ASSUME UNCHANGED start
  PROVE  /\ Expected' = Expected
         /\ \A m, p, done : Stage(m, p, done) => Stage(m, p, done)'
<1>1. Expected' = Expected
  BY DEF Expected, Nibble
<1>. QED
  BY <1>1 DEF Stage, NumberAt, HighHalf, LowHalf, WordOf

LEMMA GoesOn ==
  ASSUME SpellInv, UNCHANGED <<out, start>>, pc'.block # "kernel",
         Stage(machine', pc', Len(out))
  PROVE  SpellInv'
BY SameStart DEF SpellInv, IsSequence

LEMMA EntersKernel ==
  ASSUME SpellInv, UNCHANGED <<out, start>>, pc' = At("kernel", 0), NEW block \in BehindKernel,
         machine'.rcx = Code(block, 0), machine'.rdx \in Nat,
         Stage(machine', At(block, 0), Len(out) + machine'.rdx),
         Due(machine', machine'.rsi, machine'.rdx)
  PROVE  SpellInv'
<1>1. pc'.block = "kernel"
  BY DEF At
<1>. QED
  BY <1>1, SameStart DEF SpellInv, IsSequence, Due

LEMMA KernelSpells == StackInv /\ SpellInv /\ Kernel => SpellInv'
<1>. SUFFICES ASSUME StackInv, SpellInv, Kernel PROVE SpellInv'
  OBVIOUS
<1>1. PICK block \in BehindKernel :
        /\ machine.rcx = Code(block, 0) /\ machine.rdx \in Nat
        /\ Stage(machine, At(block, 0), Len(out) + machine.rdx)
        /\ Due(machine, machine.rsi, machine.rdx)
  BY DEF SpellInv, Kernel
<1>2. PICK n \in -1 .. machine.rdx :
        /\ out' = out \o [i \in 1 .. machine.rdx |->
                           [byte |-> machine.mem[machine.rsi + i - 1], taken |-> i <= n]]
        /\ machine' = [machine EXCEPT !.rax = Unsigned(n)]
  BY DEF Kernel
<1>. DEFINE e == [i \in 1 .. machine.rdx |->
                    [byte |-> machine.mem[machine.rsi + i - 1], taken |-> i <= n]]
<1>3. /\ IsSequence(e) /\ Len(e) = machine.rdx
      /\ \A i \in 1 .. machine.rdx : e[i].byte = machine.mem[machine.rsi + i - 1]
  <2>. DEFINE S == {[byte |-> machine.mem[machine.rsi + i - 1], taken |-> i <= n] :
                      i \in 1 .. machine.rdx}
  <2>1. /\ e \in [1 .. machine.rdx -> S]
        /\ \A i \in 1 .. machine.rdx : e[i].byte = machine.mem[machine.rsi + i - 1]
    OBVIOUS
  <2>. HIDE DEF e, S
  <2>2. e \in Seq(S) /\ Len(e) = machine.rdx
    BY <1>1, <2>1
  <2>. QED
    BY <2>1, <2>2 DEF IsSequence
<1>4. out' = out \o e
  BY <1>2
<1>. HIDE DEF e
<1>5. IsSequence(out) /\ \A i \in 1 .. Len(out) : out[i].byte = Expected[i]
  BY DEF SpellInv
<1>6. /\ IsSequence(out') /\ Len(out) \in Nat /\ Len(out') = Len(out) + Len(e)
      /\ \A i \in 1 .. Len(out) : out'[i] = out[i]
      /\ \A i \in 1 .. Len(e) : out'[Len(out) + i] = e[i]
  <2>1. IsSequence(out) /\ IsSequence(e)
    BY <1>3, <1>5
  <2>. QED
    BY <1>4, <2>1, Joined
<1>7. UNCHANGED start /\ pc' = At(block, 0) /\ pc'.block = block
  <2>1. block \in ReturnPoints
    BY DEF BehindKernel, ReturnPoints
  <2>2. Target(Code(block, 0)) = At(block, 0)
    BY <2>1, CodeIs
  <2>. QED
    BY <1>1, <2>2 DEF Kernel, At
<1>8. Len(out') = Len(out) + machine.rdx
  BY <1>3, <1>6
<1>9. \A i \in 1 .. Len(out') : out'[i].byte = Expected[i]
  <2>1. \A i \in 1 .. Len(out) : out'[i].byte = Expected[i]
    BY <1>5, <1>6
  <2>2. \A i \in 1 .. machine.rdx : out'[Len(out) + i].byte = Expected[Len(out) + i]
    BY <1>1, <1>3, <1>6 DEF Due
  <2>3. ASSUME NEW i \in 1 .. Len(out'), i \notin 1 .. Len(out)
        PROVE  out'[i].byte = Expected[i]
    <3>1. i - Len(out) \in 1 .. machine.rdx /\ Len(out) + (i - Len(out)) = i
      BY <1>1, <1>6, <1>8, <2>3
    <3>. QED
      BY <2>2, <3>1
  <2>. QED
    BY <2>1, <2>3
<1>10. Stage(machine', At(block, 0), Len(out) + machine.rdx)
  <2>1. machine'.mem = machine.mem
    BY <1>2 DEF StackInv, IsMachine, Names
  <2>2. At(block, 0).block = block
    BY DEF At
  <2>3. block \in {"bytes", "endFourBits", "endSyswrite"}
    BY DEF BehindKernel
  <2>. QED
    BY <1>1, <2>1, <2>2, <2>3 DEF Stage, NumberAt, Next4, HighHalf, LowHalf, Stored
<1>11. pc'.block # "kernel"
  BY <1>7 DEF BehindKernel
<1>. QED
  BY <1>6, <1>7, <1>8, <1>9, <1>10, <1>11, SameStart DEF SpellInv

LEMMA PrintInt64Spells == StackInv /\ SpellInv /\ PrintInt64 => SpellInv'
<1>. SUFFICES ASSUME StackInv, SpellInv, PrintInt64 PROVE SpellInv'
  OBVIOUS
<1>1. Len(out) = 0 /\ start.rdi \in Nat
  BY WordSize DEF SpellInv, Stage, PrintInt64, Words
<1>2. UNCHANGED <<out, start>> /\ pc' = At("kernel", 0)
  BY DEF PrintInt64, SysWrite, Run
<1>3. /\ Stored(machine', EntryRsp - 4 * W, start.rdi)
      /\ machine'.mem[machine'.rsi] = 48 /\ machine'.mem[machine'.rsi + 1] = 120
      /\ machine'.rdx = 2 /\ machine'.rcx = Code("bytes", 0) /\ machine'.rsi \in Int
  BY PrintInt64Stack
<1>4. Stage(machine', At("bytes", 0), Len(out) + machine'.rdx)
  <2>1. At("bytes", 0).block = "bytes" /\ Len(out) + machine'.rdx = 2
    BY <1>1, <1>3 DEF At
  <2>. QED
    BY <1>3, <2>1 DEF Stage, NumberAt
<1>5. Due(machine', machine'.rsi, machine'.rdx)
  <2>1. Expected[1] = 48 /\ Expected[2] = 120
    BY <1>1, ExpectedIs
  <2>2. \A i \in 1 .. 2 : machine'.mem[machine'.rsi + i - 1] = Expected[i] /\ 0 + i = i
    BY <1>3, <2>1
  <2>. QED
    BY <1>1, <1>3, <2>2 DEF Due
<1>6. "bytes" \in BehindKernel /\ machine'.rdx \in Nat
  BY <1>3 DEF BehindKernel
<1>. QED
  BY <1>2, <1>3, <1>4, <1>5, <1>6, EntersKernel

LEMMA PopArgumentSpells == StackInv /\ SpellInv /\ PopArgument => SpellInv'
<1>. SUFFICES ASSUME StackInv, SpellInv, PopArgument PROVE SpellInv'
  OBVIOUS
<1>1. Len(out) = 2 /\ NumberAt(machine, 4) /\ start.rdi \in Words
  BY DEF SpellInv, Stage, PopArgument
<1>2. UNCHANGED <<out, start>> /\ pc' = At("copy", W - 1)
  BY DEF PopArgument, Run
<1>3. machine'.rax = start.rdi
  <2>1. EntryRsp - 4 * W \in Int
    BY Sizes
  <2>2. WordAt(machine, EntryRsp - 4 * W) = start.rdi
    BY <1>1, <2>1, StoredIsRead DEF NumberAt
  <2>. QED
    BY <2>2, PopArgumentStack
<1>4. pc'.block = "copy" /\ Before(pc'.k) = 2
  BY <1>2, Sizes DEF At, Before
<1>5. Stage(machine', pc', Len(out))
  BY <1>1, <1>3, <1>4 DEF Stage
<1>. QED
  BY <1>2, <1>4, <1>5, GoesOn

LEMMA PrintByteAtOffsetSpells == StackInv /\ SpellInv /\ PrintByteAtOffset => SpellInv'
<1>. SUFFICES ASSUME StackInv, SpellInv, PrintByteAtOffset PROVE SpellInv'
  OBVIOUS
<1>1. Len(out) = Before(pc.k) /\ machine.rax = start.rdi /\ pc.k \in 0 .. W - 1
  BY Places DEF SpellInv, Stage, PrintByteAtOffset
<1>2. UNCHANGED <<out, start>> /\ pc' = At("PrintByte", 0)
  BY DEF PrintByteAtOffset, Call, Run
<1>3. Next4(machine', pc.k) /\ machine'.rax = start.rdi /\ machine'.rdi = WordOf(pc.k)
  BY <1>1, PrintByteAtOffsetStack DEF Next4, WordOf
<1>4. pc'.block = "PrintByte"
  BY <1>2 DEF At
<1>5. Stage(machine', pc', Len(out))
  BY <1>1, <1>3, <1>4 DEF Stage
<1>. QED
  BY <1>2, <1>4, <1>5, GoesOn

LEMMA PrintByteSpells == StackInv /\ SpellInv /\ PrintByte => SpellInv'
<1>. SUFFICES ASSUME StackInv, SpellInv, PrintByte PROVE SpellInv'
  OBVIOUS
<1>1. PICK k \in 0 .. W - 1 :
        /\ Len(out) = Before(k) /\ machine.rax = start.rdi /\ machine.rdi = WordOf(k)
        /\ Next4(machine, k)
  BY DEF SpellInv, Stage, PrintByte
<1>2. UNCHANGED <<out, start>> /\ pc' = At("PrintFourBits", 0)
  BY DEF PrintByte, Call, Run
<1>3. /\ Keeps(machine, machine') /\ NumberAt(machine', 5)
      /\ Stored(machine', EntryRsp - 6 * W, Code("low", 0))
      /\ machine'.rax = WordOf(k) /\ machine'.rdi = WordOf(k) \div 16
  BY <1>1, PrintByteStack DEF NumberAt
<1>4. Next4(machine', k)
  <2>1. machine.rsp \in Int /\ machine.rsp <= EntryRsp - 4 * W
    <3>1. machine.rsp = EntryRsp - 4 * W
      BY Places, Depths DEF PrintByte, Layout
    <3>. QED
      BY <3>1, Sizes
  <2>. QED
    BY <1>1, <1>3, <2>1, Kept DEF Next4
<1>5. pc'.block = "PrintFourBits"
  BY <1>2 DEF At
<1>6. Stage(machine', pc', Len(out))
  BY <1>1, <1>3, <1>4, <1>5 DEF Stage, HighHalf
<1>. QED
  BY <1>2, <1>5, <1>6, GoesOn

LEMMA PrintLowBitsSpells == StackInv /\ SpellInv /\ PrintLowBits => SpellInv'
<1>. SUFFICES ASSUME StackInv, SpellInv, PrintLowBits PROVE SpellInv'
  OBVIOUS
<1>1. PICK k \in 0 .. W - 1 :
        /\ Len(out) = Before(k) + 1 /\ machine.rax = WordOf(k)
        /\ NumberAt(machine, 5) /\ Next4(machine, k)
  BY DEF SpellInv, Stage, PrintLowBits
<1>2. UNCHANGED <<out, start>> /\ pc' = At("PrintFourBits", 0)
  BY DEF PrintLowBits, Call, Run
<1>3. /\ Keeps(machine, machine') /\ Stored(machine', EntryRsp - 6 * W, Code("endByte", 0))
      /\ machine'.rdi = WordOf(k) % 16
  BY <1>1, PrintLowBitsStack
<1>4. NumberAt(machine', 5) /\ Next4(machine', k)
  <2>1. /\ machine.rsp \in Int /\ machine.rsp <= EntryRsp - 4 * W
        /\ machine.rsp <= EntryRsp - 5 * W
    <3>1. machine.rsp = EntryRsp - 5 * W
      BY Places, Depths DEF PrintLowBits, Layout
    <3>. QED
      BY <3>1, Sizes
  <2>. QED
    BY <1>1, <1>3, <2>1, Kept DEF Next4, NumberAt
<1>5. pc'.block = "PrintFourBits"
  BY <1>2 DEF At
<1>6. Stage(machine', pc', Len(out))
  BY <1>1, <1>3, <1>4, <1>5 DEF Stage, LowHalf
<1>. QED
  BY <1>2, <1>5, <1>6, GoesOn

LEMMA PrintByteReturnsSpells == StackInv /\ SpellInv /\ PrintByteReturns => SpellInv'
<1>. SUFFICES ASSUME StackInv, SpellInv, PrintByteReturns PROVE SpellInv'
  OBVIOUS
<1>1. PICK k \in 0 .. W - 1 :
        /\ Len(out) = Before(k) + 2 /\ NumberAt(machine, 5) /\ Next4(machine, k)
  BY DEF SpellInv, Stage, PrintByteReturns
<1>2. UNCHANGED <<out, start>>
  BY DEF PrintByteReturns, Ret, Run
<1>3. machine'.rax = start.rdi
  <2>1. EntryRsp - 5 * W \in Int /\ start.rdi \in Words
    BY Sizes DEF SpellInv
  <2>2. WordAt(machine, EntryRsp - 5 * W) = start.rdi
    BY <1>1, <2>1, StoredIsRead DEF NumberAt
  <2>. QED
    BY <2>2, PrintByteReturnsStack
<1>4. pc' = After(k)
  <2>1. /\ Code(After(k).block, After(k).k) \in Words
        /\ Target(Code(After(k).block, After(k).k)) = After(k)
    BY AfterIs, CodeIs
  <2>. QED
    BY <1>1, <2>1, PrintByteReturnsStack DEF Next4
<1>5. pc'.block # "kernel" /\ Stage(machine', pc', Len(out))
  <2>1. CASE k = 0
    <3>1. pc'.block = "newline" /\ Len(out) = 2 + 2 * W
      BY <1>1, <1>4, <2>1, AfterIs, Sizes DEF Before
    <3>. QED
      BY <3>1 DEF Stage
  <2>2. CASE k # 0
    <3>1. pc'.block = "copy" /\ pc'.k = k - 1
      BY <1>4, <2>2, AfterIs
    <3>2. Len(out) = Before(k - 1)
      BY <1>1, Sizes DEF Before
    <3>. QED
      BY <1>3, <3>1, <3>2 DEF Stage
  <2>. QED
    BY <2>1, <2>2
<1>. QED
  BY <1>2, <1>5, GoesOn

LEMMA PrintFourBitsSpells == StackInv /\ SpellInv /\ PrintFourBits => SpellInv'
<1>. SUFFICES ASSUME StackInv, SpellInv, PrintFourBits PROVE SpellInv'
  OBVIOUS
<1>. DEFINE n == Len(out)
<1>1. PICK k \in 0 .. W - 1 :
        /\ NumberAt(machine, 5) /\ Next4(machine, k)
        /\ \/ /\ HighHalf(machine, k, n) /\ machine.rax = WordOf(k)
              /\ machine.rdi = WordOf(k) \div 16
           \/ LowHalf(machine, k, n) /\ machine.rdi = WordOf(k) % 16
  BY DEF SpellInv, Stage, PrintFourBits
<1>2. UNCHANGED <<out, start>> /\ pc' = At("kernel", 0) /\ start.rdi \in Words
  BY DEF PrintFourBits, SysWrite, Run, SpellInv
<1>3. /\ Keeps(machine, machine') /\ Stored(machine', EntryRsp - 7 * W, machine.rax)
      /\ machine'.mem[machine'.rsi] = HexDigit(machine.rdi) % 256 /\ machine'.rdx = 1
      /\ machine'.rcx = Code("endFourBits", 0) /\ machine'.rsi \in Int
  BY PrintFourBitsStack
<1>4. /\ NumberAt(machine', 5) /\ Next4(machine', k)
      /\ \A word : Stored(machine, EntryRsp - 6 * W, word)
                   => Stored(machine', EntryRsp - 6 * W, word)
  <2>1. /\ machine.rsp \in Int /\ machine.rsp <= EntryRsp - 4 * W
        /\ machine.rsp <= EntryRsp - 5 * W /\ machine.rsp <= EntryRsp - 6 * W
    <3>1. machine.rsp = EntryRsp - 6 * W
      BY Places, Depths DEF PrintFourBits, Layout
    <3>. QED
      BY <3>1, Sizes
  <2>. QED
    BY <1>1, <1>3, <2>1, Kept DEF Next4, NumberAt
<1>5. n \in Nat
  BY Joined DEF SpellInv
<1>. HIDE DEF n
<1>6. Stage(machine', At("endFourBits", 0), n + machine'.rdx)
  <2>1. At("endFourBits", 0).block = "endFourBits" /\ (n + machine'.rdx) - 1 = n
    BY <1>3, <1>5 DEF At
  <2>2. \/ HighHalf(machine', k, n) /\ Stored(machine', EntryRsp - 7 * W, WordOf(k))
        \/ LowHalf(machine', k, n)
    BY <1>1, <1>3, <1>4 DEF HighHalf, LowHalf
  <2>. QED
    BY <1>4, <2>1, <2>2 DEF Stage
<1>7. Due(machine', machine'.rsi, machine'.rdx)
  <2>1. Expected[n + 1] = HexDigit(machine.rdi) % 256
    <3>1. start.rdi \in Nat
      BY <1>2, WordOfIs
    <3>2. Expected[Before(k) + 1] = HexDigit(WordOf(k) \div 16) % 256
          /\ Expected[Before(k) + 2] = HexDigit(WordOf(k) % 16) % 256
      BY <3>1, ExpectedIs
    <3>3. (Before(k) + 1) + 1 = Before(k) + 2
      BY Sizes DEF Before
    <3>. QED
      BY <1>1, <3>2, <3>3 DEF HighHalf, LowHalf
  <2>2. \A i \in 1 .. 1 : i = 1 /\ machine'.rsi + i - 1 = machine'.rsi
    BY <1>3
  <2>. QED
    BY <1>3, <2>1, <2>2 DEF Due, n
<1>8. "endFourBits" \in BehindKernel /\ machine'.rdx \in Nat
  BY <1>3 DEF BehindKernel
<1>. QED
  BY <1>2, <1>3, <1>6, <1>7, <1>8, EntersKernel DEF n

LEMMA PrintFourBitsReturnsSpells == StackInv /\ SpellInv /\ PrintFourBitsReturns => SpellInv'
<1>. SUFFICES ASSUME StackInv, SpellInv, PrintFourBitsReturns PROVE SpellInv'
  OBVIOUS
<1>. DEFINE n == Len(out)
<1>1. PICK k \in 0 .. W - 1 :
        /\ NumberAt(machine, 5) /\ Next4(machine, k)
        /\ \/ HighHalf(machine, k, n - 1) /\ Stored(machine, EntryRsp - 7 * W, WordOf(k))
           \/ LowHalf(machine, k, n - 1)
  BY DEF SpellInv, Stage, PrintFourBitsReturns
<1>2. UNCHANGED <<out, start>> /\ start.rdi \in Words
  BY DEF PrintFourBitsReturns, Ret, Run, SpellInv
<1>3. /\ machine'.mem = machine.mem /\ machine'.rax = WordAt(machine, EntryRsp - 7 * W)
      /\ \A word \in Words : Stored(machine, EntryRsp - 6 * W, word) => pc' = Target(word)
  BY PrintFourBitsReturnsStack
<1>4. NumberAt(machine', 5) /\ Next4(machine', k)
  BY <1>1, <1>3 DEF NumberAt, Next4, Stored
<1>5. n \in Nat
  BY Joined DEF SpellInv
<1>6. /\ Code("low", 0) \in Words /\ Target(Code("low", 0)) = At("low", 0)
      /\ Code("endByte", 0) \in Words /\ Target(Code("endByte", 0)) = At("endByte", 0)
  <2>1. "low" \in ReturnPoints /\ "endByte" \in ReturnPoints
    BY DEF ReturnPoints
  <2>. QED
    BY <2>1, CodeIs
<1>. HIDE DEF n
<1>7. CASE HighHalf(machine, k, n - 1) /\ Stored(machine, EntryRsp - 7 * W, WordOf(k))
  <2>1. n = Before(k) + 1
    BY <1>5, <1>7, Sizes DEF HighHalf, Before
  <2>2. machine'.rax = WordOf(k)
    <3>1. EntryRsp - 7 * W \in Int
      BY Sizes
    <3>. QED
      BY <1>2, <1>3, <1>7, <3>1, WordOfIs, StoredIsRead
  <2>3. pc'.block = "low"
    BY <1>3, <1>6, <1>7 DEF HighHalf, At
  <2>4. Stage(machine', pc', n)
    BY <1>4, <2>1, <2>2, <2>3 DEF Stage
  <2>. QED
    BY <1>2, <2>3, <2>4, GoesOn DEF n
<1>8. CASE LowHalf(machine, k, n - 1)
  <2>1. n = Before(k) + 2
    BY <1>5, <1>8, Sizes DEF LowHalf, Before
  <2>2. pc'.block = "endByte"
    BY <1>3, <1>6, <1>8 DEF LowHalf, At
  <2>3. Stage(machine', pc', n)
    BY <1>4, <2>1, <2>2 DEF Stage
  <2>. QED
    BY <1>2, <2>2, <2>3, GoesOn DEF n
<1>. QED
  BY <1>1, <1>7, <1>8

LEMMA PrintNewlineSpells == StackInv /\ SpellInv /\ PrintNewline => SpellInv'
<1>. SUFFICES ASSUME StackInv, SpellInv, PrintNewline PROVE SpellInv'
  OBVIOUS
<1>1. Len(out) = 2 + 2 * W
  BY DEF SpellInv, Stage, PrintNewline
<1>2. UNCHANGED <<out, start>> /\ pc' = At("Syswrite", 0)
  BY DEF PrintNewline, Call, Run
<1>3. machine'.rdi = EntryRsp - 3 * W - 1 /\ machine'.mem[machine'.rdi] = 10
  BY PrintNewlineStack
<1>4. pc'.block = "Syswrite"
  BY <1>2 DEF At
<1>5. Stage(machine', pc', Len(out))
  BY <1>1, <1>3, <1>4 DEF Stage
<1>. QED
  BY <1>2, <1>4, <1>5, GoesOn

LEMMA SyswriteSpells == StackInv /\ SpellInv /\ Syswrite => SpellInv'
<1>. SUFFICES ASSUME StackInv, SpellInv, Syswrite PROVE SpellInv'
  OBVIOUS
<1>1. /\ Len(out) = 2 + 2 * W /\ machine.rdi = EntryRsp - 3 * W - 1
      /\ machine.mem[machine.rdi] = 10
  BY DEF SpellInv, Stage, Syswrite
<1>2. UNCHANGED <<out, start>> /\ pc' = At("kernel", 0) /\ start.rdi \in Words
  BY DEF Syswrite, SysWrite, Run, SpellInv
<1>3. /\ machine'.mem = machine.mem /\ machine'.rcx = Code("endSyswrite", 0)
      /\ machine'.rsi = machine.rdi /\ machine'.rdx = 1
  BY SyswriteStack
<1>4. Stage(machine', At("endSyswrite", 0), Len(out) + machine'.rdx)
  <2>1. /\ At("endSyswrite", 0).block = "endSyswrite"
        /\ Len(out) + machine'.rdx = 3 + 2 * W
    BY <1>1, <1>3, Sizes DEF At
  <2>. QED
    BY <2>1 DEF Stage
<1>5. Due(machine', machine'.rsi, machine'.rdx)
  <2>1. Expected[3 + 2 * W] = 10
    <3>1. start.rdi \in Nat
      BY <1>2, WordSize DEF Words
    <3>. QED
      BY <3>1, ExpectedIs
  <2>2. machine'.mem[machine'.rsi] = 10 /\ machine'.rsi \in Int
    BY <1>1, <1>3, Sizes
  <2>3. \A i \in 1 .. 1 : machine'.rsi + i - 1 = machine'.rsi /\ Len(out) + i = 3 + 2 * W
    BY <1>1, <2>2, Sizes
  <2>. QED
    BY <1>3, <2>1, <2>2, <2>3 DEF Due
<1>6. "endSyswrite" \in BehindKernel /\ machine'.rdx \in Nat
  BY <1>3 DEF BehindKernel
<1>. QED
  BY <1>2, <1>3, <1>4, <1>5, <1>6, EntersKernel

LEMMA LastReturnsSpell ==
  StackInv /\ SpellInv /\ (SyswriteReturns \/ PrintInt64Returns) => SpellInv'
<1>. SUFFICES ASSUME StackInv, SpellInv, SyswriteReturns \/ PrintInt64Returns PROVE SpellInv'
  OBVIOUS
<1>1. Len(out) = 3 + 2 * W
  BY DEF SpellInv, Stage, SyswriteReturns, PrintInt64Returns
<1>2. UNCHANGED <<out, start>>
  BY DEF SyswriteReturns, PrintInt64Returns, Ret, Run
<1>3. pc' \in {At("epilogue", 0), At("caller", 0)}
  BY SyswriteReturnsStack, PrintInt64ReturnsStack
<1>4. pc'.block \in {"epilogue", "caller"}
  BY <1>3 DEF At
<1>5. Stage(machine', pc', Len(out))
  BY <1>1, <1>4 DEF Stage
<1>. QED
  BY <1>2, <1>4, <1>5, GoesOn

LEMMA SpellInit == AsmInit => SpellInv
<1>. SUFFICES ASSUME AsmInit PROVE SpellInv
  OBVIOUS
<1>1. start.rdi \in Words
  BY ValueAssumption DEF AsmInit
<1>2. IsSequence(out) /\ Len(out) = 0
  BY NoLocals DEF AsmInit
<1>3. pc.block = "PrintInt64"
  BY DEF AsmInit, At
<1>. QED
  BY <1>1, <1>2, <1>3 DEF SpellInv, Stage

LEMMA SpellStep == StackInv /\ SpellInv /\ [AsmStep \/ Returned]_asmvars => SpellInv'
<1>. SUFFICES ASSUME StackInv, SpellInv, [AsmStep \/ Returned]_asmvars PROVE SpellInv'
  OBVIOUS
<1>1. CASE AsmStep
  BY <1>1, KernelSpells, PrintInt64Spells, PopArgumentSpells, PrintByteAtOffsetSpells,
     PrintNewlineSpells, LastReturnsSpell, PrintByteSpells, PrintLowBitsSpells,
     PrintByteReturnsSpells, PrintFourBitsSpells, PrintFourBitsReturnsSpells, SyswriteSpells
     DEF AsmStep
<1>2. CASE UNCHANGED asmvars
  <2>1. UNCHANGED <<machine, pc, out, start>>
    BY <1>2 DEF asmvars
  <2>. QED
    BY <2>1, SameStart DEF SpellInv, Due
<1>. QED
  BY <1>1, <1>2 DEF Returned

(* Nowhere has more been handed over than there is.                        *)
LEMMA StageBound ==
  ASSUME NEW m, NEW p, NEW done \in Int, Stage(m, p, done),
         p.block \in DOMAIN Depth \cup {"PrintInt64", "caller"},
         p.block = "copy" => p.k \in 0 .. W - 1
  PROVE  done <= 3 + 2 * W
<1>1. \A k \in 0 .. W - 1 : Before(k) \in Int /\ Before(k) <= 2 * W
  BY Sizes DEF Before
<1>2. \/ done \in {0, 2, 2 + 2 * W, 3 + 2 * W}
      \/ \E k \in 0 .. W - 1 : done \in {Before(k), Before(k) + 1, Before(k) + 2}
  <2>1. CASE p.block \in {"PrintInt64", "bytes", "newline", "Syswrite", "endSyswrite",
                         "epilogue", "caller"}
    BY <2>1 DEF Stage
  <2>2. CASE p.block \in {"copy", "PrintByte", "low", "endByte"}
    BY <2>2 DEF Stage
  <2>3. CASE p.block = "PrintFourBits"
    BY <2>3 DEF Stage, HighHalf, LowHalf
  <2>4. CASE p.block = "endFourBits"
    <3>1. PICK k \in 0 .. W - 1 : done - 1 = Before(k) \/ done - 1 = Before(k) + 1
      BY <2>4 DEF Stage, HighHalf, LowHalf
    <3>2. done = Before(k) + 1 \/ done = Before(k) + 2
      BY <1>1, <3>1
    <3>. QED
      BY <3>2
  <2>. QED
    BY <2>1, <2>2, <2>3, <2>4, Depths
<1>. QED
  BY <1>1, <1>2, Sizes

LEMMA HandedBound ==
  ASSUME StackInv, SpellInv
  PROVE  Len(out) \in Nat /\ Len(out) <= 3 + 2 * W
<1>1. Len(out) \in Nat
  BY Joined DEF SpellInv
<1>2. CASE pc.block = "kernel"
  <2>1. PICK block \in BehindKernel :
          machine.rdx \in Nat /\ Stage(machine, At(block, 0), Len(out) + machine.rdx)
    BY <1>2 DEF SpellInv
  <2>2. At(block, 0).block \in DOMAIN Depth /\ At(block, 0).block # "copy"
    BY Depths DEF At, BehindKernel
  <2>3. Len(out) + machine.rdx <= 3 + 2 * W
    BY <1>1, <2>1, <2>2, StageBound
  <2>. QED
    BY <1>1, <2>1, <2>3, Sizes
<1>3. CASE pc.block # "kernel"
  BY <1>1, <1>3, Places, StageBound DEF SpellInv
<1>. QED
  BY <1>1, <1>2, <1>3

(* PrintInt64 hands the kernel 0x, the digits of its argument from the     *)
(* highest down and a newline, in this order and nothing else, and all of  *)
(* it when it returns: for every width of a word, every argument and       *)
(* whatever the kernel leaves in rax.                                      *)
THEOREM SpellsCorrect == AsmSpec => []Spells
<1>1. StackInv /\ SpellInv => Spells
  <2>. SUFFICES ASSUME StackInv, SpellInv PROVE Spells
    OBVIOUS
  <2>. DEFINE handed == [i \in DOMAIN out |-> out[i].byte]
              n      == Len(out)
  <2>1. /\ IsSequence(out) /\ start.rdi \in Nat
        /\ \A i \in 1 .. n : out[i].byte = Expected[i]
    BY WordSize DEF SpellInv, Words
  <2>2. IsSequence(Expected) /\ Len(Expected) = 3 + 2 * W
    BY <2>1, ExpectedIs
  <2>3. n \in Nat /\ n <= 3 + 2 * W
    BY HandedBound
  <2>4. PICK T : Expected \in Seq(T)
    BY <2>2 DEF IsSequence
  <2>5. DOMAIN out = 1 .. n
    BY <2>1 DEF IsSequence
  <2>6. DOMAIN handed = 1 .. n /\ \A i \in 1 .. n : handed[i] = Expected[i]
    BY <2>1, <2>5
  <2>7. handed \in Seq(T) /\ Len(handed) = n
    <3>1. \A i \in 1 .. n : Expected[i] \in T
      BY <2>2, <2>3, <2>4, Sizes
    <3>2. handed \in [1 .. n -> T]
      BY <2>1, <2>5, <3>1
    <3>. HIDE DEF handed, n
    <3>. QED
      BY <2>3, <3>2
  <2>. HIDE DEF handed, n
  <2>8. IsPrefix(handed, Expected)
    <3>1. 1 \in 1 .. n + 1 /\ n \in 1 - 1 .. n /\ n <= Len(Expected)
      BY <2>2, <2>3
    <3>2. /\ SubSeq(handed, 1, n) \in Seq(T) /\ Len(SubSeq(handed, 1, n)) = n
          /\ \A i \in 1 .. n : SubSeq(handed, 1, n)[i] = handed[i]
      BY <2>3, <2>7
    <3>3. /\ SubSeq(Expected, 1, n) \in Seq(T) /\ Len(SubSeq(Expected, 1, n)) = n
          /\ \A i \in 1 .. n : SubSeq(Expected, 1, n)[i] = Expected[i]
      BY <2>3, <2>4, <3>1
    <3>4. SubSeq(handed, 1, n) = SubSeq(Expected, 1, n)
      BY <2>6, <3>2, <3>3, SeqEqual
    <3>. QED
      BY <2>7, <3>1, <3>4 DEF IsPrefix
  <2>9. pc.block = "caller" => handed = Expected
    <3>1. pc.block = "caller" => n = 3 + 2 * W
      BY DEF SpellInv, Stage, n
    <3>. QED
      BY <2>2, <2>4, <2>6, <2>7, <3>1, SeqEqual
  <2>. QED
    BY <2>8, <2>9 DEF Spells, handed
<1>. QED
  BY <1>1, StackInit, StackStep, SpellInit, SpellStep, PTL DEF AsmSpec
=============================================================================
