--------------------------- MODULE DecoderProofs ---------------------------
(***************************************************************************)
(* What is proved of the disassembler for every buffer, every opcode table *)
(* and every program of the test: however an instruction is decoded or     *)
(* broken off, instructions tile the buffer, each is as long as its parts, *)
(* the client stops only near the end, every step gets further, and a      *)
(* program of calls is read back as it was asked for exactly when all its  *)
(* calls can be expressed.                                                 *)
(***************************************************************************)
EXTENDS TestCodegen, SequenceTheorems, FiniteSetTheorems, NaturalsInduction,
        WellFoundedInduction, TLAPS

(* The decoder reads buffers, whoever has filled them.                     *)
Buffers == {[kind |-> "memory", bytes |-> q] : q \in Seq(Byte)}

I == INSTANCE InputReaderProofs WITH begin <- m_instructionPointer, Sources <- Buffers

(* What the input layer's lemmas assume of the sources.                    *)
LEMMA SourcesAgain ==
  \A source \in Buffers : source.kind \in {"memory", "stream"} /\ source.bytes \in Seq(I!Byte)
BY DEF Buffers, Byte, I!Byte

InputErrors == {"IF_ERROR_END_OF_INPUT", "IF_ERROR_LENGTH"}
OtherErrors == {"IF_ERROR_INVALID", "IF_ERROR_INVALID_64", "IF_ERROR_OPERAND"}

IsInfo(i) ==
  i = [flags |-> i.flags, data |-> i.data, opcode |-> i.opcode, mnemonic |-> i.mnemonic,
       rex |-> i.rex, eff_rexvex |-> i.eff_rexvex, modrm |-> i.modrm,
       operand_mode |-> i.operand_mode, address_mode |-> i.address_mode, operand |-> i.operand,
       instrAddress |-> i.instrAddress, instrPointer |-> i.instrPointer]

IsPair(s) == s = [input |-> s.input, info |-> s.info] /\ IsInfo(s.info)

(* What the input layer sees of an instruction under way.                  *)
Core(s) == I!PairOf(s.input, s.info.flags \cap InputErrors, s.info.data)

(* An instruction that begins at b, under way without an error but those   *)
(* of the input; and a later state of it.                                  *)
Reading(s, b) ==
  /\ IsPair(s) /\ s.info.flags \cap OtherErrors = {}
  /\ I!PairOK(Core(s), b)

Follows(s, t, b) ==
  /\ Reading(t, b)
  /\ t.info.instrAddress = s.info.instrAddress
  /\ I!Goes(Core(s), Core(t), b)
-----------------------------------------------------------------------------
(***************************************************************************)
(* The decoder changes one field of a pair at a time.                      *)
(***************************************************************************)
LEMMA FlagsReplaced ==
  ASSUME NEW s, IsPair(s), NEW f
  PROVE  LET t == [s EXCEPT !.info.flags = f]
         IN  /\ IsPair(t) /\ t.input = s.input /\ t.info.flags = f
             /\ t.info.data = s.info.data /\ t.info.instrAddress = s.info.instrAddress
             /\ t.info.opcode = s.info.opcode /\ t.info.operand = s.info.operand
             /\ t.info.operand_mode = s.info.operand_mode
<1>. DEFINE i == [s.info EXCEPT !.flags = f]
<1>1. /\ IsInfo(i) /\ i.flags = f /\ i.data = s.info.data
      /\ i.instrAddress = s.info.instrAddress
      /\ i.opcode = s.info.opcode /\ i.operand = s.info.operand
      /\ i.operand_mode = s.info.operand_mode
  BY DEF IsPair, IsInfo
<1>. HIDE DEF i
<1>2. [s EXCEPT !.info = i] = [input |-> s.input, info |-> i]
  BY DEF IsPair
<1>3. [s EXCEPT !.info.flags = f] = [s EXCEPT !.info = i]
  BY DEF i
<1>. QED
  BY <1>1, <1>2, <1>3 DEF IsPair

LEMMA OpcodeReplaced ==
  ASSUME NEW s, IsPair(s), NEW v
  PROVE  LET t == [s EXCEPT !.info.opcode = v]
         IN  /\ IsPair(t) /\ t.input = s.input /\ t.info.flags = s.info.flags
             /\ t.info.data = s.info.data /\ t.info.instrAddress = s.info.instrAddress
             /\ t.info.operand = s.info.operand /\ t.info.opcode = v
             /\ t.info.operand_mode = s.info.operand_mode
<1>. DEFINE i == [s.info EXCEPT !.opcode = v]
<1>1. /\ IsInfo(i) /\ i.flags = s.info.flags /\ i.data = s.info.data
      /\ i.instrAddress = s.info.instrAddress
      /\ i.operand = s.info.operand /\ i.operand_mode = s.info.operand_mode /\ i.opcode = v
  BY DEF IsPair, IsInfo
<1>. HIDE DEF i
<1>2. [s EXCEPT !.info = i] = [input |-> s.input, info |-> i]
  BY DEF IsPair
<1>3. [s EXCEPT !.info.opcode = v] = [s EXCEPT !.info = i]
  BY DEF i
<1>. QED
  BY <1>1, <1>2, <1>3 DEF IsPair

LEMMA ModrmReplaced ==
  ASSUME NEW s, IsPair(s), NEW v
  PROVE  LET t == [s EXCEPT !.info.modrm = v]
         IN  /\ IsPair(t) /\ t.input = s.input /\ t.info.flags = s.info.flags
             /\ t.info.data = s.info.data /\ t.info.instrAddress = s.info.instrAddress
             /\ t.info.opcode = s.info.opcode /\ t.info.operand = s.info.operand
             /\ t.info.operand_mode = s.info.operand_mode
<1>. DEFINE i == [s.info EXCEPT !.modrm = v]
<1>1. /\ IsInfo(i) /\ i.flags = s.info.flags /\ i.data = s.info.data
      /\ i.instrAddress = s.info.instrAddress
      /\ i.opcode = s.info.opcode /\ i.operand = s.info.operand
      /\ i.operand_mode = s.info.operand_mode
  BY DEF IsPair, IsInfo
<1>. HIDE DEF i
<1>2. [s EXCEPT !.info = i] = [input |-> s.input, info |-> i]
  BY DEF IsPair
<1>3. [s EXCEPT !.info.modrm = v] = [s EXCEPT !.info = i]
  BY DEF i
<1>. QED
  BY <1>1, <1>2, <1>3 DEF IsPair

LEMMA OperandReplaced ==
  ASSUME NEW s, IsPair(s), NEW v
  PROVE  LET t == [s EXCEPT !.info.operand = v]
         IN  /\ IsPair(t) /\ t.input = s.input /\ t.info.flags = s.info.flags
             /\ t.info.data = s.info.data /\ t.info.instrAddress = s.info.instrAddress
             /\ t.info.opcode = s.info.opcode /\ t.info.operand = v
             /\ t.info.operand_mode = s.info.operand_mode
<1>. DEFINE i == [s.info EXCEPT !.operand = v]
<1>1. /\ IsInfo(i) /\ i.flags = s.info.flags /\ i.data = s.info.data
      /\ i.instrAddress = s.info.instrAddress
      /\ i.opcode = s.info.opcode /\ i.operand_mode = s.info.operand_mode /\ i.operand = v
  BY DEF IsPair, IsInfo
<1>. HIDE DEF i
<1>2. [s EXCEPT !.info = i] = [input |-> s.input, info |-> i]
  BY DEF IsPair
<1>3. [s EXCEPT !.info.operand = v] = [s EXCEPT !.info = i]
  BY DEF i
<1>. QED
  BY <1>1, <1>2, <1>3 DEF IsPair

LEMMA RexReplaced ==
  ASSUME NEW s, IsPair(s), NEW v
  PROVE  LET t == [s EXCEPT !.info.rex = v]
         IN  /\ IsPair(t) /\ t.input = s.input /\ t.info.flags = s.info.flags
             /\ t.info.data = s.info.data /\ t.info.instrAddress = s.info.instrAddress
             /\ t.info.opcode = s.info.opcode /\ t.info.operand = s.info.operand
             /\ t.info.operand_mode = s.info.operand_mode
<1>. DEFINE i == [s.info EXCEPT !.rex = v]
<1>1. /\ IsInfo(i) /\ i.flags = s.info.flags /\ i.data = s.info.data
      /\ i.instrAddress = s.info.instrAddress
      /\ i.opcode = s.info.opcode /\ i.operand = s.info.operand
      /\ i.operand_mode = s.info.operand_mode
  BY DEF IsPair, IsInfo
<1>. HIDE DEF i
<1>2. [s EXCEPT !.info = i] = [input |-> s.input, info |-> i]
  BY DEF IsPair
<1>3. [s EXCEPT !.info.rex = v] = [s EXCEPT !.info = i]
  BY DEF i
<1>. QED
  BY <1>1, <1>2, <1>3 DEF IsPair

LEMMA InputReplaced ==
  ASSUME NEW s, IsPair(s), NEW in
  PROVE  LET t == [s EXCEPT !.input = in]
         IN  IsPair(t) /\ t.input = in /\ t.info = s.info
BY DEF IsPair

LEMMA Taken ==
  ASSUME NEW s, IsPair(s), NEW in
  PROVE  LET t == Take(s, in)
         IN  /\ IsPair(t) /\ t.input = in /\ t.info.flags = s.info.flags
             /\ t.info.data = Append(s.info.data, in.current)
             /\ t.info.instrAddress = s.info.instrAddress
             /\ t.info.opcode = s.info.opcode /\ t.info.operand = s.info.operand
             /\ t.info.operand_mode = s.info.operand_mode
<1>. DEFINE d == Append(s.info.data, in.current)
            i == [s.info EXCEPT !.data = d]
            t == [s EXCEPT !.input = in]
<1>1. /\ IsInfo(i) /\ i.flags = s.info.flags /\ i.data = d
      /\ i.instrAddress = s.info.instrAddress
      /\ i.opcode = s.info.opcode /\ i.operand = s.info.operand
      /\ i.operand_mode = s.info.operand_mode
  BY SMTT(60) DEF IsPair, IsInfo
<1>2. t = [input |-> in, info |-> s.info]
  BY DEF IsPair
<1>3. Take(s, in) = [t EXCEPT !.info = i]
  BY <1>2 DEF Take
<1>. HIDE DEF i, t
<1>4. [t EXCEPT !.info = i] = [input |-> in, info |-> i]
  BY <1>2
<1>. QED
  BY <1>1, <1>3, <1>4 DEF IsPair
-----------------------------------------------------------------------------
(***************************************************************************)
(* What the input layer makes of a pair it makes of what it sees of it.    *)
(***************************************************************************)
LEMMA CoreFields ==
  ASSUME NEW s
  PROVE  /\ Core(s).input = s.input /\ Core(s).info.data = s.info.data
         /\ Core(s).info.flags = s.info.flags \cap InputErrors
BY DEF Core, I!PairOf

LEMMA RaiseCore ==
  ASSUME NEW s, IsPair(s), NEW flag \in InputErrors
  PROVE  LET t == Raise(s, flag)
         IN  /\ IsPair(t) /\ t.info.instrAddress = s.info.instrAddress
             /\ t.info.flags \cap OtherErrors = s.info.flags \cap OtherErrors
             /\ Core(t) = I!Raise(Core(s), flag)
<1>. DEFINE f == s.info.flags \cup {flag}
            t == [s EXCEPT !.info.flags = f]
<1>1. Raise(s, flag) = t
  BY DEF Raise
<1>. HIDE DEF f
<1>2. /\ IsPair(t) /\ t.input = s.input /\ t.info.flags = f
      /\ t.info.data = s.info.data /\ t.info.instrAddress = s.info.instrAddress
  BY FlagsReplaced
<1>. HIDE DEF t
<1>3. t.info.flags \cap OtherErrors = s.info.flags \cap OtherErrors
  BY <1>2 DEF InputErrors, OtherErrors, f
<1>4. t.info.flags \cap InputErrors = (s.info.flags \cap InputErrors) \cup {flag}
  BY <1>2 DEF f
<1>5. Core(t) = I!Raise(Core(s), flag)
  BY <1>2, <1>4, I!RaiseIs, SourcesAgain DEF Core
<1>. QED
  BY <1>1, <1>2, <1>3, <1>5

LEMMA SameInput ==
  ASSUME NEW s
  PROVE  /\ CanRead(s) = I!CanRead(Core(s))
         /\ isEndOfInput(s.input) = I!isEndOfInput(Core(s).input)
         /\ internalInputPeek(s.input) = I!internalInputPeek(Core(s).input)
         /\ internalInputNext(s.input) = I!internalInputNext(Core(s).input)
<1>1. CanRead(s) = I!CanRead(Core(s))
  BY CoreFields DEF CanRead, I!CanRead, MaximumLength, I!MaximumLength
<1>2. isEndOfInput(s.input) = I!isEndOfInput(Core(s).input)
  BY CoreFields DEF isEndOfInput, I!isEndOfInput
<1>3. internalInputPeek(s.input) = I!internalInputPeek(Core(s).input)
  BY CoreFields DEF internalInputPeek, I!internalInputPeek, AtEnd, I!AtEnd
<1>4. internalInputNext(s.input) = I!internalInputNext(Core(s).input)
  BY CoreFields DEF internalInputNext, I!internalInputNext, AtEnd, I!AtEnd
<1>. QED
  BY <1>1, <1>2, <1>3, <1>4

LEMMA NextCore ==
  ASSUME NEW s, IsPair(s)
  PROVE  LET t == inputNext(s)
         IN  /\ IsPair(t) /\ t.info.instrAddress = s.info.instrAddress
             /\ t.info.flags \cap OtherErrors = s.info.flags \cap OtherErrors
             /\ Core(t) = I!inputNext(Core(s))
<1>1. CASE ~CanRead(s)
  BY <1>1, RaiseCore, SameInput DEF inputNext, I!inputNext, InputErrors
<1>2. CASE CanRead(s) /\ isEndOfInput(s.input)
  BY <1>2, RaiseCore, SameInput DEF inputNext, I!inputNext, InputErrors
<1>3. CASE CanRead(s) /\ ~isEndOfInput(s.input)
  <2>. DEFINE in == internalInputNext(s.input)
              t  == Take(s, in)
  <2>1. inputNext(s) = t /\ I!inputNext(Core(s)) = I!Take(Core(s), in)
    BY <1>3, SameInput DEF inputNext, I!inputNext
  <2>2. /\ IsPair(t) /\ t.input = in /\ t.info.flags = s.info.flags
        /\ t.info.data = Append(s.info.data, in.current)
        /\ t.info.instrAddress = s.info.instrAddress
        /\ t.info.opcode = s.info.opcode /\ t.info.operand = s.info.operand
        /\ t.info.operand_mode = s.info.operand_mode
    BY Taken
  <2>. HIDE DEF in, t
  <2>3. I!Take(Core(s), in)
          = I!PairOf(in, s.info.flags \cap InputErrors, Append(s.info.data, in.current))
    BY I!TakeIs, SourcesAgain DEF Core
  <2>4. Core(t) = I!Take(Core(s), in)
    BY <2>2, <2>3 DEF Core
  <2>. QED
    BY <2>1, <2>2, <2>4
<1>. QED
  BY <1>1, <1>2, <1>3

LEMMA PeekCore ==
  ASSUME NEW s, IsPair(s)
  PROVE  LET t == inputPeek(s)
         IN  /\ IsPair(t) /\ t.info.instrAddress = s.info.instrAddress
             /\ t.info.flags \cap OtherErrors = s.info.flags \cap OtherErrors
             /\ Core(t) = I!inputPeek(Core(s))
<1>1. CASE ~CanRead(s)
  BY <1>1, RaiseCore, SameInput DEF inputPeek, I!inputPeek, InputErrors
<1>2. CASE CanRead(s) /\ isEndOfInput(s.input)
  BY <1>2, RaiseCore, SameInput DEF inputPeek, I!inputPeek, InputErrors
<1>3. CASE CanRead(s) /\ ~isEndOfInput(s.input)
  <2>. DEFINE in == internalInputPeek(s.input)
              t  == [s EXCEPT !.input = in]
  <2>1. inputPeek(s) = t /\ I!inputPeek(Core(s)) = [Core(s) EXCEPT !.input = in]
    BY <1>3, SameInput, CoreFields DEF inputPeek, I!inputPeek
  <2>2. IsPair(t) /\ t.input = in /\ t.info = s.info
    BY InputReplaced
  <2>. HIDE DEF in, t
  <2>3. [Core(s) EXCEPT !.input = in] = I!PairOf(in, s.info.flags \cap InputErrors, s.info.data)
    <3>. DEFINE i == [flags |-> s.info.flags \cap InputErrors, data |-> s.info.data]
    <3>1. Core(s) = [input |-> s.input, info |-> i]
      BY DEF Core, I!PairOf
    <3>2. I!PairOf(in, s.info.flags \cap InputErrors, s.info.data) = [input |-> in, info |-> i]
      BY DEF I!PairOf
    <3>. HIDE DEF i
    <3>. QED
      BY <3>1, <3>2
  <2>4. Core(t) = [Core(s) EXCEPT !.input = in]
    BY <2>2, <2>3 DEF Core
  <2>. QED
    BY <2>1, <2>2, <2>4
<1>. QED
  BY <1>1, <1>2, <1>3
-----------------------------------------------------------------------------
(***************************************************************************)
(* From one state of an instruction to a later one.                        *)
(***************************************************************************)
LEMMA FollowsAgain ==
  ASSUME NEW s, NEW t, NEW u, NEW b, Follows(s, t, b), Follows(t, u, b)
  PROVE  Follows(s, u, b)
<1>1. I!Goes(Core(s), Core(t), b) /\ I!Goes(Core(t), Core(u), b)
  BY DEF Follows
<1>2. I!Goes(Core(s), Core(u), b)
  BY <1>1 DEF I!Goes
<1>. QED
  BY <1>2 DEF Follows

LEMMA FollowsItself ==
  ASSUME NEW s, NEW b, Reading(s, b)
  PROVE  Follows(s, s, b)
BY DEF Reading, Follows, I!Goes

(* What is no business of the input layer changes nothing for it.          *)
LEMMA SameFollows ==
  ASSUME NEW s, NEW b, Reading(s, b), NEW t, IsPair(t),
         t.input = s.input, t.info.data = s.info.data,
         t.info.instrAddress = s.info.instrAddress,
         t.info.flags \cap IF_ERROR_MASK = s.info.flags \cap IF_ERROR_MASK
  PROVE  Follows(s, t, b)
<1>1. InputErrors \subseteq IF_ERROR_MASK /\ OtherErrors \subseteq IF_ERROR_MASK
  BY DEF InputErrors, OtherErrors, IF_ERROR_MASK
<1>2. /\ t.info.flags \cap InputErrors = s.info.flags \cap InputErrors
      /\ t.info.flags \cap OtherErrors = s.info.flags \cap OtherErrors
  BY <1>1
<1>3. Core(t) = Core(s)
  BY <1>2 DEF Core
<1>4. Reading(t, b)
  BY <1>2, <1>3 DEF Reading
<1>. QED
  BY <1>3, <1>4 DEF Follows, Reading, I!Goes

(* Of an instruction under way the input layer sees the errors.            *)
LEMMA FailedIs ==
  ASSUME NEW s, NEW b, Reading(s, b)
  PROVE  Failed(s) <=> Core(s).info.flags # {}
BY CoreFields DEF Reading, Failed, InputErrors, OtherErrors, IF_ERROR_MASK

LEMMA NextFollows ==
  ASSUME NEW s, NEW b, Reading(s, b)
  PROVE  /\ Follows(s, inputNext(s), b)
         /\ ~Failed(inputNext(s)) => inputNext(s).info.data # << >>
<1>. DEFINE t == inputNext(s)
<1>1. /\ IsPair(t) /\ t.info.instrAddress = s.info.instrAddress
      /\ t.info.flags \cap OtherErrors = {} /\ Core(t) = I!inputNext(Core(s))
  BY NextCore DEF Reading
<1>2. /\ I!Goes(Core(s), Core(t), b)
      /\ Core(t).info.flags = {} => Core(t).info.data # << >>
  BY <1>1, I!NextOK, SourcesAgain DEF Reading
<1>. HIDE DEF t
<1>3. Reading(t, b)
  BY <1>1, <1>2 DEF Reading, I!Goes
<1>4. Follows(s, t, b)
  BY <1>1, <1>2, <1>3 DEF Follows
<1>5. ~Failed(t) => t.info.data # << >>
  BY <1>2, <1>3, FailedIs, CoreFields
<1>. QED
  BY <1>4, <1>5 DEF t

LEMMA PeekFollows ==
  ASSUME NEW s, NEW b, Reading(s, b)
  PROVE  Follows(s, inputPeek(s), b)
<1>. DEFINE t == inputPeek(s)
<1>1. /\ IsPair(t) /\ t.info.instrAddress = s.info.instrAddress
      /\ t.info.flags \cap OtherErrors = {} /\ Core(t) = I!inputPeek(Core(s))
  BY PeekCore DEF Reading
<1>2. I!Goes(Core(s), Core(t), b)
  BY <1>1, I!PeekOK, SourcesAgain DEF Reading
<1>. HIDE DEF t
<1>3. Reading(t, b)
  BY <1>1, <1>2 DEF Reading, I!Goes
<1>. QED
  BY <1>1, <1>2, <1>3 DEF Follows, t

(* Integers, on top of what was read.                                      *)
LEMMA AgainFollows ==
  ASSUME NEW s, NEW t, NEW b, Follows(s, t, b)
  PROVE  Follows(s, Again(t), b)
<1>1. Reading(t, b)
  BY DEF Follows
<1>2. Follows(t, Again(t), b)
  BY <1>1, NextFollows, FollowsItself DEF Again
<1>. QED
  BY <1>2, FollowsAgain

LEMMA BytesFollow ==
  ASSUME NEW s, NEW b, Reading(s, b), NEW n
  PROVE  Follows(s, inputNextBytes(s, n), b)
<1>1. Follows(s, inputNext(s), b)
  BY NextFollows
<1>2. Follows(s, NextTwo(s), b)
  BY <1>1, AgainFollows DEF NextTwo
<1>3. Follows(s, NextFour(s), b)
  <2>1. Follows(s, Again(NextTwo(s)), b)
    BY <1>2, AgainFollows
  <2>. QED
    BY <2>1, AgainFollows DEF NextFour
<1>4. Follows(s, Again(Again(Again(Again(NextFour(s))))), b)
  <2>1. Follows(s, Again(NextFour(s)), b)
    BY <1>3, AgainFollows
  <2>2. Follows(s, Again(Again(NextFour(s))), b)
    BY <2>1, AgainFollows
  <2>3. Follows(s, Again(Again(Again(NextFour(s)))), b)
    BY <2>2, AgainFollows
  <2>. QED
    BY <2>3, AgainFollows
<1>. QED
  BY <1>1, <1>2, <1>3, <1>4 DEF inputNextBytes
-----------------------------------------------------------------------------
(***************************************************************************)
(* The parts of an instruction.  None of the decode... procedures does     *)
(* more to what the input layer sees than to read on.                      *)
(***************************************************************************)
LEMMA RaiseFollows ==
  ASSUME NEW s, NEW b, Reading(s, b), NEW flag, flag \notin IF_ERROR_MASK
  PROVE  Follows(s, Raise(s, flag), b)
<1>. DEFINE f == s.info.flags \cup {flag}
            t == [s EXCEPT !.info.flags = f]
<1>1. Raise(s, flag) = t
  BY DEF Raise
<1>. HIDE DEF f
<1>2. /\ IsPair(t) /\ t.input = s.input /\ t.info.flags = f
      /\ t.info.data = s.info.data /\ t.info.instrAddress = s.info.instrAddress
  BY FlagsReplaced, ZenonT(60) DEF Reading
<1>. HIDE DEF t
<1>3. t.info.flags \cap IF_ERROR_MASK = s.info.flags \cap IF_ERROR_MASK
  BY <1>2 DEF f
<1>. QED
  BY <1>1, <1>2, <1>3, SameFollows

LEMMA OperandFollows ==
  ASSUME NEW s, NEW b, Reading(s, b), NEW operand
  PROVE  Follows(s, WithOperand(s, operand), b)
<1>. DEFINE v == Append(s.info.operand, operand)
            t == [s EXCEPT !.info.operand = v]
<1>1. WithOperand(s, operand) = t
  BY DEF WithOperand
<1>. HIDE DEF v
<1>2. /\ IsPair(t) /\ t.input = s.input /\ t.info.flags = s.info.flags
      /\ t.info.data = s.info.data /\ t.info.instrAddress = s.info.instrAddress
  BY OperandReplaced DEF Reading
<1>. HIDE DEF t
<1>. QED
  BY <1>1, <1>2, SameFollows

LEMMA OpcodeFollows ==
  ASSUME NEW s, NEW b, Reading(s, b)
  PROVE  LET t == TakeOpcode(s)
         IN  Follows(s, t, b) /\ t.info.data = s.info.data /\ t.info.flags = s.info.flags
<1>. DEFINE v == Append(s.info.opcode, inputCurrent(s))
            t == [s EXCEPT !.info.opcode = v]
<1>1. TakeOpcode(s) = t
  BY DEF TakeOpcode
<1>. HIDE DEF v
<1>2. /\ IsPair(t) /\ t.input = s.input /\ t.info.flags = s.info.flags
      /\ t.info.data = s.info.data /\ t.info.instrAddress = s.info.instrAddress
  BY OpcodeReplaced DEF Reading
<1>. HIDE DEF t
<1>. QED
  BY <1>1, <1>2, SameFollows

LEMMA ModrmFollows ==
  ASSUME NEW s, NEW b, Reading(s, b)
  PROVE  Follows(s, decodeModrm(s), b)
<1>. DEFINE t == inputNext(s)
            u == Raise(t, "IF_MODRM")
            v == ParseModrm(inputCurrent(t))
            w == [u EXCEPT !.info.modrm = v]
<1>1. Follows(s, t, b)
  BY NextFollows
<1>2. CASE "IF_MODRM" \in s.info.flags \/ Failed(t)
  BY <1>1, <1>2, FollowsItself DEF decodeModrm
<1>3. CASE "IF_MODRM" \notin s.info.flags /\ ~Failed(t)
  <2>1. decodeModrm(s) = w
    BY <1>3 DEF decodeModrm
  <2>2. Follows(t, u, b)
    BY <1>1, RaiseFollows DEF Follows, IF_ERROR_MASK
  <2>. HIDE DEF t, u, v
  <2>3. /\ IsPair(w) /\ w.input = u.input /\ w.info.flags = u.info.flags
        /\ w.info.data = u.info.data /\ w.info.instrAddress = u.info.instrAddress
    BY <2>2, ModrmReplaced DEF Follows, Reading
  <2>. HIDE DEF w
  <2>4. Follows(u, w, b)
    BY <2>2, <2>3, SameFollows DEF Follows
  <2>5. Follows(s, w, b)
    BY <1>1, <2>2, <2>4, FollowsAgain
  <2>. QED
    BY <2>1, <2>5
<1>. QED
  BY <1>2, <1>3

(* A number, and the operand that holds it.                                *)
LEMMA NumberFollows ==
  ASSUME NEW s, NEW b, Reading(s, b), NEW size
  PROVE  Follows(s, decodeNumber(s, size), b)
BY BytesFollow, FollowsItself DEF decodeNumber

LEMMA ImmediateFollows ==
  ASSUME NEW s, NEW b, Reading(s, b), NEW type, NEW size
  PROVE  Follows(s, decodeImmediate(s, type, size), b)
<1>. DEFINE t == decodeNumber(s, size)
            operand == OperandInfo(type, size, NONE, NONE, 0, 0, NumberOf(t, size))
<1>1. Follows(s, t, b)
  BY NumberFollows
<1>2. decodeImmediate(s, type, size) = IF Failed(t) THEN t ELSE WithOperand(t, operand)
  BY DEF decodeImmediate
<1>. HIDE DEF t, operand
<1>3. Follows(t, WithOperand(t, operand), b)
  BY <1>1, OperandFollows DEF Follows
<1>. QED
  BY <1>1, <1>2, <1>3, FollowsAgain

LEMMA UnsignedFollows ==
  ASSUME NEW s, NEW b, Reading(s, b)
  PROVE  Follows(s, decodeUnsigned(s), b)
<1>. DEFINE t == inputNext(s)
            operand == OperandInfo("IMMEDIATE", 8, NONE, NONE, 0, 0, inputCurrent(t))
<1>1. Follows(s, t, b)
  BY NextFollows
<1>2. decodeUnsigned(s) = IF Failed(t) THEN t ELSE WithOperand(t, operand)
  BY DEF decodeUnsigned
<1>. HIDE DEF t, operand
<1>3. Follows(t, WithOperand(t, operand), b)
  BY <1>1, OperandFollows DEF Follows
<1>. QED
  BY <1>1, <1>2, <1>3, FollowsAgain

LEMMA MemoryFollows ==
  ASSUME NEW s, NEW b, Reading(s, b), NEW size, NEW base, NEW index, NEW scale, NEW offset
  PROVE  Follows(s, MemoryOperand(s, size, base, index, scale, offset), b)
<1>. DEFINE t == decodeNumber(s, offset)
            operand == OperandInfo("MEMORY", size, base, index, scale, offset, NumberOf(t, offset))
<1>1. Follows(s, t, b)
  BY NumberFollows
<1>2. MemoryOperand(s, size, base, index, scale, offset)
        = IF Failed(t) THEN t ELSE WithOperand(t, operand)
  BY DEF MemoryOperand
<1>. HIDE DEF t, operand
<1>3. Follows(t, WithOperand(t, operand), b)
  BY <1>1, OperandFollows DEF Follows
<1>. QED
  BY <1>1, <1>2, <1>3, FollowsAgain

LEMMA SibFollows ==
  ASSUME NEW s, NEW b, Reading(s, b), NEW size
  PROVE  Follows(s, decodeSIB(s, size), b)
<1>. DEFINE t == inputNext(s)
            u == Raise(t, "IF_SIB")
<1>1. Follows(s, t, b)
  BY NextFollows
<1>2. CASE Failed(t)
  BY <1>1, <1>2 DEF decodeSIB
<1>3. CASE ~Failed(t)
  <2>1. Follows(t, u, b)
    BY <1>1, RaiseFollows DEF Follows, IF_ERROR_MASK
  <2>. DEFINE i      == t.info
              sib    == inputCurrent(t)
              base   == Bits(sib, 0, 3) + 8 * i.eff_rexvex.b
              index  == Bits(sib, 3, 3) + 8 * i.eff_rexvex.x
              nobase == base = 5 \/ (base = 13 /\ i.address_mode = 64)
              from   == IF nobase /\ i.modrm.mod = 0 THEN NONE ELSE AddressRegister(i, base)
              by     == IF index = 4 THEN NONE ELSE AddressRegister(i, index)
              scale  == IF index = 4 \/ Bits(sib, 6, 2) = 0 THEN 0 ELSE 2 ^ Bits(sib, 6, 2)
              offset == Displacement(i.modrm.mod, nobase)
  <2>2. decodeSIB(s, size) = MemoryOperand(u, size, from, by, scale, offset)
    BY <1>3 DEF decodeSIB
  <2>. HIDE DEF t, u, from, by, scale, offset
  <2>3. Follows(u, MemoryOperand(u, size, from, by, scale, offset), b)
    BY <2>1, MemoryFollows DEF Follows
  <2>. QED
    BY <1>1, <2>1, <2>2, <2>3, FollowsAgain
<1>. QED
  BY <1>2, <1>3

LEMMA RegisterFollows ==
  ASSUME NEW s, NEW b, Reading(s, b), NEW class, NEW id, NEW size
  PROVE  Follows(s, decodeRegisterOperand(s, class, id, size), b)
BY OperandFollows DEF decodeRegisterOperand

LEMMA RegisterMemoryFollows ==
  ASSUME NEW s, NEW b, Reading(s, b), NEW class, NEW size
  PROVE  Follows(s, decodeRegisterMemoryOperand(s, class, size), b)
<1>. DEFINE t  == decodeModrm(s)
            i  == t.info
            rm == i.modrm.rm + 8 * i.eff_rexvex.b
            u  == Raise(t, "IF_RELATIVE")
            at == AddressRegister(i, rm)
            offset == Displacement(i.modrm.mod, FALSE)
            rip == Register("RIP", 0)
<1>1. Follows(s, t, b) /\ Reading(t, b)
  BY ModrmFollows DEF Follows
<1>2. \/ decodeRegisterMemoryOperand(s, class, size) = t
      \/ decodeRegisterMemoryOperand(s, class, size) = decodeRegisterOperand(t, class, rm, size)
      \/ decodeRegisterMemoryOperand(s, class, size) = decodeSIB(t, size)
      \/ decodeRegisterMemoryOperand(s, class, size) = MemoryOperand(u, size, rip, NONE, 0, 32)
      \/ decodeRegisterMemoryOperand(s, class, size) = MemoryOperand(t, size, NONE, NONE, 0, 32)
      \/ decodeRegisterMemoryOperand(s, class, size) = MemoryOperand(t, size, at, NONE, 0, offset)
  BY DEF decodeRegisterMemoryOperand
<1>. HIDE DEF t, rm, u, at, offset, rip
<1>3. Follows(t, decodeRegisterOperand(t, class, rm, size), b)
  BY <1>1, RegisterFollows
<1>4. Follows(t, decodeSIB(t, size), b)
  BY <1>1, SibFollows
<1>5. Follows(t, u, b)
  BY <1>1, RaiseFollows DEF IF_ERROR_MASK, u
<1>6. Follows(u, MemoryOperand(u, size, rip, NONE, 0, 32), b)
  BY <1>5, MemoryFollows DEF Follows
<1>7. /\ Follows(t, MemoryOperand(t, size, NONE, NONE, 0, 32), b)
      /\ Follows(t, MemoryOperand(t, size, at, NONE, 0, offset), b)
  BY <1>1, MemoryFollows
<1>8. Follows(t, MemoryOperand(u, size, rip, NONE, 0, 32), b)
  BY <1>5, <1>6, FollowsAgain
<1>. QED
  BY <1>1, <1>2, <1>3, <1>4, <1>7, <1>8, FollowsAgain

LEMMA OperandDecoded ==
  ASSUME NEW s, NEW b, Reading(s, b), NEW type, NEW definedSize
  PROVE  Follows(s, decodeOperand(s, type, definedSize), b)
<1>. DEFINE size == getEffectiveOperandSize(s.info, definedSize)
            t    == decodeModrm(s)
            reg  == t.info.modrm.reg + 8 * t.info.eff_rexvex.r
            id   == 8 * s.info.eff_rexvex.b
            u    == Raise(s, "IF_RELATIVE")
            class == RegisterOf[type]
            result == decodeOperand(s, type, definedSize)
<1>1. \/ result = decodeUnsigned(s)
      \/ result = decodeImmediate(s, "IMMEDIATE", size)
      \/ result = decodeImmediate(u, "REL_IMMEDIATE", size)
      \/ result = decodeRegisterOperand(s, "GENERAL_PURPOSE", 0, size)
      \/ result = decodeRegisterOperand(s, "GENERAL_PURPOSE", id, size)
      \/ result = decodeRegisterMemoryOperand(s, "GENERAL_PURPOSE", size)
      \/ result = decodeRegisterMemoryOperand(s, "XMM", size)
      \/ result = t
      \/ result = decodeRegisterOperand(t, class, reg, size)
  BY DEF decodeOperand
<1>. HIDE DEF size, t, reg, id, u, class, result
<1>2. Follows(s, t, b) /\ Reading(t, b)
  BY ModrmFollows DEF Follows, t
<1>3. Follows(s, u, b) /\ Reading(u, b)
  BY RaiseFollows DEF Follows, IF_ERROR_MASK, u
<1>4. Follows(u, decodeImmediate(u, "REL_IMMEDIATE", size), b)
  BY <1>3, ImmediateFollows
<1>5. Follows(t, decodeRegisterOperand(t, class, reg, size), b)
  BY <1>2, RegisterFollows
<1>6. /\ Follows(s, decodeImmediate(u, "REL_IMMEDIATE", size), b)
      /\ Follows(s, decodeRegisterOperand(t, class, reg, size), b)
  BY <1>2, <1>3, <1>4, <1>5, FollowsAgain
<1>7. /\ Follows(s, decodeUnsigned(s), b)
      /\ Follows(s, decodeImmediate(s, "IMMEDIATE", size), b)
      /\ Follows(s, decodeRegisterOperand(s, "GENERAL_PURPOSE", 0, size), b)
      /\ Follows(s, decodeRegisterOperand(s, "GENERAL_PURPOSE", id, size), b)
      /\ Follows(s, decodeRegisterMemoryOperand(s, "GENERAL_PURPOSE", size), b)
      /\ Follows(s, decodeRegisterMemoryOperand(s, "XMM", size), b)
  BY UnsignedFollows, ImmediateFollows, RegisterFollows, RegisterMemoryFollows
<1>. QED
  BY <1>1, <1>2, <1>6, <1>7 DEF result
-----------------------------------------------------------------------------
(***************************************************************************)
(* The instructions decoded so far.                                        *)
(***************************************************************************)
IsSequence(q) == \E S : q \in Seq(S)

EndOf(i) == i.instrAddress + Len(i.data)
DecodedLength(q) == IF Len(q) = 0 THEN 0 ELSE EndOf(q[Len(q)])

Whole(i, bytes) ==
  /\ i.instrAddress \in Nat
  /\ i.data = SubSeq(bytes, i.instrAddress + 1, i.instrAddress + Len(i.data))
  /\ Len(i.data) \in 1 .. MaximumLength
  /\ i.flags \cap IF_ERROR_MASK # {} => Len(i.data) = 1

Tiled(q, bytes) ==
  /\ IsSequence(q)
  /\ \A k \in 1 .. Len(q) :
       Whole(q[k], bytes) /\ q[k].instrAddress = IF k = 1 THEN 0 ELSE EndOf(q[k - 1])

LEMMA Appended ==
  ASSUME NEW q, IsSequence(q), NEW i
  PROVE  /\ IsSequence(Append(q, i)) /\ Len(q) \in Nat /\ Len(Append(q, i)) = Len(q) + 1
         /\ \A k \in 1 .. Len(q) : Append(q, i)[k] = q[k]
         /\ Append(q, i)[Len(q) + 1] = i
<1>1. PICK S : q \in Seq(S)
  BY DEF IsSequence
<1>. DEFINE T == S \cup {i}
<1>2. q \in Seq(T) /\ i \in T
  BY <1>1
<1>. HIDE DEF T
<1>3. Append(q, i) \in Seq(T)
  BY <1>2
<1>. QED
  BY <1>2, <1>3 DEF IsSequence

(* One more instruction, where the last one ended.                         *)
LEMMA TiledOn ==
  ASSUME NEW q, NEW bytes, Tiled(q, bytes), NEW i, Whole(i, bytes), i.instrAddress = DecodedLength(q)
  PROVE  Tiled(Append(q, i), bytes) /\ DecodedLength(Append(q, i)) = EndOf(i)
<1>. DEFINE p == Append(q, i)
<1>1. /\ IsSequence(p) /\ Len(q) \in Nat /\ Len(p) = Len(q) + 1
      /\ \A k \in 1 .. Len(q) : p[k] = q[k]
      /\ p[Len(q) + 1] = i
  BY Appended DEF Tiled
<1>. HIDE DEF p
<1>2. ASSUME NEW k \in 1 .. Len(p)
      PROVE  Whole(p[k], bytes) /\ p[k].instrAddress = IF k = 1 THEN 0 ELSE EndOf(p[k - 1])
  <2>1. CASE k \in 1 .. Len(q)
    <3>1. p[k] = q[k] /\ (k # 1 => p[k - 1] = q[k - 1])
      BY <1>1, <2>1
    <3>. QED
      BY <2>1, <3>1 DEF Tiled
  <2>2. CASE k = Len(q) + 1
    <3>1. p[k] = i /\ (k # 1 => p[k - 1] = q[Len(q)])
      BY <1>1, <2>2
    <3>2. k = 1 <=> Len(q) = 0
      BY <1>1, <2>2
    <3>. QED
      BY <3>1, <3>2 DEF DecodedLength
  <2>. QED
    BY <1>1, <2>1, <2>2
<1>3. DecodedLength(p) = EndOf(i)
  BY <1>1 DEF DecodedLength
<1>. QED
  BY <1>1, <1>2, <1>3 DEF Tiled, p
-----------------------------------------------------------------------------
(***************************************************************************)
(* The inductive invariant.  InstructionsTile alone is not one: it says    *)
(* nothing of an instruction under way, whose bytes are those behind the   *)
(* instruction pointer, up to the position the input has reached.          *)
(***************************************************************************)
UnderWay == {"prefixes", "opcode", "tree", "operands"}

DecoderInv ==
  /\ phase \in UnderWay \cup {"client", "stopped", "failed"}
  /\ m_instructionPointer \in Nat
  /\ Tiled(decoded, input.bytes)
  /\ phase # "stopped" => m_instructionPointer = DecodedLength(decoded)
  /\ AtClient => I!InputOK(input) /\ m_instructionPointer = input.position
  /\ ~AtClient =>
       /\ IsPair(Pair) /\ I!PairOK(Core(Pair), m_instructionPointer)
       /\ info.instrAddress = m_instructionPointer
  /\ phase \in UnderWay => info.flags \cap OtherErrors = {}
  /\ phase \in UnderWay \ {"opcode"} => ~Failed(Pair)
  /\ phase \in {"tree", "operands"} => info.data # << >>
  /\ phase = "failed" =>
       /\ Failed(Pair)
       /\ "IF_ERROR_END_OF_INPUT" \in info.flags \/ info.data # << >>
  /\ RestIsShort

LEMMA PairIs == Pair.input = input /\ Pair.info = info
BY DEF Pair

LEMMA InputIsMemory ==
  ASSUME NEW in, I!InputOK(in)
  PROVE  /\ in.kind = "memory" /\ in.bytes \in Seq(Byte) /\ in.position \in Nat
         /\ ~in.eof /\ ~in.fail /\ in \in I!Inputs
<1>1. in.kind = "memory"
  BY DEF I!InputOK, Buffers
<1>2. in \in I!Inputs
  BY DEF I!InputOK
<1>3. in.bytes \in Seq(Byte) /\ in.position \in Nat
  BY <1>2 DEF I!Inputs, I!Byte, Byte
<1>. QED
  BY <1>1, <1>2, <1>3 DEF I!InputOK

(* What an instruction under way or broken off holds.                      *)
LEMMA UnderWayIs ==
  ASSUME NEW s, NEW b, I!PairOK(Core(s), b)
  PROVE  /\ I!InputOK(s.input) /\ b \in Nat /\ s.info.data \in Seq(Byte)
         /\ Len(s.info.data) \in Nat /\ Len(s.info.data) <= MaximumLength
         /\ s.input.position = b + Len(s.info.data)
         /\ \A k \in 1 .. Len(s.info.data) :
              b + k <= Len(s.input.bytes) /\ s.info.data[k] = s.input.bytes[b + k]
         /\ "IF_ERROR_END_OF_INPUT" \in s.info.flags =>
              s.input.position >= Len(s.input.bytes) /\ Len(s.info.data) # MaximumLength
         /\ "IF_ERROR_LENGTH" \in s.info.flags => Len(s.info.data) = MaximumLength
<1>. DEFINE c == Core(s)
<1>1. /\ c.input = s.input /\ c.info.data = s.info.data
      /\ c.info.flags = s.info.flags \cap InputErrors
  BY CoreFields
<1>. HIDE DEF c
<1>2. I!InputOK(s.input) /\ I!InfoOK(s.input, c.info, b)
  BY <1>1 DEF I!PairOK, c
<1>3. s.input.kind = "memory"
  BY <1>2, InputIsMemory
<1>4. /\ b \in Nat /\ s.info.data \in Seq(Byte) /\ Len(s.info.data) \in Nat
  <2>1. b \in Nat /\ c.info.data \in Seq(I!Byte) /\ Len(c.info.data) \in Nat
    BY I!PairFields, SourcesAgain DEF c
  <2>. QED
    BY <1>1, <2>1 DEF I!Byte, Byte
<1>5. I!ContentsOf(s.input) = s.input.bytes
  BY <1>3 DEF I!ContentsOf
<1>6. isEndOfInput(s.input) = I!isEndOfInput(s.input)
  BY DEF isEndOfInput, I!isEndOfInput
<1>7. "IF_ERROR_END_OF_INPUT" \in s.info.flags =>
        s.input.position >= Len(s.input.bytes) /\ Len(s.info.data) # MaximumLength
  BY <1>1, <1>2, <1>3, <1>6 DEF I!InfoOK, InputErrors, isEndOfInput, I!MaximumLength, MaximumLength
<1>8. "IF_ERROR_LENGTH" \in s.info.flags => Len(s.info.data) = MaximumLength
  BY <1>1, <1>2 DEF I!InfoOK, InputErrors, I!MaximumLength, MaximumLength
<1>9. /\ Len(s.info.data) <= MaximumLength
      /\ s.input.position = b + Len(s.info.data)
      /\ \A k \in 1 .. Len(s.info.data) :
           b + k <= Len(s.input.bytes) /\ s.info.data[k] = s.input.bytes[b + k]
  BY <1>1, <1>2, <1>3, <1>5 DEF I!InfoOK, I!MaximumLength, MaximumLength
<1>. QED
  BY <1>2, <1>4, <1>7, <1>8, <1>9

(* A step from one state of an instruction under way to a later one.       *)
LEMMA OnTheWay ==
  ASSUME DecoderInv, phase \in UnderWay,
         NEW s, Follows(Pair, s, m_instructionPointer), Becomes(s),
         UNCHANGED <<m_instructionPointer, decoded>>,
         phase' \in UnderWay \cup {"failed"},
         phase' \in UnderWay \ {"opcode"} => ~Failed(s),
         phase' \in {"tree", "operands"} => s.info.data # << >>,
         phase' = "failed" => Failed(s)
  PROVE  DecoderInv'
<1>1. /\ IsPair(s) /\ s.info.flags \cap OtherErrors = {}
      /\ I!PairOK(Core(s), m_instructionPointer)
      /\ s.info.instrAddress = m_instructionPointer
      /\ s.input.bytes = input.bytes
  <2>1. ~AtClient /\ info.instrAddress = m_instructionPointer
    BY DEF DecoderInv, AtClient, UnderWay
  <2>2. I!Goes(Core(Pair), Core(s), m_instructionPointer)
    BY DEF Follows
  <2>3. s.input.bytes = input.bytes
    BY <2>2, CoreFields, PairIs DEF I!Goes
  <2>. QED
    BY <2>1, <2>3, PairIs DEF Follows, Reading
<1>2. Pair' = s
  BY <1>1 DEF Pair, Becomes, IsPair
<1>3. input' = s.input /\ info' = s.info
  BY DEF Becomes
<1>4. Failed(s) => "IF_ERROR_END_OF_INPUT" \in s.info.flags \/ s.info.data # << >>
  <2>. SUFFICES ASSUME Failed(s), "IF_ERROR_END_OF_INPUT" \notin s.info.flags
                PROVE  s.info.data # << >>
    OBVIOUS
  <2>1. "IF_ERROR_LENGTH" \in s.info.flags
    BY <1>1 DEF Failed, IF_ERROR_MASK, OtherErrors
  <2>2. Len(s.info.data) = MaximumLength
    BY <1>1, <2>1, UnderWayIs
  <2>3. Len(s.info.data) # 0
    BY <2>2 DEF MaximumLength
  <2>. QED
    BY <2>3
<1>5. ~AtClient' /\ phase' # "stopped" /\ phase # "stopped"
  BY DEF AtClient, UnderWay
<1>6. Tiled(decoded, input.bytes)'
  BY <1>1, <1>3 DEF DecoderInv
<1>. QED
  BY <1>1, <1>2, <1>3, <1>4, <1>5, <1>6 DEF DecoderInv, RestIsShort

(* A decoder that has just been given its source, by whoever owns it.      *)
Opened ==
  /\ \E source \in Buffers, garbage \in Uninitialized : input = Open(source, garbage)
  /\ phase = "client" /\ m_instructionPointer = 0 /\ decoded = << >>

LEMMA InitOpened == Init => Opened
<1>1. \A source \in Sources : source.kind = "memory" /\ source.bytes \in Seq(Byte)
  BY SourcesAssumption, MemoryAssumption
<1>2. ASSUME NEW source \in Sources
      PROVE  \E other \in Buffers : other.kind = source.kind /\ other.bytes = source.bytes
  <2>. DEFINE other == [kind |-> "memory", bytes |-> source.bytes]
  <2>1. other \in Buffers
    BY <1>1 DEF Buffers
  <2>. QED
    BY <1>1, <2>1
<1>. QED
  BY <1>2 DEF Init, Opened, Open

LEMMA OpenedOK == Opened => DecoderInv
<1>. SUFFICES ASSUME Opened PROVE DecoderInv
  OBVIOUS
<1>1. PICK source \in Buffers, garbage \in Uninitialized : input = Open(source, garbage)
  BY DEF Opened
<1>2. source.kind = "memory" /\ source.bytes \in Seq(Byte)
  BY DEF Buffers
<1>3. garbage \in Byte
  BY DEF Uninitialized, Byte
<1>4. /\ input.kind = source.kind /\ input.bytes = source.bytes /\ ~input.eof
      /\ input.position = 0 /\ ~input.fail
  BY <1>1 DEF Open
<1>5. input \in I!Inputs
  <2>1. Byte = I!Byte
    BY DEF Byte, I!Byte
  <2>. HIDE DEF Byte, I!Byte
  <2>. QED
    BY <1>1, <1>2, <1>3, <2>1 DEF Open, I!Inputs
<1>6. I!InputOK(input)
  BY <1>2, <1>4, <1>5 DEF I!InputOK
<1>7. /\ phase = "client" /\ m_instructionPointer = 0 /\ decoded = << >>
  BY DEF Opened
<1>8. IsSequence(decoded) /\ Len(decoded) = 0
  <2>1. decoded \in Seq({})
    BY <1>7
  <2>. QED
    BY <1>7, <2>1 DEF IsSequence
<1>9. Tiled(decoded, input.bytes) /\ DecodedLength(decoded) = 0
  BY <1>8 DEF Tiled, DecodedLength
<1>. QED
  BY <1>4, <1>6, <1>7, <1>9 DEF DecoderInv, UnderWay, AtClient, RestIsShort

LEMMA DecoderInit == Init => DecoderInv
BY InitOpened, OpenedOK

(* A call begins an instruction of no bytes where the input stands.        *)
LEMMA CallOK == DecoderInv /\ Call => DecoderInv'
<1>. SUFFICES ASSUME DecoderInv, Call PROVE DecoderInv'
  OBVIOUS
<1>. DEFINE i == NewInfo(m_instructionPointer)
            s == [input |-> input, info |-> i]
<1>1. /\ I!InputOK(input) /\ m_instructionPointer = input.position
      /\ input.position \in Nat
  BY InputIsMemory DEF Call, DecoderInv, AtClient
<1>2. /\ IsInfo(i) /\ i.flags = {"IF_DISASSEMBLER_MODE_64"} /\ i.data = << >>
      /\ i.instrAddress = m_instructionPointer
  BY DEF NewInfo, IsInfo
<1>3. Pair' = s /\ info' = i /\ input' = input /\ phase' = "prefixes"
  BY DEF Call, Pair
<1>. HIDE DEF i
<1>4. IsPair(s)
  BY <1>2 DEF IsPair
<1>5. /\ i.flags \cap IF_ERROR_MASK = {} /\ i.flags \cap OtherErrors = {}
      /\ i.flags \cap InputErrors = {}
  BY <1>2 DEF IF_ERROR_MASK, OtherErrors, InputErrors
<1>6. Core(s) = [input |-> input, info |-> I!NewInfo]
  BY <1>2, <1>5 DEF Core, I!PairOf, I!NewInfo
<1>7. I!PairOK(Core(s), m_instructionPointer)
  BY <1>1, <1>6, I!NewInfoOK, SourcesAgain
<1>8. ~Failed(s)
  BY <1>5 DEF Failed
<1>9. UNCHANGED <<m_instructionPointer, decoded>> /\ phase = "client"
  BY DEF Call
<1>. HIDE DEF s
<1>. QED
  BY <1>1, <1>2, <1>3, <1>4, <1>5, <1>7, <1>8, <1>9 DEF DecoderInv, UnderWay, AtClient, RestIsShort

(* The states OnTheWay starts from.                                        *)
LEMMA PairReading ==
  ASSUME DecoderInv, phase \in UnderWay
  PROVE  Reading(Pair, m_instructionPointer)
BY PairIs DEF DecoderInv, UnderWay, AtClient, Reading

LEMMA PeekedIs ==
  ASSUME DecoderInv, phase = "prefixes"
  PROVE  Follows(Pair, Peeked, m_instructionPointer)
BY PairReading, PeekFollows DEF Peeked, UnderWay

(* A prefix after a peek that failed is no byte of the instruction: next   *)
(* fails as peek did.                                                      *)
LEMMA PrefixOK == DecoderInv /\ Prefix => DecoderInv'
<1>. SUFFICES ASSUME DecoderInv, Prefix PROVE DecoderInv'
  OBVIOUS
<1>. DEFINE f == WithPrefix(Peeked.info.flags)
            r == IF IsRex THEN RexOf(inputCurrent(Peeked)) ELSE Peeked.info.rex
            p == [Peeked EXCEPT !.info.flags = f]
            q == [p EXCEPT !.info.rex = r]
            s == inputNext(q)
<1>1. Follows(Pair, Peeked, m_instructionPointer) /\ IsPair(Peeked)
  BY PeekedIs DEF Prefix, Follows, Reading
<1>2. /\ IsPair(p) /\ p.input = Peeked.input /\ p.info.flags = f
      /\ p.info.data = Peeked.info.data /\ p.info.instrAddress = Peeked.info.instrAddress
  <2>. HIDE DEF f
  <2>. QED
    BY <1>1, FlagsReplaced
<1>3. /\ IsPair(q) /\ q.input = Peeked.input /\ q.info.flags = f
      /\ q.info.data = Peeked.info.data /\ q.info.instrAddress = Peeked.info.instrAddress
  <2>. HIDE DEF p, f, r
  <2>. QED
    BY <1>2, RexReplaced
<1>4. f \cap IF_ERROR_MASK = Peeked.info.flags \cap IF_ERROR_MASK
  BY DEF WithPrefix, PrefixFlag, RepPrefixes, IF_ERROR_MASK
<1>5. [Peeked EXCEPT !.info.flags = WithPrefix(@),
                     !.info.rex = IF IsRex THEN RexOf(inputCurrent(Peeked)) ELSE @] = q
  OBVIOUS
<1>6. Becomes(s) /\ phase' = IF Failed(s) THEN "failed" ELSE "prefixes"
  BY <1>5 DEF Prefix, TakePrefix
<1>. HIDE DEF f, r, p, q
<1>7. Follows(Pair, q, m_instructionPointer)
  BY <1>1, <1>3, <1>4, SameFollows, FollowsAgain DEF Follows
<1>8. Follows(Pair, s, m_instructionPointer)
  BY <1>7, NextFollows, FollowsAgain DEF Follows
<1>. HIDE DEF s
<1>9. phase = "prefixes" /\ UNCHANGED <<m_instructionPointer, decoded>>
  BY DEF Prefix
<1>. QED
  BY <1>6, <1>8, <1>9, OnTheWay DEF UnderWay

LEMMA EndOfPrefixesOK == DecoderInv /\ EndOfPrefixes => DecoderInv'
<1>. SUFFICES ASSUME DecoderInv, EndOfPrefixes PROVE DecoderInv'
  OBVIOUS
<1>1. /\ phase = "prefixes" /\ UNCHANGED <<m_instructionPointer, decoded>>
      /\ Becomes(Peeked) /\ phase' = "opcode"
  BY DEF EndOfPrefixes
<1>. QED
  BY <1>1, PeekedIs, OnTheWay DEF UnderWay

(* One more opcode byte.                                                   *)
LEMMA OpcodeByteOK ==
  ASSUME DecoderInv, phase \in UnderWay, NEW table, OpcodeByte(table),
         UNCHANGED <<m_instructionPointer, decoded>>
  PROVE  DecoderInv'
<1>. DEFINE s == inputNext(Pair)
            t == TakeOpcode(s)
<1>1. /\ Follows(Pair, s, m_instructionPointer)
      /\ ~Failed(s) => s.info.data # << >>
  BY PairReading, NextFollows
<1>2. /\ Follows(Pair, t, m_instructionPointer) /\ t.info.data = s.info.data
      /\ Follows(s, t, m_instructionPointer)
  BY <1>1, OpcodeFollows, FollowsAgain DEF Follows
<1>3. Failed(t) <=> Failed(s)
  BY <1>1, OpcodeFollows DEF Follows, Failed
<1>4. CASE Failed(s)
  <2>1. Becomes(s) /\ phase' = "failed"
    BY <1>4 DEF OpcodeByte
  <2>. HIDE DEF s
  <2>. QED
    BY <1>1, <1>4, <2>1, OnTheWay DEF UnderWay
<1>5. CASE ~Failed(s)
  <2>1. Becomes(t) /\ phase' = "tree"
    BY <1>5 DEF OpcodeByte
  <2>. HIDE DEF s, t
  <2>. QED
    BY <1>1, <1>2, <1>3, <1>5, <2>1, OnTheWay DEF UnderWay
<1>. QED
  BY <1>4, <1>5

(* What was read stays read.                                               *)
LEMMA DataStays ==
  ASSUME NEW s, NEW t, NEW b, Follows(s, t, b), s.info.data # << >>
  PROVE  t.info.data # << >>
<1>1. I!Goes(Core(s), Core(t), b)
  BY DEF Follows
<1>. QED
  BY <1>1, CoreFields DEF I!Goes

LEMMA ModrmRegOK == DecoderInv /\ ModrmReg => DecoderInv'
<1>. SUFFICES ASSUME DecoderInv, ModrmReg PROVE DecoderInv'
  OBVIOUS
<1>. DEFINE s == decodeModrm(Pair)
<1>1. /\ phase = "tree" /\ UNCHANGED <<m_instructionPointer, decoded>>
      /\ Becomes(s) /\ phase' = IF Failed(s) THEN "failed" ELSE "tree"
  BY DEF ModrmReg
<1>2. Follows(Pair, s, m_instructionPointer)
  BY <1>1, PairReading, ModrmFollows DEF UnderWay
<1>. HIDE DEF s
<1>3. s.info.data # << >>
  BY <1>1, <1>2, DataStays, PairIs DEF DecoderInv
<1>. QED
  BY <1>1, <1>2, <1>3, OnTheWay DEF UnderWay

(* A node of the tree that reads nothing.                                  *)
LEMMA NothingRead ==
  ASSUME DecoderInv, phase = "tree", IsInfo(info'),
         UNCHANGED <<input, m_instructionPointer, decoded>>,
         info'.flags \cap IF_ERROR_MASK = info.flags \cap IF_ERROR_MASK,
         info'.data = info.data, info'.instrAddress = info.instrAddress,
         phase' \in {"tree", "operands"}
  PROVE  DecoderInv'
<1>. DEFINE s == [input |-> input, info |-> info']
<1>1. IsPair(s) /\ s.input = input /\ s.info = info' /\ Becomes(s)
  BY DEF IsPair, Becomes
<1>. HIDE DEF s
<1>2. Follows(Pair, s, m_instructionPointer)
  BY <1>1, PairReading, PairIs, SameFollows DEF UnderWay
<1>3. ~Failed(s) /\ s.info.data # << >>
  BY <1>1, PairIs DEF DecoderInv, Failed, UnderWay
<1>. QED
  BY <1>1, <1>2, <1>3, OnTheWay DEF UnderWay

LEMMA MandatoryOK == DecoderInv /\ Mandatory => DecoderInv'
<1>. SUFFICES ASSUME DecoderInv, Mandatory PROVE DecoderInv'
  OBVIOUS
<1>1. PICK index \in 0 .. 3 : info' = [info EXCEPT !.flags = info.flags \ UsedPrefixes(index)]
  <2>. DEFINE index == IF GetOpcodeTreeChild(node, MandatoryIndex) = 0 THEN 0 ELSE MandatoryIndex
  <2>1. MandatoryIndex \in 0 .. 3
    BY DEF MandatoryIndex
  <2>2. index \in 0 .. 3
    BY <2>1
  <2>3. info' = [info EXCEPT !.flags = info.flags \ UsedPrefixes(index)]
    BY DEF Mandatory
  <2>. HIDE DEF index
  <2>. QED
    BY <2>2, <2>3
<1>. DEFINE f == info.flags \ UsedPrefixes(index)
<1>2. f \cap IF_ERROR_MASK = info.flags \cap IF_ERROR_MASK
  BY DEF UsedPrefixes, RepPrefixes, IF_ERROR_MASK
<1>3. IsInfo(info)
  BY PairIs DEF DecoderInv, IsPair, AtClient, Mandatory
<1>. HIDE DEF f
<1>4. /\ IsInfo(info') /\ info'.flags = f /\ info'.data = info.data
      /\ info'.instrAddress = info.instrAddress
  BY <1>1, <1>3 DEF IsInfo, f
<1>. QED
  BY <1>2, <1>4, NothingRead DEF Mandatory

LEMMA ModeOK == DecoderInv /\ Mode => DecoderInv'
<1>. SUFFICES ASSUME DecoderInv, Mode PROVE DecoderInv'
  OBVIOUS
<1>1. IsInfo(info)
  BY PairIs DEF DecoderInv, IsPair, AtClient, Mode
<1>. QED
  BY <1>1, NothingRead DEF Mode

(* The leaf: what is no instruction of this mode is broken off with the    *)
(* bytes that led here, at least one.                                      *)
LEMMA DefinitionOK == DecoderInv /\ Definition => DecoderInv'
<1>. SUFFICES ASSUME DecoderInv, Definition PROVE DecoderInv'
  OBVIOUS
<1>0. /\ phase = "tree" /\ UNCHANGED <<m_instructionPointer, decoded>>
      /\ IsPair(Pair) /\ IsInfo(info)
  BY PairIs DEF DecoderInv, IsPair, AtClient, Definition
<1>1. ASSUME NEW flag \in {"IF_ERROR_INVALID", "IF_ERROR_INVALID_64"},
             Becomes(Raise(Pair, flag)), phase' = "failed"
      PROVE  DecoderInv'
  <2>. DEFINE f == info.flags \cup {flag}
              s == [Pair EXCEPT !.info.flags = f]
  <2>1. Raise(Pair, flag) = s
    BY PairIs DEF Raise
  <2>. HIDE DEF f
  <2>2. /\ IsPair(s) /\ s.input = input /\ s.info.flags = f
        /\ s.info.data = info.data /\ s.info.instrAddress = info.instrAddress
    BY <1>0, PairIs, FlagsReplaced
  <2>. HIDE DEF s
  <2>3. flag \in IF_ERROR_MASK /\ flag \notin InputErrors
    BY DEF IF_ERROR_MASK, InputErrors
  <2>4. s.info.flags \cap InputErrors = info.flags \cap InputErrors
    BY <2>2, <2>3 DEF f
  <2>5. Core(s) = Core(Pair)
    BY <2>2, <2>4, PairIs DEF Core
  <2>6. Failed(s)
    BY <2>2, <2>3 DEF f, Failed
  <2>7. Pair' = s /\ input' = input /\ info' = s.info
    BY <1>1, <2>1, <2>2 DEF Becomes, Pair, IsPair
  <2>. QED
    BY <1>0, <1>1, <2>2, <2>5, <2>6, <2>7 DEF DecoderInv, UnderWay, AtClient, RestIsShort
<1>2. ASSUME NEW mnemonic, NEW eff, NEW operands, NEW addresses,
             info' = [info EXCEPT !.mnemonic = mnemonic, !.eff_rexvex = eff,
                                  !.operand_mode = operands, !.address_mode = addresses],
             phase' = "operands", UNCHANGED input
      PROVE  DecoderInv'
  <2>1. /\ IsInfo(info') /\ info'.flags = info.flags /\ info'.data = info.data
        /\ info'.instrAddress = info.instrAddress
    BY <1>0, <1>2 DEF IsInfo
  <2>. QED
    BY <1>0, <1>2, <2>1, NothingRead
<1>. DEFINE definition == GetInstructionDefinition(node)
            eff       == EffectiveRex(info.rex, definition.flags)
            operands  == OperandMode(eff, info.flags, definition.flags)
            addresses == IF "IF_PREFIX_ADDRESS_SIZE" \in info.flags THEN 32 ELSE 64
            mnemonic  == definition.mnemonic
<1>3. \/ Becomes(Raise(Pair, "IF_ERROR_INVALID")) /\ phase' = "failed"
      \/ Becomes(Raise(Pair, "IF_ERROR_INVALID_64")) /\ phase' = "failed"
      \/ /\ info' = [info EXCEPT !.mnemonic = mnemonic, !.eff_rexvex = eff,
                                 !.operand_mode = operands, !.address_mode = addresses]
         /\ phase' = "operands" /\ UNCHANGED input
  BY Zenon DEF Definition
<1>. HIDE DEF definition, eff, operands, addresses, mnemonic
<1>4. CASE Becomes(Raise(Pair, "IF_ERROR_INVALID")) /\ phase' = "failed"
  BY <1>1, <1>4
<1>5. CASE Becomes(Raise(Pair, "IF_ERROR_INVALID_64")) /\ phase' = "failed"
  BY <1>1, <1>5
<1>6. CASE /\ info' = [info EXCEPT !.mnemonic = mnemonic, !.eff_rexvex = eff,
                                  !.operand_mode = operands, !.address_mode = addresses]
           /\ phase' = "operands" /\ UNCHANGED input
  BY <1>2, <1>6
<1>. QED
  BY <1>3, <1>4, <1>5, <1>6

LEMMA OperandOK == DecoderInv /\ Operand => DecoderInv'
<1>. SUFFICES ASSUME DecoderInv, Operand PROVE DecoderInv'
  OBVIOUS
<1>. DEFINE next == OperandDefinitions[Len(info.operand) + 1]
            s    == decodeOperand(Pair, next.type, next.size)
<1>1. /\ phase = "operands" /\ UNCHANGED <<m_instructionPointer, decoded>>
      /\ Becomes(s) /\ phase' = IF Failed(s) THEN "failed" ELSE "operands"
  BY DEF Operand
<1>2. Follows(Pair, s, m_instructionPointer)
  BY <1>1, PairReading, OperandDecoded DEF UnderWay
<1>. HIDE DEF s
<1>3. s.info.data # << >>
  BY <1>1, <1>2, DataStays, PairIs DEF DecoderInv
<1>. QED
  BY <1>1, <1>2, <1>3, OnTheWay DEF UnderWay

(* The bytes of an instruction that was decoded are those from its address *)
(* on, and it ends where the input stands.                                 *)
LEMMA SucceedOK == DecoderInv /\ Succeed => DecoderInv'
<1>. SUFFICES ASSUME DecoderInv, Succeed PROVE DecoderInv'
  OBVIOUS
<1>0. /\ phase = "operands" /\ phase' = "client" /\ UNCHANGED input
      /\ m_instructionPointer' = m_instructionPointer + Len(info.data)
      /\ decoded' = Append(decoded, info')
      /\ info' = [info EXCEPT !.instrPointer = m_instructionPointer']
  BY DEF Succeed
<1>1. /\ IsInfo(info) /\ I!PairOK(Core(Pair), m_instructionPointer)
      /\ info.instrAddress = m_instructionPointer /\ ~Failed(Pair) /\ info.data # << >>
      /\ Tiled(decoded, input.bytes) /\ m_instructionPointer = DecodedLength(decoded)
  BY <1>0, PairIs DEF DecoderInv, IsPair, AtClient, UnderWay
<1>2. /\ info'.flags = info.flags /\ info'.data = info.data
      /\ info'.instrAddress = m_instructionPointer
  BY <1>0, <1>1 DEF IsInfo
<1>3. /\ I!InputOK(input) /\ m_instructionPointer \in Nat /\ info.data \in Seq(Byte)
      /\ Len(info.data) \in Nat /\ Len(info.data) <= MaximumLength
      /\ input.position = m_instructionPointer + Len(info.data)
      /\ \A k \in 1 .. Len(info.data) :
           /\ m_instructionPointer + k <= Len(input.bytes)
           /\ info.data[k] = input.bytes[m_instructionPointer + k]
  BY <1>1, UnderWayIs, PairIs
<1>4. info.data = SubSeq(input.bytes, m_instructionPointer + 1, m_instructionPointer + Len(info.data))
  <2>1. input.bytes \in Seq(Byte)
    BY <1>3, InputIsMemory
  <2>. HIDE DEF Byte
  <2>. QED
    BY <1>1, <1>3, <2>1, I!IsSubSeq, SourcesAgain
<1>5. info.flags \cap IF_ERROR_MASK = {}
  BY <1>1, PairIs DEF Failed
<1>6. Len(info.data) \in 1 .. MaximumLength
  <2>. DEFINE l == Len(info.data)
  <2>1. info.data # << >>
    BY <1>1
  <2>2. info.data \in Seq(Byte)
    BY <1>3
  <2>3. l # 0
    <3>. HIDE DEF Byte
    <3>. QED
      BY <2>1, <2>2
  <2>4. l \in Nat /\ l <= 15
    BY <1>3 DEF MaximumLength
  <2>. HIDE DEF l
  <2>5. l \in 1 .. 15
    BY <2>3, <2>4
  <2>. QED
    BY <2>5 DEF l, MaximumLength
<1>7. Whole(info', input.bytes)
  BY <1>2, <1>3, <1>4, <1>5, <1>6 DEF Whole
<1>8. Tiled(decoded, input.bytes)' /\ DecodedLength(decoded)' = EndOf(info')
  BY <1>0, <1>1, <1>2, <1>7, TiledOn
<1>9. m_instructionPointer' = EndOf(info') /\ m_instructionPointer' = input.position
  BY <1>0, <1>2, <1>3 DEF EndOf
<1>10. m_instructionPointer' \in Nat
  BY <1>0, <1>3
<1>. QED
  BY <1>0, <1>3, <1>8, <1>9, <1>10 DEF DecoderInv, UnderWay, AtClient, RestIsShort

(* However far an instruction that breaks off was read, the input goes     *)
(* back to the byte behind its first.                                      *)
LEMMA FailOK == DecoderInv /\ Fail => DecoderInv'
<1>. SUFFICES ASSUME DecoderInv, Fail PROVE DecoderInv'
  OBVIOUS
<1>. DEFINE b == m_instructionPointer
<1>1. /\ I!PairOK(Core(Pair), b) /\ info.instrAddress = b /\ phase = "failed"
      /\ "IF_ERROR_END_OF_INPUT" \in info.flags \/ info.data # << >>
      /\ Tiled(decoded, input.bytes) /\ b = DecodedLength(decoded)
      /\ b' = b + 1
  BY PairIs DEF DecoderInv, AtClient, Fail
<1>2. /\ I!InputOK(input) /\ b \in Nat /\ info.data \in Seq(Byte)
      /\ Len(info.data) \in Nat /\ Len(info.data) <= MaximumLength
      /\ input.position = b + Len(info.data)
      /\ \A k \in 1 .. Len(info.data) :
           b + k <= Len(input.bytes) /\ info.data[k] = input.bytes[b + k]
      /\ "IF_ERROR_END_OF_INPUT" \in info.flags =>
           input.position >= Len(input.bytes) /\ Len(info.data) # MaximumLength
  BY <1>1, UnderWayIs, PairIs, SMTT(60)
<1>. HIDE DEF b
<1>3. /\ input.kind = "memory" /\ input.bytes \in Seq(Byte) /\ ~input.eof /\ ~input.fail
      /\ input \in I!Inputs
  BY <1>2, InputIsMemory
<1>4. I!InputOK(input') /\ input'.bytes = input.bytes /\ input'.position = b + 1
  <2>1. CASE Len(info.data) = 1
    BY <1>2, <2>1 DEF Fail
  <2>2. CASE Len(info.data) # 1
    <3>. DEFINE position == b + 1
    <3>1. AfterGetPosition(input) = input
      BY <1>3 DEF AfterGetPosition, I!Inputs
    <3>2. getPosition(input) + 1 - Len(info.data) = position
      <4>. DEFINE l == Len(info.data)
      <4>1. getPosition(input) = b + l /\ l \in Nat /\ b \in Nat
        BY <1>2, <1>3 DEF getPosition
      <4>. HIDE DEF l
      <4>2. (b + l) + 1 - l = b + 1
        BY <4>1
      <4>. QED
        BY <4>1, <4>2 DEF l
    <3>3. position \in Nat
      BY <1>2
    <3>. HIDE DEF position
    <3>4. input' = [input EXCEPT !.position = position]
      BY <1>3, <2>2, <3>1, <3>2 DEF Fail, Skip1, setPosition
    <3>5. I!InputOK(I!setPosition(input, position))
      BY <1>2, <3>3, I!SetPositionOK, SourcesAgain
    <3>6. I!setPosition(input, position) = input'
      BY <1>3, <3>4 DEF I!setPosition
    <3>7. input'.bytes = input.bytes /\ input'.position = position
      BY <1>3, <3>4 DEF I!Inputs
    <3>. QED
      BY <3>5, <3>6, <3>7 DEF position
  <2>. QED
    BY <2>1, <2>2
<1>5. CASE EndOfInput
  <2>1. phase' = "stopped" /\ UNCHANGED decoded
    BY <1>5 DEF Fail
  <2>2. /\ input.position >= Len(input.bytes) /\ Len(info.data) # MaximumLength
    BY <1>2, <1>5 DEF EndOfInput
  <2>3. Len(input.bytes) \in Nat
    <3>. HIDE DEF Byte
    <3>. QED
      BY <1>3
  <2>4. Len(input.bytes) + 1 - b' < MaximumLength
    <3>. DEFINE l == Len(info.data)
                n == Len(input.bytes)
    <3>1. /\ l \in Nat /\ l <= 15 /\ l # 15 /\ n \in Nat /\ b \in Nat /\ b + l >= n /\ b' = b + 1
      BY <1>1, <1>2, <2>2, <2>3 DEF MaximumLength
    <3>. HIDE DEF l, n
    <3>2. n + 1 - (b + 1) < 15
      BY <3>1
    <3>. QED
      BY <3>1, <3>2 DEF n, MaximumLength
  <2>5. b' \in Nat /\ b' = input'.position
    BY <1>1, <1>2, <1>4
  <2>. QED
    BY <1>1, <1>4, <2>1, <2>4, <2>5 DEF DecoderInv, UnderWay, AtClient, RestIsShort, b
<1>6. CASE ~EndOfInput
  <2>1. /\ phase' = "client" /\ decoded' = Append(decoded, info')
        /\ info' = KeptInfo(<<Head(info.data)>>)
    BY <1>6 DEF Fail
  <2>2. info'.instrAddress = b /\ info'.data = <<Head(info.data)>>
    BY <1>1, <2>1 DEF KeptInfo, NewInfo
  <2>3. b + 1 <= Len(input.bytes) /\ Head(info.data) = input.bytes[b + 1] /\ Head(info.data) \in Byte
    <3>1. info.data # << >>
      BY <1>1, <1>6 DEF EndOfInput
    <3>2. 1 \in 1 .. Len(info.data) /\ Head(info.data) = info.data[1] /\ info.data[1] \in Byte
      <4>. HIDE DEF Byte
      <4>1. Len(info.data) # 0
        BY <1>2, <3>1
      <4>. QED
        BY <1>2, <4>1
    <3>. QED
      BY <1>2, <3>2
  <2>4. info'.data = SubSeq(input.bytes, b + 1, b + Len(info'.data)) /\ Len(info'.data) = 1
    <3>. DEFINE d == <<Head(info.data)>>
    <3>1. d \in Seq(Byte) /\ Len(d) = 1 /\ d[1] = Head(info.data) /\ d # << >>
      <4>. HIDE DEF Byte
      <4>. QED
        BY <2>3
    <3>. HIDE DEF d, Byte
    <3>2. \A k \in 1 .. Len(d) : b + k <= Len(input.bytes) /\ d[k] = input.bytes[b + k]
      BY <2>3, <3>1
    <3>3. d = SubSeq(input.bytes, b + 1, b + Len(d))
      BY <1>2, <1>3, <3>1, <3>2, I!IsSubSeq, SourcesAgain
    <3>. QED
      BY <2>2, <3>1, <3>3 DEF d
  <2>5. Whole(info', input.bytes)
    <3>. DEFINE l == Len(info'.data)
    <3>1. b \in Nat
      BY <1>2
    <3>2. l \in 1 .. 15
      BY <2>4
    <3>. QED
      BY <2>2, <2>4, <3>1, <3>2 DEF Whole, MaximumLength
  <2>6. Tiled(decoded', input.bytes) /\ DecodedLength(decoded') = EndOf(info')
    BY <1>1, <2>1, <2>2, <2>5, TiledOn
  <2>7. b' = EndOf(info') /\ b' = input'.position /\ b' \in Nat
    <3>1. b \in Nat /\ b' = b + 1
      BY <1>1, <1>2
    <3>2. EndOf(info') = b + 1
      BY <2>2, <2>4 DEF EndOf
    <3>. QED
      BY <1>4, <3>1, <3>2
  <2>. QED
    BY <1>4, <2>1, <2>6, <2>7 DEF DecoderInv, UnderWay, AtClient, RestIsShort, b
<1>. QED
  BY <1>5, <1>6

LEMMA DecoderStep == DecoderInv /\ [Next]_vars => DecoderInv'
<1>. SUFFICES ASSUME DecoderInv, [Next]_vars PROVE DecoderInv'
  OBVIOUS
<1>1. CASE FirstOpcode
  BY <1>1, OpcodeByteOK DEF FirstOpcode, UnderWay
<1>2. CASE Table
  BY <1>2, OpcodeByteOK DEF Table, UnderWay
<1>3. CASE UNCHANGED vars
  BY <1>3 DEF vars, DecoderInv, AtClient, Pair, RestIsShort, Failed
<1>. QED
  BY <1>1, <1>2, <1>3, CallOK, PrefixOK, EndOfPrefixesOK, ModrmRegOK, MandatoryOK, ModeOK,
     DefinitionOK, OperandOK, SucceedOK, FailOK DEF Next

LEMMA DecoderInvariant == Spec => []DecoderInv
<1>. QED
  BY DecoderInit, DecoderStep, PTL DEF Spec
-----------------------------------------------------------------------------
LEMMA TiledInstructions == DecoderInv => InstructionsTile
<1>. SUFFICES ASSUME DecoderInv PROVE InstructionsTile
  OBVIOUS
<1>1. Tiled(decoded, input.bytes) /\ (AtClient => m_instructionPointer = input.position)
  BY DEF DecoderInv
<1>2. DOMAIN decoded = 1 .. Len(decoded)
  BY <1>1 DEF Tiled, IsSequence
<1>. QED
  BY <1>1, <1>2 DEF InstructionsTile, Tiled, Whole, EndOf

(* Prefix, opcode byte, ModR/M, SIB, displacement or immediate: wherever an *)
(* instruction ends or breaks off, the next one begins behind it, and each *)
(* holds the bytes of the buffer from its address on                       *)
(* (InstructionDecoder::decodeInstruction, setDataSource's BaseInput).     *)
THEOREM InstructionsTileCorrect == Spec => []InstructionsTile
BY TiledInstructions, DecoderInvariant, PTL

(* The client stops only when fewer bytes are left than the longest        *)
(* instruction has: a full buffer is an error of another kind, after which *)
(* decodeInstruction returns true.                                         *)
THEOREM RestIsShortCorrect == Spec => []RestIsShort
<1>1. DecoderInv => RestIsShort
  BY DEF DecoderInv
<1>. QED
  BY <1>1, DecoderInvariant, PTL
-----------------------------------------------------------------------------
(***************************************************************************)
(* The length of the numbers of an instruction, operand by operand.        *)
(***************************************************************************)
SumTo(q, n, f) ==
  f = [k \in 0 .. n |-> IF k = 0 THEN 0 ELSE f[k - 1] + NumberLength(q[k])]

LEMMA LeastNumber ==
  ASSUME NEW N \in SUBSET Nat, N # {}
  PROVE  \E k \in N : \A j \in N : k <= j
<1>. DEFINE Less == {p \in Nat \X Nat : p[1] < p[2]}
<1>1. Less = OpToRel(<, Nat)
  BY Zenon DEF OpToRel
<1>2. PICK k \in N : \A j \in N : <<j, k>> \notin Less
  <2>1. IsWellFoundedOn(Less, Nat)
    BY <1>1, NatLessThanWellFounded
  <2>. HIDE DEF Less
  <2>. QED
    BY <2>1, WFMin, Zenon
<1>3. ASSUME NEW j \in N PROVE k <= j
  <2>1. ~(j < k)
    BY <1>2, <<j, k>> \in Nat \X Nat
  <2>. QED
    BY <2>1
<1>. QED
  BY <1>3

LEMMA SumExists ==
  ASSUME NEW q, NEW n \in Nat
  PROVE  \E f : SumTo(q, n, f)
<1>. DEFINE None == {m \in Nat : ~ \E f : SumTo(q, m, f)}
<1>1. SUFFICES ASSUME None # {} PROVE FALSE
  OBVIOUS
<1>2. PICK k \in None : \A j \in None : k <= j
  <2>1. None \in SUBSET Nat
    OBVIOUS
  <2>. HIDE DEF None
  <2>. QED
    BY <1>1, <2>1, LeastNumber
<1>3. k \in Nat /\ ~ \E f : SumTo(q, k, f)
  OBVIOUS
<1>4. CASE k = 0
  <2>. DEFINE f == [m \in 0 .. 0 |-> 0]
  <2>1. f = [m \in 0 .. 0 |-> IF m = 0 THEN 0 ELSE f[m - 1] + NumberLength(q[m])]
    OBVIOUS
  <2>. HIDE DEF f
  <2>2. SumTo(q, 0, f)
    BY <2>1 DEF SumTo
  <2>. QED
    BY <1>3, <1>4, <2>2
<1>5. CASE k # 0
  <2>1. k - 1 \in Nat /\ ~(k <= k - 1)
    BY <1>3, <1>5
  <2>2. PICK f : SumTo(q, k - 1, f)
    BY <1>2, <2>1
  <2>. DEFINE g == [m \in 0 .. k |-> IF m = 0 THEN 0 ELSE f[m - 1] + NumberLength(q[m])]
  <2>. HIDE DEF None
  <2>3. f = [m \in 0 .. k - 1 |-> IF m = 0 THEN 0 ELSE f[m - 1] + NumberLength(q[m])]
    BY <2>2 DEF SumTo
  <2>4. \A m \in 0 .. k - 1 : f[m] = g[m]
    <3>1. \A m \in 0 .. k - 1 : f[m] = IF m = 0 THEN 0 ELSE f[m - 1] + NumberLength(q[m])
      BY <2>3
    <3>2. \A m \in 0 .. k - 1 : m \in 0 .. k
      BY <1>3
    <3>. QED
      BY <3>1, <3>2
  <2>5. \A m \in 0 .. k : m # 0 => m - 1 \in 0 .. k - 1
    BY <1>3
  <2>6. g = [m \in 0 .. k |-> IF m = 0 THEN 0 ELSE g[m - 1] + NumberLength(q[m])]
    BY <2>4, <2>5
  <2>. HIDE DEF g
  <2>. QED
    BY <1>3, <2>6 DEF SumTo
<1>. QED
  BY <1>4, <1>5

LEMMA SumUnique ==
  ASSUME NEW q, NEW p, NEW n \in Nat, NEW m \in Nat, n <= m, NEW f, NEW g,
         SumTo(q, n, f), SumTo(p, m, g), \A k \in 1 .. n : q[k] = p[k]
  PROVE  f[n] = g[n]
<1>. DEFINE Other == {k \in 0 .. n : f[k] # g[k]}
<1>1. SUFFICES ASSUME Other # {} PROVE FALSE
  BY n \in 0 .. n
<1>2. PICK k \in Other : \A j \in Other : k <= j
  <2>1. Other \in SUBSET Nat
    OBVIOUS
  <2>. HIDE DEF Other
  <2>. QED
    BY <1>1, <2>1, LeastNumber
<1>3. k \in 0 .. n /\ k \in 0 .. m /\ f[k] # g[k]
  OBVIOUS
<1>4. /\ f[k] = IF k = 0 THEN 0 ELSE f[k - 1] + NumberLength(q[k])
      /\ g[k] = IF k = 0 THEN 0 ELSE g[k - 1] + NumberLength(p[k])
  <2>. HIDE DEF Other
  <2>. QED
    BY <1>3 DEF SumTo
<1>5. k # 0
  BY <1>3, <1>4
<1>6. k - 1 \in 0 .. n /\ ~(k <= k - 1) /\ k \in 1 .. n
  BY <1>3, <1>5
<1>7. f[k - 1] = g[k - 1]
  BY <1>2, <1>6
<1>. QED
  BY <1>3, <1>4, <1>5, <1>6, <1>7

LEMMA NumbersLengthIs ==
  ASSUME NEW q, Len(q) \in Nat
  PROVE  \E f : SumTo(q, Len(q), f) /\ NumbersLength(q) = f[Len(q)]
<1>. DEFINE f == CHOOSE f : SumTo(q, Len(q), f)
<1>1. SumTo(q, Len(q), f)
  BY SumExists
<1>2. NumbersLength(q) = f[Len(q)]
  BY Zenon DEF NumbersLength, SumTo
<1>. HIDE DEF f
<1>. QED
  BY <1>1, <1>2

(* No operand, no number; and one more.                                    *)
LEMMA NoNumbers ==
  ASSUME NEW q, Len(q) = 0
  PROVE  NumbersLength(q) = 0
<1>1. PICK f : SumTo(q, 0, f) /\ NumbersLength(q) = f[0]
  BY NumbersLengthIs
<1>2. f[0] = 0
  BY <1>1, 0 \in 0 .. 0 DEF SumTo
<1>. QED
  BY <1>1, <1>2

LEMMA OneMoreNumber ==
  ASSUME NEW q, IsSequence(q), NEW operand
  PROVE  NumbersLength(Append(q, operand)) = NumbersLength(q) + NumberLength(operand)
<1>. DEFINE p == Append(q, operand)
            n == Len(q)
<1>1. /\ n \in Nat /\ Len(p) = n + 1
      /\ \A k \in 1 .. n : p[k] = q[k]
      /\ p[n + 1] = operand
  BY Appended
<1>2. PICK f : SumTo(q, n, f) /\ NumbersLength(q) = f[n]
  BY <1>1, NumbersLengthIs
<1>. HIDE DEF p
<1>3. PICK g : SumTo(p, n + 1, g) /\ NumbersLength(p) = g[n + 1]
  <2>1. Len(p) \in Nat
    BY <1>1
  <2>. QED
    BY <1>1, <2>1, NumbersLengthIs
<1>. HIDE DEF n
<1>4. n + 1 \in Nat /\ n <= n + 1 /\ n + 1 \in 0 .. n + 1 /\ n + 1 # 0 /\ (n + 1) - 1 = n
  BY <1>1
<1>5. f[n] = g[n]
  BY <1>1, <1>2, <1>3, <1>4, SumUnique
<1>6. g[n + 1] = g[(n + 1) - 1] + NumberLength(p[n + 1])
  BY <1>3, <1>4 DEF SumTo
<1>7. g[n + 1] = g[n] + NumberLength(operand)
  BY <1>1, <1>4, <1>6
<1>. QED
  BY <1>2, <1>3, <1>5, <1>7 DEF p
-----------------------------------------------------------------------------
(***************************************************************************)
(* What the parts of an instruction weigh.                                 *)
(***************************************************************************)
Marks(flags) ==
  (IF "IF_MODRM" \in flags THEN 1 ELSE 0) + (IF "IF_SIB" \in flags THEN 1 ELSE 0)

Countable(s) == IsSequence(s.info.operand) /\ NumbersLength(s.info.operand) \in Nat

(* A later state of an instruction without an error has n bytes more, the  *)
(* flags F, and c operands more, with numbers of l bytes.                  *)
Effect(s, t, b, n, F, l, c) ==
  /\ Follows(s, t, b)
  /\ ~Failed(t) =>
       /\ Len(t.info.data) = Len(s.info.data) + n
       /\ t.info.flags = s.info.flags \cup F
       /\ Countable(t)
       /\ NumbersLength(t.info.operand) = NumbersLength(s.info.operand) + l
       /\ Len(t.info.operand) = Len(s.info.operand) + c
       /\ t.info.opcode = s.info.opcode /\ t.info.operand_mode = s.info.operand_mode

LEMMA FailedStays ==
  ASSUME NEW s, NEW t, NEW b, Reading(s, b), Follows(s, t, b), Failed(s)
  PROVE  Failed(t)
<1>1. Core(s).info.flags # {}
  BY FailedIs
<1>2. Core(t).info.flags # {}
  BY <1>1 DEF Follows, I!Goes
<1>. QED
  BY <1>2, FailedIs DEF Follows

(* Nothing has no effect, and one effect comes on top of another.          *)
LEMMA NoEffect ==
  ASSUME NEW s, NEW b, Reading(s, b), Countable(s)
  PROVE  Effect(s, s, b, 0, {}, 0, 0)
<1>1. Follows(s, s, b)
  BY FollowsItself
<1>2. Len(s.info.data) \in Nat
  BY UnderWayIs DEF Reading
<1>3. NumbersLength(s.info.operand) \in Nat /\ Len(s.info.operand) \in Nat
  BY Appended DEF Countable
<1>4. /\ Len(s.info.data) = Len(s.info.data) + 0
      /\ NumbersLength(s.info.operand) = NumbersLength(s.info.operand) + 0
      /\ Len(s.info.operand) = Len(s.info.operand) + 0
  BY <1>2, <1>3
<1>. QED
  BY <1>1, <1>4 DEF Effect

LEMMA Effects ==
  ASSUME NEW s, NEW t, NEW u, NEW b, Reading(s, b), Countable(s),
         NEW n1 \in Nat, NEW F1, NEW l1 \in Nat, NEW c1 \in Nat,
         NEW n2 \in Nat, NEW F2, NEW l2 \in Nat, NEW c2 \in Nat,
         Effect(s, t, b, n1, F1, l1, c1), Effect(t, u, b, n2, F2, l2, c2)
  PROVE  Effect(s, u, b, n1 + n2, F1 \cup F2, l1 + l2, c1 + c2)
<1>1. Follows(s, u, b)
  BY FollowsAgain DEF Effect
<1>2. CASE Failed(u)
  BY <1>1, <1>2 DEF Effect
<1>3. CASE ~Failed(u)
  <2>1. ~Failed(t)
    BY <1>3, FailedStays DEF Effect, Follows
  <2>2. Len(s.info.data) \in Nat
    BY UnderWayIs DEF Reading
  <2>3. NumbersLength(s.info.operand) \in Nat /\ Len(s.info.operand) \in Nat
    BY Appended DEF Countable
  <2>4. /\ Len(t.info.data) = Len(s.info.data) + n1
        /\ NumbersLength(t.info.operand) = NumbersLength(s.info.operand) + l1
        /\ Len(t.info.operand) = Len(s.info.operand) + c1
        /\ t.info.flags = s.info.flags \cup F1
        /\ t.info.opcode = s.info.opcode /\ t.info.operand_mode = s.info.operand_mode
    BY <2>1 DEF Effect
  <2>5. /\ Len(u.info.data) = Len(t.info.data) + n2
        /\ NumbersLength(u.info.operand) = NumbersLength(t.info.operand) + l2
        /\ Len(u.info.operand) = Len(t.info.operand) + c2
        /\ u.info.flags = t.info.flags \cup F2
        /\ u.info.opcode = t.info.opcode /\ u.info.operand_mode = t.info.operand_mode
        /\ Countable(u)
    BY <1>3 DEF Effect
  <2>6. Len(u.info.data) = Len(s.info.data) + (n1 + n2)
    <3>. DEFINE x == Len(s.info.data)
                y == Len(t.info.data)
                z == Len(u.info.data)
    <3>1. x \in Nat /\ y = x + n1 /\ z = y + n2
      BY <2>2, <2>4, <2>5
    <3>. HIDE DEF x, y, z
    <3>2. z = x + (n1 + n2)
      BY <3>1
    <3>. QED
      BY <3>2 DEF x, z
  <2>7. NumbersLength(u.info.operand) = NumbersLength(s.info.operand) + (l1 + l2)
    <3>. DEFINE x == NumbersLength(s.info.operand)
                y == NumbersLength(t.info.operand)
                z == NumbersLength(u.info.operand)
    <3>1. x \in Nat /\ y = x + l1 /\ z = y + l2
      BY <2>3, <2>4, <2>5
    <3>. HIDE DEF x, y, z
    <3>2. z = x + (l1 + l2)
      BY <3>1
    <3>. QED
      BY <3>2 DEF x, z
  <2>8. Len(u.info.operand) = Len(s.info.operand) + (c1 + c2)
    <3>. DEFINE x == Len(s.info.operand)
                y == Len(t.info.operand)
                z == Len(u.info.operand)
    <3>1. x \in Nat /\ y = x + c1 /\ z = y + c2
      BY <2>3, <2>4, <2>5
    <3>. HIDE DEF x, y, z
    <3>2. z = x + (c1 + c2)
      BY <3>1
    <3>. QED
      BY <3>2 DEF x, z
  <2>9. u.info.flags = s.info.flags \cup (F1 \cup F2)
    BY <2>4, <2>5
  <2>. QED
    BY <1>1, <2>4, <2>5, <2>6, <2>7, <2>8, <2>9 DEF Effect
<1>. QED
  BY <1>2, <1>3

(* One byte.                                                               *)
LEMMA NextEffect ==
  ASSUME NEW s, NEW b, Reading(s, b), Countable(s)
  PROVE  Effect(s, inputNext(s), b, 1, {}, 0, 0)
<1>. DEFINE t == inputNext(s)
<1>1. Follows(s, t, b)
  BY NextFollows
<1>2. CASE Failed(t)
  BY <1>1, <1>2 DEF Effect
<1>3. CASE ~Failed(t)
  <2>. DEFINE in == internalInputNext(s.input)
  <2>1. ASSUME NEW flag \in InputErrors, t = Raise(s, flag) PROVE FALSE
    <3>. DEFINE f == s.info.flags \cup {flag}
    <3>1. Raise(s, flag) = [s EXCEPT !.info.flags = f]
      BY DEF Raise
    <3>. HIDE DEF f
    <3>2. Raise(s, flag).info.flags = f
      BY <3>1, FlagsReplaced DEF Reading
    <3>3. flag \in f /\ flag \in IF_ERROR_MASK
      BY DEF f, InputErrors, IF_ERROR_MASK
    <3>. HIDE DEF t
    <3>4. Failed(t)
      BY <2>1, <3>2, <3>3 DEF Failed
    <3>. QED
      BY <1>3, <3>4 DEF t
  <2>2. t = Take(s, in)
    BY <2>1 DEF inputNext, InputErrors
  <2>. HIDE DEF in
  <2>3. /\ t.info.flags = s.info.flags /\ t.info.data = Append(s.info.data, in.current)
        /\ t.info.opcode = s.info.opcode /\ t.info.operand = s.info.operand
        /\ t.info.operand_mode = s.info.operand_mode
    BY <2>2, Taken DEF Reading
  <2>. HIDE DEF t
  <2>4. s.info.data \in Seq(Byte)
    BY UnderWayIs DEF Reading
  <2>5. Len(t.info.data) = Len(s.info.data) + 1
    <3>1. IsSequence(s.info.data)
      BY <2>4 DEF IsSequence
    <3>. QED
      BY <2>3, <3>1, Appended
  <2>6. NumbersLength(s.info.operand) \in Nat /\ Len(s.info.operand) \in Nat
    BY Appended DEF Countable
  <2>7. /\ NumbersLength(t.info.operand) = NumbersLength(s.info.operand) + 0
        /\ Len(t.info.operand) = Len(s.info.operand) + 0
    BY <2>3, <2>6
  <2>8. Countable(t)
    BY <2>3 DEF Countable
  <2>9. t.info.flags = s.info.flags \cup {}
    BY <2>3
  <2>. QED
    BY <1>1, <2>3, <2>5, <2>7, <2>8, <2>9 DEF Effect, t
<1>. QED
  BY <1>2, <1>3

(* A number of one, two, four or eight bytes.                              *)
LEMMA AgainEffect ==
  ASSUME NEW s, NEW t, NEW b, Reading(s, b), Countable(s), NEW n \in Nat,
         Effect(s, t, b, n, {}, 0, 0)
  PROVE  Effect(s, Again(t), b, n + 1, {}, 0, 0)
<1>1. Follows(s, Again(t), b)
  BY AgainFollows DEF Effect
<1>2. CASE Failed(t)
  <2>1. Again(t) = t
    BY <1>2 DEF Again
  <2>. QED
    BY <1>1, <1>2, <2>1 DEF Effect
<1>3. CASE ~Failed(t)
  <2>1. Reading(t, b) /\ Countable(t) /\ Again(t) = inputNext(t)
    BY <1>3 DEF Effect, Follows, Again
  <2>2. Effect(t, Again(t), b, 1, {}, 0, 0)
    BY <2>1, NextEffect
  <2>3. Effect(s, Again(t), b, n + 1, {} \cup {}, 0 + 0, 0 + 0)
    BY <2>2, Effects
  <2>4. {} \cup {} = {} /\ 0 + 0 = 0
    OBVIOUS
  <2>. QED
    BY <2>3, <2>4
<1>. QED
  BY <1>2, <1>3

LEMMA BytesEffect ==
  ASSUME NEW s, NEW b, Reading(s, b), Countable(s), NEW n \in {1, 2, 4, 8}
  PROVE  Effect(s, inputNextBytes(s, n), b, n, {}, 0, 0)
<1>1. Effect(s, inputNext(s), b, 1, {}, 0, 0)
  BY NextEffect
<1>2. Effect(s, NextTwo(s), b, 2, {}, 0, 0)
  <2>1. Effect(s, NextTwo(s), b, 1 + 1, {}, 0, 0)
    BY <1>1, AgainEffect DEF NextTwo
  <2>. QED
    BY <2>1
<1>3. Effect(s, NextFour(s), b, 4, {}, 0, 0)
  <2>1. Effect(s, Again(NextTwo(s)), b, 2 + 1, {}, 0, 0)
    BY <1>2, AgainEffect
  <2>2. Effect(s, Again(Again(NextTwo(s))), b, (2 + 1) + 1, {}, 0, 0)
    BY <2>1, AgainEffect
  <2>. QED
    BY <2>2 DEF NextFour
<1>4. Effect(s, Again(Again(Again(Again(NextFour(s))))), b, 8, {}, 0, 0)
  <2>1. Effect(s, Again(NextFour(s)), b, 4 + 1, {}, 0, 0)
    BY <1>3, AgainEffect
  <2>2. Effect(s, Again(Again(NextFour(s))), b, 5 + 1, {}, 0, 0)
    BY <2>1, AgainEffect
  <2>3. Effect(s, Again(Again(Again(NextFour(s)))), b, 6 + 1, {}, 0, 0)
    BY <2>2, AgainEffect
  <2>4. Effect(s, Again(Again(Again(Again(NextFour(s))))), b, 7 + 1, {}, 0, 0)
    BY <2>3, AgainEffect
  <2>. QED
    BY <2>4
<1>. QED
  BY <1>1, <1>2, <1>3, <1>4 DEF inputNextBytes

Widths == {0, 8, 16, 32, 64}

LEMMA NumberEffect ==
  ASSUME NEW s, NEW b, Reading(s, b), Countable(s), NEW size \in Widths
  PROVE  Effect(s, decodeNumber(s, size), b, size \div 8, {}, 0, 0)
<1>1. CASE size = 0
  <2>1. decodeNumber(s, size) = s /\ size \div 8 = 0
    BY <1>1 DEF decodeNumber
  <2>. QED
    BY <2>1, NoEffect
<1>2. CASE size # 0
  <2>1. size \div 8 \in {1, 2, 4, 8}
    BY <1>2 DEF Widths
  <2>. QED
    BY <1>2, <2>1, BytesEffect DEF decodeNumber
<1>. QED
  BY <1>1, <1>2

LEMMA RaiseEffect ==
  ASSUME NEW s, NEW b, Reading(s, b), Countable(s), NEW flag, flag \notin IF_ERROR_MASK
  PROVE  Effect(s, Raise(s, flag), b, 0, {flag}, 0, 0)
<1>. DEFINE f == s.info.flags \cup {flag}
            t == [s EXCEPT !.info.flags = f]
<1>1. Raise(s, flag) = t
  BY DEF Raise
<1>2. Follows(s, t, b)
  BY <1>1, RaiseFollows
<1>. HIDE DEF f
<1>3. /\ t.info.flags = f /\ t.info.data = s.info.data
      /\ t.info.opcode = s.info.opcode /\ t.info.operand = s.info.operand
      /\ t.info.operand_mode = s.info.operand_mode
  <2>1. IsPair(s)
    BY DEF Reading
  <2>. QED
    BY <2>1, FlagsReplaced, ZenonT(60)
<1>. HIDE DEF t
<1>4. Effect(s, s, b, 0, {}, 0, 0)
  BY NoEffect
<1>5. /\ Len(s.info.data) = Len(s.info.data) + 0
      /\ NumbersLength(s.info.operand) = NumbersLength(s.info.operand) + 0
      /\ Len(s.info.operand) = Len(s.info.operand) + 0
  <2>1. /\ Len(s.info.data) \in Nat /\ NumbersLength(s.info.operand) \in Nat
        /\ Len(s.info.operand) \in Nat
    BY Appended, UnderWayIs DEF Reading, Countable
  <2>. QED
    BY <2>1
<1>6. Countable(t)
  BY <1>3 DEF Countable
<1>. QED
  BY <1>1, <1>2, <1>3, <1>5, <1>6 DEF Effect, f

LEMMA WithOperandEffect ==
  ASSUME NEW s, NEW b, Reading(s, b), Countable(s), NEW operand, NumberLength(operand) \in Nat
  PROVE  Effect(s, WithOperand(s, operand), b, 0, {}, NumberLength(operand), 1)
<1>. DEFINE v == Append(s.info.operand, operand)
            t == [s EXCEPT !.info.operand = v]
<1>1. WithOperand(s, operand) = t
  BY DEF WithOperand
<1>2. Follows(s, t, b)
  BY <1>1, OperandFollows
<1>3. /\ IsSequence(v) /\ Len(v) = Len(s.info.operand) + 1
      /\ NumbersLength(v) = NumbersLength(s.info.operand) + NumberLength(operand)
  BY Appended, OneMoreNumber DEF Countable
<1>. HIDE DEF v
<1>4. /\ t.info.flags = s.info.flags /\ t.info.data = s.info.data
      /\ t.info.opcode = s.info.opcode /\ t.info.operand = v
      /\ t.info.operand_mode = s.info.operand_mode
  <2>1. IsPair(s)
    BY DEF Reading
  <2>. QED
    BY <2>1, OperandReplaced, ZenonT(60)
<1>. HIDE DEF t
<1>5. Len(s.info.data) \in Nat /\ NumbersLength(s.info.operand) \in Nat
  BY UnderWayIs DEF Reading, Countable
<1>6. Len(s.info.data) = Len(s.info.data) + 0
  BY <1>5
<1>7. NumbersLength(v) \in Nat
  BY <1>3, <1>5
<1>8. Countable(t)
  BY <1>3, <1>4, <1>7 DEF Countable
<1>9. t.info.flags = s.info.flags \cup {}
  BY <1>4
<1>. QED
  BY <1>1, <1>2, <1>3, <1>4, <1>6, <1>8, <1>9 DEF Effect

(* An operand behind the bytes of its number.                              *)
LEMMA NumberedEffect ==
  ASSUME NEW s, NEW t, NEW b, Reading(s, b), Countable(s), NEW n \in Nat, NEW F,
         Effect(s, t, b, n, F, 0, 0), NEW operand, NumberLength(operand) \in Nat
  PROVE  Effect(s, IF Failed(t) THEN t ELSE WithOperand(t, operand), b,
                n, F, NumberLength(operand), 1)
<1>1. CASE Failed(t)
  BY <1>1 DEF Effect
<1>2. CASE ~Failed(t)
  <2>1. Reading(t, b) /\ Countable(t)
    BY <1>2 DEF Effect, Follows
  <2>2. Effect(t, WithOperand(t, operand), b, 0, {}, NumberLength(operand), 1)
    BY <2>1, WithOperandEffect
  <2>. DEFINE l == NumberLength(operand)
              u == WithOperand(t, operand)
  <2>. HIDE DEF l, u
  <2>3. l \in Nat /\ 0 \in Nat /\ 1 \in Nat
    BY DEF l
  <2>4. Effect(s, u, b, n + 0, F \cup {}, 0 + l, 0 + 1)
    BY <2>2, <2>3, Effects DEF l, u
  <2>5. n + 0 = n /\ F \cup {} = F /\ 0 + l = l /\ 0 + 1 = 1
    BY <2>3
  <2>6. Effect(s, u, b, n, F, l, 1)
    BY <2>4, <2>5
  <2>. QED
    BY <1>2, <2>6 DEF l, u
<1>. QED
  BY <1>1, <1>2

(* A step that reads nothing.                                              *)
LEMMA QuietEffect ==
  ASSUME NEW s, NEW t, NEW b, Reading(s, b), Countable(s), Follows(s, t, b), NEW F,
         t.info.flags = s.info.flags \cup F, t.info.data = s.info.data,
         t.info.opcode = s.info.opcode, t.info.operand = s.info.operand,
         t.info.operand_mode = s.info.operand_mode
  PROVE  Effect(s, t, b, 0, F, 0, 0)
<1>1. /\ Len(s.info.data) \in Nat /\ NumbersLength(s.info.operand) \in Nat
      /\ Len(s.info.operand) \in Nat
  BY Appended, UnderWayIs DEF Reading, Countable
<1>2. /\ Len(s.info.data) = Len(s.info.data) + 0
      /\ NumbersLength(s.info.operand) = NumbersLength(s.info.operand) + 0
      /\ Len(s.info.operand) = Len(s.info.operand) + 0
  BY <1>1
<1>. QED
  BY <1>2 DEF Effect, Countable

(* The ModR/M byte counts once, however often it is asked for.             *)
ModrmLength(flags) == IF "IF_MODRM" \in flags THEN 0 ELSE 1

LEMMA ModrmEffect ==
  ASSUME NEW s, NEW b, Reading(s, b), Countable(s)
  PROVE  Effect(s, decodeModrm(s), b, ModrmLength(s.info.flags), {"IF_MODRM"}, 0, 0)
<1>. DEFINE t == inputNext(s)
            u == Raise(t, "IF_MODRM")
            v == ParseModrm(inputCurrent(t))
            w == [u EXCEPT !.info.modrm = v]
<1>1. CASE "IF_MODRM" \in s.info.flags
  <2>1. decodeModrm(s) = s /\ ModrmLength(s.info.flags) = 0
    BY <1>1 DEF decodeModrm, ModrmLength
  <2>2. s.info.flags = s.info.flags \cup {"IF_MODRM"}
    BY <1>1
  <2>. QED
    BY <2>1, <2>2, FollowsItself, QuietEffect
<1>2. CASE "IF_MODRM" \notin s.info.flags /\ Failed(t)
  <2>1. decodeModrm(s) = t
    BY <1>2 DEF decodeModrm
  <2>2. Failed(decodeModrm(s)) /\ Follows(s, decodeModrm(s), b)
    BY <1>2, <2>1, NextFollows
  <2>. QED
    BY <2>2 DEF Effect
<1>3. CASE "IF_MODRM" \notin s.info.flags /\ ~Failed(t)
  <2>1. decodeModrm(s) = w /\ ModrmLength(s.info.flags) = 1
    BY <1>3 DEF decodeModrm, ModrmLength
  <2>2. Effect(s, t, b, 1, {}, 0, 0)
    BY NextEffect
  <2>3. Reading(t, b) /\ Countable(t)
    BY <1>3, <2>2 DEF Effect, Follows
  <2>4. Effect(t, u, b, 0, {"IF_MODRM"}, 0, 0)
    BY <2>3, RaiseEffect DEF IF_ERROR_MASK
  <2>. HIDE DEF t, u, v
  <2>5. Effect(s, u, b, 1, {"IF_MODRM"}, 0, 0)
    <3>1. Effect(s, u, b, 1 + 0, {} \cup {"IF_MODRM"}, 0 + 0, 0 + 0)
      BY <2>2, <2>4, Effects
    <3>2. 1 + 0 = 1 /\ 0 + 0 = 0 /\ {} \cup {"IF_MODRM"} = {"IF_MODRM"}
      OBVIOUS
    <3>. QED
      BY <3>1, <3>2
  <2>6. Reading(u, b)
    BY <2>4 DEF Effect, Follows
  <2>7. /\ IsPair(w) /\ w.input = u.input /\ w.info.flags = u.info.flags
        /\ w.info.data = u.info.data /\ w.info.instrAddress = u.info.instrAddress
        /\ w.info.opcode = u.info.opcode /\ w.info.operand = u.info.operand
        /\ w.info.operand_mode = u.info.operand_mode
    BY <2>6, ModrmReplaced DEF Reading
  <2>. HIDE DEF w
  <2>8. Follows(s, w, b)
    BY <2>5, <2>6, <2>7, SameFollows, FollowsAgain DEF Effect
  <2>9. Failed(w) <=> Failed(u)
    BY <2>7 DEF Failed
  <2>10. Countable(w) <=> Countable(u)
    BY <2>7 DEF Countable
  <2>11. Effect(s, w, b, 1, {"IF_MODRM"}, 0, 0)
    BY <2>5, <2>7, <2>8, <2>9, <2>10 DEF Effect
  <2>. QED
    BY <2>1, <2>11
<1>. QED
  BY <1>1, <1>2, <1>3

LEMMA OperandInfoLength ==
  ASSUME NEW type, NEW size, NEW base, NEW index, NEW scale, NEW offset, NEW lval
  PROVE  NumberLength(OperandInfo(type, size, base, index, scale, offset, lval))
           = IF type \in {"IMMEDIATE", "REL_IMMEDIATE"} THEN size \div 8 ELSE offset \div 8
BY DEF NumberLength, OperandInfo

LEMMA RegisterEffect ==
  ASSUME NEW s, NEW b, Reading(s, b), Countable(s), NEW class, NEW id, NEW size
  PROVE  Effect(s, decodeRegisterOperand(s, class, id, size), b, 0, {}, 0, 1)
<1>. DEFINE register == Register(RegisterClass(class, size), id)
            operand  == OperandInfo("REGISTER", size, register, NONE, 0, 0, 0)
<1>1. decodeRegisterOperand(s, class, id, size) = WithOperand(s, operand)
  BY DEF decodeRegisterOperand
<1>. HIDE DEF register
<1>2. NumberLength(operand) = 0
  BY OperandInfoLength
<1>. HIDE DEF operand
<1>. QED
  BY <1>1, <1>2, WithOperandEffect

LEMMA UnsignedEffect ==
  ASSUME NEW s, NEW b, Reading(s, b), Countable(s)
  PROVE  Effect(s, decodeUnsigned(s), b, 1, {}, 1, 1)
<1>. DEFINE t == inputNext(s)
            operand == OperandInfo("IMMEDIATE", 8, NONE, NONE, 0, 0, inputCurrent(t))
<1>1. Effect(s, t, b, 1, {}, 0, 0)
  BY NextEffect
<1>2. decodeUnsigned(s) = IF Failed(t) THEN t ELSE WithOperand(t, operand)
  BY DEF decodeUnsigned
<1>. HIDE DEF t
<1>3. NumberLength(operand) = 1
  BY OperandInfoLength
<1>. HIDE DEF operand
<1>. QED
  BY <1>1, <1>2, <1>3, NumberedEffect

LEMMA ImmediateEffect ==
  ASSUME NEW s, NEW b, Reading(s, b), Countable(s), NEW size \in Widths,
         NEW type \in {"IMMEDIATE", "REL_IMMEDIATE"}
  PROVE  Effect(s, decodeImmediate(s, type, size), b, size \div 8, {}, size \div 8, 1)
<1>. DEFINE t == decodeNumber(s, size)
            operand == OperandInfo(type, size, NONE, NONE, 0, 0, NumberOf(t, size))
<1>1. Effect(s, t, b, size \div 8, {}, 0, 0)
  BY NumberEffect
<1>2. decodeImmediate(s, type, size) = IF Failed(t) THEN t ELSE WithOperand(t, operand)
  BY DEF decodeImmediate
<1>3. size \div 8 \in Nat
  BY DEF Widths
<1>. HIDE DEF t
<1>4. NumberLength(operand) = size \div 8
  BY OperandInfoLength
<1>. HIDE DEF operand
<1>. QED
  BY <1>1, <1>2, <1>3, <1>4, NumberedEffect

LEMMA MemoryEffect ==
  ASSUME NEW s, NEW b, Reading(s, b), Countable(s), NEW size, NEW base, NEW index, NEW scale,
         NEW offset \in Widths
  PROVE  Effect(s, MemoryOperand(s, size, base, index, scale, offset), b,
                offset \div 8, {}, offset \div 8, 1)
<1>. DEFINE t == decodeNumber(s, offset)
            operand == OperandInfo("MEMORY", size, base, index, scale, offset, NumberOf(t, offset))
<1>1. Effect(s, t, b, offset \div 8, {}, 0, 0)
  BY NumberEffect
<1>2. MemoryOperand(s, size, base, index, scale, offset)
        = IF Failed(t) THEN t ELSE WithOperand(t, operand)
  BY DEF MemoryOperand
<1>3. offset \div 8 \in Nat
  BY DEF Widths
<1>. HIDE DEF t
<1>4. NumberLength(operand) = offset \div 8
  BY OperandInfoLength
<1>. HIDE DEF operand
<1>. QED
  BY <1>1, <1>2, <1>3, <1>4, NumberedEffect

LEMMA SibEffect ==
  ASSUME NEW s, NEW b, Reading(s, b), Countable(s), NEW size
  PROVE  \E l \in Nat : Effect(s, decodeSIB(s, size), b, 1 + l, {"IF_SIB"}, l, 1)
<1>. DEFINE t == inputNext(s)
            u == Raise(t, "IF_SIB")
<1>1. Effect(s, t, b, 1, {}, 0, 0)
  BY NextEffect
<1>2. CASE Failed(t)
  <2>1. decodeSIB(s, size) = t
    BY <1>2 DEF decodeSIB
  <2>2. Effect(s, t, b, 1 + 0, {"IF_SIB"}, 0, 1)
    BY <1>1, <1>2 DEF Effect
  <2>. QED
    BY <2>1, <2>2
<1>3. CASE ~Failed(t)
  <2>. DEFINE i      == t.info
              sib    == inputCurrent(t)
              base   == Bits(sib, 0, 3) + 8 * i.eff_rexvex.b
              index  == Bits(sib, 3, 3) + 8 * i.eff_rexvex.x
              nobase == base = 5 \/ (base = 13 /\ i.address_mode = 64)
              from   == IF nobase /\ i.modrm.mod = 0 THEN NONE ELSE AddressRegister(i, base)
              by     == IF index = 4 THEN NONE ELSE AddressRegister(i, index)
              scale  == IF index = 4 \/ Bits(sib, 6, 2) = 0 THEN 0 ELSE 2 ^ Bits(sib, 6, 2)
              offset == Displacement(i.modrm.mod, nobase)
              l      == offset \div 8
              w      == MemoryOperand(u, size, from, by, scale, offset)
  <2>1. decodeSIB(s, size) = w
    BY <1>3 DEF decodeSIB
  <2>2. Reading(t, b) /\ Countable(t)
    BY <1>1, <1>3 DEF Effect, Follows
  <2>3. Effect(t, u, b, 0, {"IF_SIB"}, 0, 0)
    BY <2>2, RaiseEffect DEF IF_ERROR_MASK
  <2>4. offset \in Widths
    BY DEF Displacement, Widths
  <2>5. l \in Nat
    <3>. HIDE DEF offset
    <3>. QED
      BY <2>4 DEF Widths
  <2>. HIDE DEF t, u, from, by, scale, offset
  <2>6. Effect(s, u, b, 1, {"IF_SIB"}, 0, 0)
    <3>1. Effect(s, u, b, 1 + 0, {} \cup {"IF_SIB"}, 0 + 0, 0 + 0)
      BY <1>1, <2>3, Effects
    <3>2. 1 + 0 = 1 /\ 0 + 0 = 0 /\ {} \cup {"IF_SIB"} = {"IF_SIB"}
      OBVIOUS
    <3>. QED
      BY <3>1, <3>2
  <2>7. CASE Failed(u)
    <3>1. Reading(u, b)
      BY <2>6 DEF Effect, Follows
    <3>2. Follows(u, w, b)
      BY <3>1, MemoryFollows
    <3>3. Failed(w) /\ Follows(s, w, b)
      BY <2>6, <2>7, <3>1, <3>2, FailedStays, FollowsAgain DEF Effect
    <3>4. Effect(s, w, b, 1 + l, {"IF_SIB"}, l, 1)
      BY <3>3 DEF Effect
    <3>. QED
      BY <2>1, <2>5, <3>4
  <2>8. CASE ~Failed(u)
    <3>1. Reading(u, b) /\ Countable(u)
      BY <2>6, <2>8 DEF Effect, Follows
    <3>2. Effect(u, w, b, l, {}, l, 1)
      BY <2>4, <3>1, MemoryEffect
    <3>. HIDE DEF l, w
    <3>3. Effect(s, w, b, 1 + l, {"IF_SIB"} \cup {}, 0 + l, 0 + 1)
      BY <2>5, <2>6, <3>2, Effects
    <3>4. {"IF_SIB"} \cup {} = {"IF_SIB"} /\ 0 + l = l /\ 0 + 1 = 1
      BY <2>5
    <3>5. Effect(s, w, b, 1 + l, {"IF_SIB"}, l, 1)
      BY <3>3, <3>4
    <3>. QED
      BY <2>1, <2>5, <3>5
  <2>. QED
    BY <2>7, <2>8
<1>. QED
  BY <1>2, <1>3

(* Bytes that are no number of an operand are ModR/M or SIB byte, and the  *)
(* SIB byte is of a register or memory operand.                            *)
OperandFlags == {"IF_MODRM", "IF_SIB", "IF_RELATIVE"}

Fits(s, t, b, type) ==
  \E n \in Nat, l \in Nat, F \in SUBSET OperandFlags :
    /\ Effect(s, t, b, n, F, l, 1)
    /\ n + Marks(s.info.flags) = l + Marks(s.info.flags \cup F)
    /\ "IF_SIB" \in F => type \in {"E", "W"}

(* A failed operand fits.                                                  *)
LEMMA FailedFits ==
  ASSUME NEW s, NEW t, NEW b, Follows(s, t, b), Failed(t), NEW type
  PROVE  Fits(s, t, b, type)
<1>1. Effect(s, t, b, 0, {}, 0, 1)
  BY DEF Effect
<1>2. 0 + Marks(s.info.flags) = 0 + Marks(s.info.flags \cup {})
  <2>1. s.info.flags \cup {} = s.info.flags
    OBVIOUS
  <2>. QED
    BY <2>1
<1>3. 0 \in Nat /\ {} \in SUBSET OperandFlags /\ "IF_SIB" \notin {}
  OBVIOUS
<1>. HIDE DEF OperandFlags
<1>. QED
  BY <1>1, <1>2, <1>3, Zenon DEF Fits

(* An operand of l bytes behind the ModR/M byte, or behind none.           *)
LEMMA PlainFits ==
  ASSUME NEW s, NEW t, NEW b, NEW l \in Nat, NEW F \in SUBSET {"IF_RELATIVE"},
         Effect(s, t, b, l, F, l, 1), NEW type
  PROVE  Fits(s, t, b, type)
<1>1. Marks(s.info.flags \cup F) = Marks(s.info.flags)
  BY DEF Marks
<1>2. F \in SUBSET OperandFlags /\ "IF_SIB" \notin F
  BY DEF OperandFlags
<1>. QED
  BY <1>1, <1>2 DEF Fits

LEMMA ModrmFits ==
  ASSUME NEW s, NEW t, NEW u, NEW b, Reading(s, b), Countable(s), t = decodeModrm(s),
         NEW l \in Nat, NEW F \in SUBSET {"IF_RELATIVE"}, Effect(t, u, b, l, F, l, 1), NEW type
  PROVE  Fits(s, u, b, type)
<1>. DEFINE m == ModrmLength(s.info.flags)
            G == {"IF_MODRM"} \cup F
<1>1. Effect(s, t, b, m, {"IF_MODRM"}, 0, 0) /\ m \in Nat
  BY ModrmEffect DEF ModrmLength
<1>2. Marks(s.info.flags \cup G) = Marks(s.info.flags) + m /\ Marks(s.info.flags) \in Nat
  BY DEF Marks, ModrmLength
<1>. HIDE DEF m
<1>3. Effect(s, u, b, m + l, G, 0 + l, 0 + 1)
  BY <1>1, Effects
<1>4. 0 + l = l /\ 0 + 1 = 1 /\ G \in SUBSET OperandFlags /\ "IF_SIB" \notin G /\ m + l \in Nat
  BY <1>1 DEF OperandFlags
<1>5. (m + l) + Marks(s.info.flags) = l + Marks(s.info.flags \cup G)
  <2>. DEFINE x == Marks(s.info.flags)
              y == Marks(s.info.flags \cup G)
  <2>1. y = x + m /\ x \in Nat /\ m \in Nat
    BY <1>1, <1>2
  <2>. HIDE DEF x, y
  <2>2. (m + l) + x = l + y
    BY <2>1
  <2>. QED
    BY <2>2 DEF x, y
<1>6. Effect(s, u, b, m + l, G, l, 1)
  BY <1>3, <1>4
<1>. QED
  BY <1>4, <1>5, <1>6 DEF Fits

LEMMA SibFits ==
  ASSUME NEW s, NEW t, NEW u, NEW b, Reading(s, b), Countable(s), t = decodeModrm(s),
         ~Failed(t), "IF_SIB" \notin s.info.flags, NEW size, u = decodeSIB(t, size),
         NEW type \in {"E", "W"}
  PROVE  Fits(s, u, b, type)
<1>. DEFINE m == ModrmLength(s.info.flags)
            G == {"IF_MODRM"} \cup {"IF_SIB"}
<1>1. Effect(s, t, b, m, {"IF_MODRM"}, 0, 0) /\ m \in Nat
  BY ModrmEffect DEF ModrmLength
<1>2. Reading(t, b) /\ Countable(t)
  BY <1>1 DEF Effect, Follows
<1>3. PICK l \in Nat : Effect(t, u, b, 1 + l, {"IF_SIB"}, l, 1)
  BY <1>2, SibEffect
<1>4. /\ Marks(s.info.flags \cup G) = Marks(s.info.flags) + m + 1
      /\ Marks(s.info.flags) \in Nat
  BY DEF Marks, ModrmLength
<1>. HIDE DEF m
<1>5. 1 + l \in Nat
  OBVIOUS
<1>6. Effect(s, u, b, m + (1 + l), G, 0 + l, 0 + 1)
  BY <1>1, <1>3, <1>5, Effects
<1>7. 0 + l = l /\ 0 + 1 = 1 /\ G \in SUBSET OperandFlags /\ m + (1 + l) \in Nat
  BY <1>1 DEF OperandFlags
<1>8. (m + (1 + l)) + Marks(s.info.flags) = l + Marks(s.info.flags \cup G)
  <2>. DEFINE x == Marks(s.info.flags)
              y == Marks(s.info.flags \cup G)
  <2>1. y = x + m + 1 /\ x \in Nat /\ m \in Nat
    BY <1>1, <1>4
  <2>. HIDE DEF x, y
  <2>2. (m + (1 + l)) + x = l + y
    BY <2>1
  <2>. QED
    BY <2>2 DEF x, y
<1>9. Effect(s, u, b, m + (1 + l), G, l, 1)
  BY <1>6, <1>7
<1>. QED
  BY <1>7, <1>8, <1>9 DEF Fits

LEMMA RegisterMemoryFits ==
  ASSUME NEW s, NEW b, Reading(s, b), Countable(s), "IF_SIB" \notin s.info.flags,
         NEW class, NEW size, NEW type \in {"E", "W"}
  PROVE  Fits(s, decodeRegisterMemoryOperand(s, class, size), b, type)
<1>. SUFFICES ASSUME NEW u, u = decodeRegisterMemoryOperand(s, class, size)
              PROVE  Fits(s, u, b, type)
  OBVIOUS
<1>. DEFINE t  == decodeModrm(s)
            i  == t.info
            rm == i.modrm.rm + 8 * i.eff_rexvex.b
            v  == Raise(t, "IF_RELATIVE")
            at == AddressRegister(i, rm)
            offset == Displacement(i.modrm.mod, FALSE)
            rip == Register("RIP", 0)
<1>1. Effect(s, t, b, ModrmLength(s.info.flags), {"IF_MODRM"}, 0, 0)
  BY ModrmEffect
<1>2. CASE Failed(t)
  <2>1. u = t
    BY <1>2 DEF decodeRegisterMemoryOperand
  <2>. QED
    BY <1>1, <1>2, <2>1, FailedFits DEF Effect
<1>3. CASE ~Failed(t)
  <2>1. \/ u = decodeRegisterOperand(t, class, rm, size)
        \/ u = decodeSIB(t, size)
        \/ u = MemoryOperand(v, size, rip, NONE, 0, 32)
        \/ u = MemoryOperand(t, size, NONE, NONE, 0, 32)
        \/ u = MemoryOperand(t, size, at, NONE, 0, offset)
    BY <1>3 DEF decodeRegisterMemoryOperand
  <2>2. Reading(t, b) /\ Countable(t)
    BY <1>1, <1>3 DEF Effect, Follows
  <2>3. offset \in Widths /\ 32 \in Widths
    BY DEF Displacement, Widths
  <2>. HIDE DEF rm, at, offset, rip, i
  <2>4. CASE u = decodeRegisterOperand(t, class, rm, size)
    <3>1. Effect(t, u, b, 0, {}, 0, 1)
      BY <2>2, <2>4, RegisterEffect
    <3>. QED
      BY <3>1, ModrmFits
  <2>5. CASE u = decodeSIB(t, size)
    BY <1>3, <2>5, SibFits
  <2>6. CASE u = MemoryOperand(v, size, rip, NONE, 0, 32)
    <3>1. Effect(t, v, b, 0, {"IF_RELATIVE"}, 0, 0)
      BY <2>2, RaiseEffect DEF IF_ERROR_MASK
    <3>2. ~Failed(v)
      <4>. DEFINE f == t.info.flags \cup {"IF_RELATIVE"}
      <4>1. v = [t EXCEPT !.info.flags = f]
        BY DEF Raise
      <4>. HIDE DEF t, v, f
      <4>2. v.info.flags = f
        BY <2>2, <4>1, FlagsReplaced DEF Reading
      <4>. QED
        BY <1>3, <4>2 DEF Failed, IF_ERROR_MASK, f
    <3>3. Reading(v, b) /\ Countable(v)
      BY <3>1, <3>2 DEF Effect, Follows
    <3>4. Effect(v, u, b, 4, {}, 4, 1)
      <4>1. 32 \div 8 = 4
        OBVIOUS
      <4>. QED
        BY <2>3, <2>6, <3>3, <4>1, MemoryEffect
    <3>. HIDE DEF v
    <3>5. Effect(t, u, b, 0 + 4, {"IF_RELATIVE"} \cup {}, 0 + 4, 0 + 1)
      BY <2>2, <3>1, <3>4, Effects
    <3>6. 0 + 4 = 4 /\ 0 + 1 = 1 /\ {"IF_RELATIVE"} \cup {} = {"IF_RELATIVE"}
      OBVIOUS
    <3>7. Effect(t, u, b, 4, {"IF_RELATIVE"}, 4, 1)
      BY <3>5, <3>6
    <3>. QED
      BY <3>7, ModrmFits
  <2>7. ASSUME NEW base, NEW o \in Widths, u = MemoryOperand(t, size, base, NONE, 0, o)
        PROVE  Fits(s, u, b, type)
    <3>1. Effect(t, u, b, o \div 8, {}, o \div 8, 1)
      BY <2>2, <2>7, MemoryEffect
    <3>2. o \div 8 \in Nat
      BY DEF Widths
    <3>. QED
      BY <3>1, <3>2, ModrmFits
  <2>8. CASE u = MemoryOperand(t, size, NONE, NONE, 0, 32)
    BY <2>3, <2>7, <2>8
  <2>9. CASE u = MemoryOperand(t, size, at, NONE, 0, offset)
    BY <2>3, <2>7, <2>9
  <2>. HIDE DEF t
  <2>. QED
    BY <2>1, <2>4, <2>5, <2>6, <2>8, <2>9
<1>. QED
  BY <1>2, <1>3

LEMMA ImmediateSize ==
  ASSUME NEW i, i.operand_mode \in {16, 32, 64}, NEW size \in DefinedOperandSize, size # "DQ"
  PROVE  getEffectiveOperandSize(i, size) \in Widths
<1>1. CASE size = "V"
  BY <1>1 DEF getEffectiveOperandSize, Widths
<1>2. CASE size = "Z"
  BY <1>2 DEF getEffectiveOperandSize, Widths
<1>3. CASE size = "B"
  BY <1>3 DEF getEffectiveOperandSize, Widths, GetSimpleOperandSize
<1>. QED
  BY <1>1, <1>2, <1>3 DEF DefinedOperandSize

(* Every operand fits.                                                     *)
LEMMA OperandFits ==
  ASSUME NEW s, NEW b, Reading(s, b), Countable(s), s.info.operand_mode \in {16, 32, 64},
         NEW type \in DefinedOperandType, NEW definedSize \in DefinedOperandSize,
         type \in {"sI", "J"} => definedSize # "DQ",
         type \in {"E", "W"} => "IF_SIB" \notin s.info.flags
  PROVE  Fits(s, decodeOperand(s, type, definedSize), b, type)
<1>. SUFFICES ASSUME NEW u, u = decodeOperand(s, type, definedSize)
              PROVE  Fits(s, u, b, type)
  OBVIOUS
<1>. DEFINE size == getEffectiveOperandSize(s.info, definedSize)
            t    == decodeModrm(s)
            reg  == t.info.modrm.reg + 8 * t.info.eff_rexvex.r
            id   == 8 * s.info.eff_rexvex.b
            v    == Raise(s, "IF_RELATIVE")
            class == RegisterOf[type]
<1>1. CASE type = "I"
  <2>1. u = decodeUnsigned(s)
    BY <1>1 DEF decodeOperand
  <2>. HIDE DEF size, t, reg, id, v, class
  <2>2. Effect(s, u, b, 1, {}, 1, 1)
    BY <2>1, UnsignedEffect
  <2>. QED
    BY <2>2, PlainFits
<1>2. CASE type = "sI"
  <2>1. u = decodeImmediate(s, "IMMEDIATE", size)
    BY <1>2 DEF decodeOperand
  <2>2. size \in Widths
    BY <1>2, ImmediateSize
  <2>. HIDE DEF size, t, reg, id, v, class
  <2>3. Effect(s, u, b, size \div 8, {}, size \div 8, 1) /\ size \div 8 \in Nat
    BY <2>1, <2>2, ImmediateEffect DEF Widths
  <2>. QED
    BY <2>3, PlainFits
<1>3. CASE type = "J"
  <2>1. u = decodeImmediate(v, "REL_IMMEDIATE", size)
    BY <1>3 DEF decodeOperand
  <2>2. size \in Widths
    BY <1>3, ImmediateSize
  <2>3. Effect(s, v, b, 0, {"IF_RELATIVE"}, 0, 0)
    BY RaiseEffect DEF IF_ERROR_MASK
  <2>. HIDE DEF size, t, reg, id, v, class
  <2>4. CASE Failed(v)
    <3>1. Reading(v, b) /\ Follows(s, v, b)
      BY <2>3 DEF Effect, Follows
    <3>2. Follows(v, u, b)
      BY <2>1, <3>1, ImmediateFollows
    <3>3. Failed(u) /\ Follows(s, u, b)
      BY <2>4, <3>1, <3>2, FailedStays, FollowsAgain
    <3>. QED
      BY <3>3, FailedFits
  <2>5. CASE ~Failed(v)
    <3>1. Reading(v, b) /\ Countable(v)
      BY <2>3, <2>5 DEF Effect, Follows
    <3>. DEFINE l == size \div 8
    <3>2. Effect(v, u, b, l, {}, l, 1) /\ l \in Nat
      BY <2>1, <2>2, <3>1, ImmediateEffect DEF Widths
    <3>. HIDE DEF l
    <3>3. Effect(s, u, b, 0 + l, {"IF_RELATIVE"} \cup {}, 0 + l, 0 + 1)
      BY <2>3, <3>2, Effects
    <3>4. 0 + l = l /\ 0 + 1 = 1 /\ {"IF_RELATIVE"} \cup {} = {"IF_RELATIVE"}
      BY <3>2
    <3>5. Effect(s, u, b, l, {"IF_RELATIVE"}, l, 1)
      BY <3>3, <3>4
    <3>. QED
      BY <3>2, <3>5, PlainFits
  <2>. QED
    BY <2>4, <2>5
<1>4. ASSUME NEW c, NEW r, u = decodeRegisterOperand(s, c, r, size)
      PROVE  Fits(s, u, b, type)
  <2>1. Effect(s, u, b, 0, {}, 0, 1)
    BY <1>4, RegisterEffect
  <2>. QED
    BY <2>1, PlainFits
<1>5. CASE type \in {"AL", "R0"}
  <2>1. \/ u = decodeRegisterOperand(s, "GENERAL_PURPOSE", 0, size)
        \/ u = decodeRegisterOperand(s, "GENERAL_PURPOSE", id, size)
    BY <1>5 DEF decodeOperand
  <2>. HIDE DEF size, t, reg, id, v, class
  <2>. QED
    BY <1>4, <2>1
<1>6. CASE type = "E"
  <2>1. u = decodeRegisterMemoryOperand(s, "GENERAL_PURPOSE", size)
    BY <1>6 DEF decodeOperand
  <2>. HIDE DEF size, t, reg, id, v, class
  <2>. QED
    BY <1>6, <2>1, RegisterMemoryFits
<1>7. CASE type = "W"
  <2>1. u = decodeRegisterMemoryOperand(s, "XMM", size)
    BY <1>7 DEF decodeOperand
  <2>. HIDE DEF size, t, reg, id, v, class
  <2>. QED
    BY <1>7, <2>1, RegisterMemoryFits
<1>8. CASE type \in {"G", "V"}
  <2>1. u = IF Failed(t) THEN t ELSE decodeRegisterOperand(t, class, reg, size)
    BY <1>8 DEF decodeOperand
  <2>2. Effect(s, t, b, ModrmLength(s.info.flags), {"IF_MODRM"}, 0, 0)
    BY ModrmEffect
  <2>. HIDE DEF size, reg, id, v, class
  <2>3. CASE Failed(t)
    BY <2>1, <2>2, <2>3, FailedFits DEF Effect
  <2>4. CASE ~Failed(t)
    <3>1. Reading(t, b) /\ Countable(t)
      BY <2>2, <2>4 DEF Effect, Follows
    <3>2. Effect(t, u, b, 0, {}, 0, 1)
      BY <2>1, <2>4, <3>1, RegisterEffect
    <3>. QED
      BY <3>2, ModrmFits
  <2>. QED
    BY <2>3, <2>4
<1>. QED
  BY <1>1, <1>2, <1>3, <1>5, <1>6, <1>7, <1>8 DEF DefinedOperandType
-----------------------------------------------------------------------------
(***************************************************************************)
(* How the parts are counted.                                              *)
(***************************************************************************)
Headed(bytes, b, n) ==
  /\ \A k \in 1 .. n : IsPrefixByte(bytes[b + k])
  /\ ~IsPrefixByte(bytes[b + n + 1])

(* The prefixes of an instruction are those bytes of it before the first   *)
(* one that is none.                                                       *)
LEMMA PrefixCountIs ==
  ASSUME NEW i, Len(i.data) \in Nat, NEW bytes, NEW b,
         \A k \in 1 .. Len(i.data) : i.data[k] = bytes[b + k],
         NEW n \in Nat, n < Len(i.data), Headed(bytes, b, n), b \in Nat
  PROVE  PrefixCount(i) = n
<1>. DEFINE P(m) == /\ \A k \in 1 .. m : IsPrefixByte(i.data[k])
                    /\ m < Len(i.data) => ~IsPrefixByte(i.data[m + 1])
            m == PrefixCount(i)
<1>1. n \in 0 .. Len(i.data) /\ n + 1 \in 1 .. Len(i.data) /\ b + n + 1 = b + (n + 1)
  OBVIOUS
<1>2. \A k \in 1 .. n : k \in 1 .. Len(i.data)
  BY <1>1
<1>3. ~IsPrefixByte(i.data[n + 1])
  BY <1>1 DEF Headed
<1>4. P(n)
  BY <1>2, <1>3 DEF Headed
<1>5. m \in 0 .. Len(i.data) /\ P(m)
  <2>1. m = CHOOSE k \in 0 .. Len(i.data) : P(k)
    BY DEF PrefixCount
  <2>. HIDE DEF P, m
  <2>. QED
    BY <1>1, <1>4, <2>1
<1>. HIDE DEF m
<1>6. CASE m < n
  <2>1. m < Len(i.data) /\ m + 1 \in 1 .. n
    BY <1>1, <1>5, <1>6
  <2>2. IsPrefixByte(i.data[m + 1])
    BY <1>4, <2>1
  <2>. QED
    BY <1>5, <2>1, <2>2
<1>7. CASE n < m
  <2>1. n + 1 \in 1 .. m
    BY <1>1, <1>5, <1>7
  <2>. QED
    BY <1>3, <1>5, <2>1
<1>8. m < n \/ n < m \/ m = n
  BY <1>5
<1>. QED
  BY <1>6, <1>7, <1>8 DEF m

LEMMA MarksCount ==
  ASSUME NEW flags
  PROVE  Cardinality(flags \cap {"IF_MODRM", "IF_SIB"}) = Marks(flags)
<1>. DEFINE S == flags \cap {"IF_MODRM", "IF_SIB"}
<1>1. CASE "IF_MODRM" \in flags /\ "IF_SIB" \in flags
  <2>1. S = {"IF_MODRM"} \cup {"IF_SIB"} /\ "IF_SIB" \notin {"IF_MODRM"}
    BY <1>1
  <2>2. IsFiniteSet({"IF_MODRM"}) /\ Cardinality({"IF_MODRM"}) = 1
    BY FS_Singleton
  <2>3. Cardinality(S) = 1 + 1
    BY <2>1, <2>2, FS_AddElement
  <2>. QED
    BY <1>1, <2>3 DEF Marks
<1>2. CASE "IF_MODRM" \in flags /\ "IF_SIB" \notin flags
  <2>1. S = {"IF_MODRM"}
    BY <1>2
  <2>2. Cardinality(S) = 1
    BY <2>1, FS_Singleton
  <2>. QED
    BY <1>2, <2>2 DEF Marks
<1>3. CASE "IF_MODRM" \notin flags /\ "IF_SIB" \in flags
  <2>1. S = {"IF_SIB"}
    BY <1>3
  <2>2. Cardinality(S) = 1
    BY <2>1, FS_Singleton
  <2>. QED
    BY <1>3, <2>2 DEF Marks
<1>4. CASE "IF_MODRM" \notin flags /\ "IF_SIB" \notin flags
  <2>1. S = {}
    BY <1>4
  <2>2. Cardinality(S) = 0
    BY <2>1, FS_EmptySet
  <2>. QED
    BY <1>4, <2>2 DEF Marks
<1>. QED
  BY <1>1, <1>2, <1>3, <1>4
-----------------------------------------------------------------------------
(***************************************************************************)
(* The inductive invariant of the parts.  While there are only prefixes    *)
(* all bytes are prefix bytes; from the first opcode byte on the bytes add *)
(* up to the parts found so far.  No SIB byte is counted twice: it is of a *)
(* register or memory operand, and a definition has one of those.          *)
(***************************************************************************)
OnlyPrefixes(s, b) ==
  /\ Len(s.info.opcode) = 0 /\ Len(s.info.operand) = 0 /\ Marks(s.info.flags) = 0
  /\ \A k \in 1 .. Len(s.info.data) : IsPrefixByte(s.input.bytes[b + k])

Weighed(s, b) ==
  \E n \in Nat :
    /\ n < Len(s.info.data) /\ Headed(s.input.bytes, b, n)
    /\ Len(s.info.data) = n + Len(s.info.opcode) + NumbersLength(s.info.operand)
                          + Marks(s.info.flags)

InTree(child) == child \in DOMAIN optree \/ child \in DOMAIN instrDefinitions \cup {0}

LengthInv ==
  /\ phase \in UnderWay => Countable(Pair) /\ IsSequence(info.opcode)
  /\ phase \in {"prefixes", "opcode"} => OnlyPrefixes(Pair, m_instructionPointer)
  /\ phase = "opcode" /\ ~Failed(Pair) =>
       ~IsPrefixByte(input.bytes[m_instructionPointer + Len(info.data) + 1])
  /\ phase \in {"tree", "operands"} => Weighed(Pair, m_instructionPointer)
  /\ phase = "tree" =>
       Len(info.operand) = 0 /\ "IF_SIB" \notin info.flags /\ InTree(node)
  /\ phase = "operands" =>
       /\ GetOpcodeNodeValue(node) \in DOMAIN instrDefinitions
       /\ info.operand_mode \in {16, 32, 64}
       /\ "IF_SIB" \in info.flags =>
            \E j \in 1 .. Len(info.operand) : OperandDefinitions[j].type \in {"E", "W"}
  /\ LengthIsParts

(* The state after a step to s.                                            *)
LEMMA AfterStep ==
  ASSUME DecoderInv, phase \in UnderWay, NEW s, Follows(Pair, s, m_instructionPointer), Becomes(s)
  PROVE  Pair' = s /\ input' = s.input /\ info' = s.info /\ s.input.bytes = input.bytes
<1>1. I!Goes(Core(Pair), Core(s), m_instructionPointer) /\ IsPair(s)
  BY DEF Follows, Reading
<1>2. s.input.bytes = input.bytes
  BY <1>1, CoreFields, PairIs DEF I!Goes
<1>3. Pair' = [input |-> s.input, info |-> s.info]
  BY DEF Pair, Becomes
<1>. QED
  BY <1>1, <1>2, <1>3 DEF Becomes, IsPair

(* A call that breaks off leaves nothing to count.                         *)
LEMMA BrokenOff ==
  ASSUME LengthInv, UNCHANGED decoded, phase' \in {"failed", "stopped"}
  PROVE  LengthInv'
BY DEF LengthInv, LengthIsParts, UnderWay

(* Bytes of numbers, ModR/M and SIB byte keep the balance.                 *)
LEMMA WeighedOn ==
  ASSUME NEW s, NEW t, NEW b, Reading(s, b), Countable(s), IsSequence(s.info.opcode),
         Weighed(s, b), NEW n \in Nat, NEW l \in Nat, NEW c, NEW F, Effect(s, t, b, n, F, l, c),
         n + Marks(s.info.flags) = l + Marks(s.info.flags \cup F), ~Failed(t)
  PROVE  Weighed(t, b) /\ IsSequence(t.info.opcode) /\ Countable(t)
<1>1. PICK p \in Nat :
        /\ p < Len(s.info.data) /\ Headed(s.input.bytes, b, p)
        /\ Len(s.info.data) = p + Len(s.info.opcode) + NumbersLength(s.info.operand)
                              + Marks(s.info.flags)
  BY DEF Weighed
<1>2. /\ Len(t.info.data) = Len(s.info.data) + n
      /\ NumbersLength(t.info.operand) = NumbersLength(s.info.operand) + l
      /\ t.info.opcode = s.info.opcode
      /\ t.info.flags = s.info.flags \cup F
      /\ Countable(t)
  BY DEF Effect
<1>3. t.input.bytes = s.input.bytes
  <2>1. I!Goes(Core(s), Core(t), b)
    BY DEF Effect, Follows
  <2>. QED
    BY <2>1, CoreFields DEF I!Goes
<1>4. /\ Len(s.info.data) \in Nat /\ Len(s.info.opcode) \in Nat
      /\ NumbersLength(s.info.operand) \in Nat
      /\ Marks(s.info.flags) \in Nat /\ Marks(s.info.flags \cup F) \in Nat
  BY UnderWayIs, Appended DEF Reading, Countable, Marks
<1>5. /\ p < Len(t.info.data)
      /\ Len(t.info.data) = p + Len(t.info.opcode) + NumbersLength(t.info.operand)
                            + Marks(t.info.flags)
  <2>. DEFINE d == Len(s.info.data)
              e == Len(t.info.data)
              o == Len(s.info.opcode)
              x == NumbersLength(s.info.operand)
              y == NumbersLength(t.info.operand)
              f == Marks(s.info.flags)
              g == Marks(s.info.flags \cup F)
  <2>1. /\ d \in Nat /\ o \in Nat /\ x \in Nat /\ f \in Nat /\ g \in Nat
        /\ p < d /\ d = p + o + x + f /\ e = d + n /\ y = x + l /\ n + f = l + g
    BY <1>1, <1>2, <1>4
  <2>2. Len(t.info.opcode) = o /\ Marks(t.info.flags) = g
    BY <1>2
  <2>. HIDE DEF d, e, o, x, y, f, g
  <2>3. p < e /\ e = p + o + y + g
    BY <2>1
  <2>. QED
    BY <2>2, <2>3 DEF e, y
<1>6. Weighed(t, b)
  BY <1>1, <1>3, <1>5 DEF Weighed
<1>. QED
  BY <1>2, <1>6

LEMMA EmptyCounts ==
  ASSUME NEW q, q = << >>
  PROVE  IsSequence(q) /\ Len(q) = 0 /\ NumbersLength(q) = 0
<1>1. q \in Seq({}) /\ Len(q) = 0
  OBVIOUS
<1>. QED
  BY <1>1, NoNumbers DEF IsSequence

LEMMA OpenedLength == Opened => LengthInv
<1>. SUFFICES ASSUME Opened PROVE LengthInv
  OBVIOUS
<1>1. phase = "client" /\ decoded = << >>
  BY DEF Opened
<1>2. LengthIsParts
  BY <1>1 DEF LengthIsParts
<1>. QED
  BY <1>1, <1>2 DEF LengthInv, UnderWay

LEMMA LengthInit == Init => LengthInv
BY InitOpened, OpenedLength

LEMMA CallLength == LengthInv /\ Call => LengthInv'
<1>. SUFFICES ASSUME LengthInv, Call PROVE LengthInv'
  OBVIOUS
<1>1. /\ info' = NewInfo(m_instructionPointer) /\ phase' = "prefixes"
      /\ UNCHANGED decoded
  BY DEF Call
<1>2. /\ info'.opcode = << >> /\ info'.operand = << >> /\ info'.data = << >>
      /\ Marks(info'.flags) = 0
  <2>1. /\ info'.opcode = << >> /\ info'.operand = << >> /\ info'.data = << >>
        /\ info'.flags = {"IF_DISASSEMBLER_MODE_64"}
    BY <1>1 DEF NewInfo
  <2>2. "IF_MODRM" \notin info'.flags /\ "IF_SIB" \notin info'.flags
    BY <2>1
  <2>. QED
    BY <2>1, <2>2 DEF Marks
<1>3. Pair'.info = info'
  BY DEF Pair
<1>4. Countable(Pair') /\ IsSequence(info'.opcode) /\ Len(info'.data) = 0
  BY <1>2, <1>3, EmptyCounts DEF Countable
<1>5. OnlyPrefixes(Pair', m_instructionPointer')
  BY <1>2, <1>3, <1>4, EmptyCounts DEF OnlyPrefixes
<1>6. LengthIsParts'
  BY <1>1 DEF LengthInv, LengthIsParts
<1>. QED
  BY <1>1, <1>4, <1>5, <1>6 DEF LengthInv, UnderWay

(* The byte a peek that did not fail shows is the one that next reads.     *)
LEMMA PeekedByte ==
  ASSUME NEW s, NEW b, Reading(s, b), ~Failed(inputPeek(s))
  PROVE  LET t == inputPeek(s)
         IN  t.info = s.info /\ inputCurrent(t) = s.input.bytes[b + Len(s.info.data) + 1]
<1>. DEFINE t  == inputPeek(s)
            in == internalInputPeek(s.input)
<1>1. ASSUME NEW flag \in InputErrors, t = Raise(s, flag) PROVE FALSE
  <2>. DEFINE f == s.info.flags \cup {flag}
  <2>1. Raise(s, flag) = [s EXCEPT !.info.flags = f]
    BY DEF Raise
  <2>. HIDE DEF f
  <2>2. Raise(s, flag).info.flags = f
    BY <2>1, FlagsReplaced DEF Reading
  <2>3. flag \in f /\ flag \in IF_ERROR_MASK
    BY DEF f, InputErrors, IF_ERROR_MASK
  <2>. HIDE DEF t
  <2>4. Failed(t)
    BY <1>1, <2>2, <2>3 DEF Failed
  <2>. QED
    BY <2>4 DEF t
<1>2. ~isEndOfInput(s.input) /\ t = [s EXCEPT !.input = in]
  BY <1>1 DEF inputPeek, InputErrors
<1>. HIDE DEF in
<1>3. t.info = s.info /\ t.input = in
  BY <1>2, InputReplaced DEF Reading
<1>4. /\ s.input.kind = "memory" /\ s.input \in I!Inputs
      /\ s.input.position = b + Len(s.info.data)
  BY UnderWayIs, InputIsMemory DEF Reading
<1>5. ~AtEnd(s.input)
  BY <1>2, <1>4 DEF isEndOfInput, AtEnd
<1>6. in = [s.input EXCEPT !.current = s.input.bytes[s.input.position + 1]]
  BY <1>5 DEF internalInputPeek, in
<1>7. in.current = s.input.bytes[s.input.position + 1]
  BY <1>4, <1>6 DEF I!Inputs
<1>. HIDE DEF t
<1>. QED
  BY <1>3, <1>4, <1>7 DEF inputCurrent, t

(* A prefix byte that was seen is taken; a peek that failed fails again.   *)
LEMMA PrefixLength ==
  DecoderInv /\ LengthInv /\ Prefix =>
    LengthInv' /\ (phase' = "failed" \/ Len(info'.data) = Len(info.data) + 1)
<1>. SUFFICES ASSUME DecoderInv, LengthInv, Prefix
              PROVE  LengthInv' /\ (phase' = "failed" \/ Len(info'.data) = Len(info.data) + 1)
  OBVIOUS
<1>. DEFINE b == m_instructionPointer
            f == WithPrefix(Peeked.info.flags)
            r == IF IsRex THEN RexOf(inputCurrent(Peeked)) ELSE Peeked.info.rex
            p == [Peeked EXCEPT !.info.flags = f]
            q == [p EXCEPT !.info.rex = r]
            s == inputNext(q)
<1>0. phase = "prefixes" /\ phase \in UnderWay /\ UNCHANGED <<m_instructionPointer, decoded>>
  BY DEF Prefix, UnderWay
<1>1. Follows(Pair, Peeked, b) /\ IsPair(Peeked)
  BY PeekedIs DEF Prefix, Follows, Reading
<1>2. /\ IsPair(p) /\ p.input = Peeked.input /\ p.info.flags = f
      /\ p.info.data = Peeked.info.data /\ p.info.instrAddress = Peeked.info.instrAddress
      /\ p.info.opcode = Peeked.info.opcode /\ p.info.operand = Peeked.info.operand
      /\ p.info.operand_mode = Peeked.info.operand_mode
  <2>. HIDE DEF f
  <2>. QED
    BY <1>1, FlagsReplaced
<1>3. /\ IsPair(q) /\ q.input = Peeked.input /\ q.info.flags = f
      /\ q.info.data = Peeked.info.data /\ q.info.instrAddress = Peeked.info.instrAddress
      /\ q.info.opcode = Peeked.info.opcode /\ q.info.operand = Peeked.info.operand
      /\ q.info.operand_mode = Peeked.info.operand_mode
  <2>. HIDE DEF p, f, r
  <2>. QED
    BY <1>2, RexReplaced
<1>4. /\ f \cap IF_ERROR_MASK = Peeked.info.flags \cap IF_ERROR_MASK
      /\ Marks(f) = Marks(Peeked.info.flags)
  BY DEF WithPrefix, PrefixFlag, RepPrefixes, IF_ERROR_MASK, Marks
<1>5. [Peeked EXCEPT !.info.flags = WithPrefix(@),
                     !.info.rex = IF IsRex THEN RexOf(inputCurrent(Peeked)) ELSE @] = q
  OBVIOUS
<1>6. Becomes(s) /\ phase' = IF Failed(s) THEN "failed" ELSE "prefixes"
  BY <1>5 DEF Prefix, TakePrefix
<1>7. IsRex \/ PrefixFlag(PeekByte) # {}
  BY DEF Prefix
<1>. HIDE DEF f, r, p, q, b
<1>8. Follows(Pair, q, b) /\ Reading(q, b) /\ Follows(Peeked, q, b)
  BY <1>1, <1>3, <1>4, SameFollows, FollowsAgain DEF Follows
<1>9. Follows(Pair, s, b)
  BY <1>8, NextFollows, FollowsAgain
<1>10. CASE Failed(s)
  BY <1>0, <1>6, <1>10, BrokenOff
<1>11. CASE ~Failed(s)
  <2>1. ~Failed(q) /\ ~Failed(Peeked)
    <3>1. ~Failed(q)
      BY <1>8, <1>11, FailedStays, NextFollows
    <3>. QED
      BY <1>3, <1>4, <3>1 DEF Failed
  <2>2. Peeked.info = info /\ inputCurrent(Peeked) = input.bytes[b + Len(info.data) + 1]
    BY <1>0, <2>1, PairReading, PeekedByte, PairIs DEF Peeked, b
  <2>3. IsPrefixByte(input.bytes[b + Len(info.data) + 1])
    BY <1>7, <2>1, <2>2 DEF PeekByte, IsRex, IsPrefixByte
  <2>4. Countable(Pair) /\ IsSequence(info.opcode) /\ OnlyPrefixes(Pair, b)
    BY <1>0 DEF LengthInv, b
  <2>5. Countable(q)
    BY <1>3, <2>2, <2>4, PairIs DEF Countable
  <2>6. Effect(q, s, b, 1, {}, 0, 0)
    BY <1>8, <2>5, NextEffect
  <2>. HIDE DEF s
  <2>7. /\ Len(s.info.data) = Len(info.data) + 1 /\ Marks(s.info.flags) = 0
        /\ s.info.opcode = info.opcode /\ Len(s.info.operand) = 0 /\ Countable(s)
    <3>1. /\ Len(s.info.data) = Len(q.info.data) + 1 /\ s.info.flags = q.info.flags \cup {}
          /\ s.info.opcode = q.info.opcode /\ Len(s.info.operand) = Len(q.info.operand) + 0
          /\ Countable(s)
      BY <1>11, <2>6 DEF Effect
    <3>2. q.info.flags \cup {} = f /\ Marks(f) = 0 /\ Len(q.info.operand) = 0
      BY <1>3, <1>4, <2>2, <2>4, PairIs DEF OnlyPrefixes
    <3>. QED
      BY <1>3, <2>2, <3>1, <3>2
  <2>8. Pair' = s /\ info' = s.info /\ s.input.bytes = input.bytes
    BY <1>0, <1>6, <1>9, AfterStep DEF b
  <2>9. \A k \in 1 .. Len(s.info.data) : IsPrefixByte(input.bytes[b + k])
    <3>. DEFINE l == Len(info.data)
    <3>1. /\ \A k \in 1 .. l : IsPrefixByte(input.bytes[b + k])
      BY <2>4, PairIs DEF OnlyPrefixes
    <3>2. l \in Nat /\ b \in Nat
      BY <1>0, PairReading, UnderWayIs, PairIs DEF Reading, b
    <3>3. Len(s.info.data) = l + 1 /\ IsPrefixByte(input.bytes[b + l + 1])
      BY <2>3, <2>7
    <3>. HIDE DEF l
    <3>4. b + l + 1 = b + (l + 1) /\ \A k \in 1 .. l + 1 : k \in 1 .. l \/ k = l + 1
      BY <3>2
    <3>. QED
      BY <3>1, <3>3, <3>4
  <2>10. OnlyPrefixes(s, b)
    BY <2>4, <2>7, <2>8, <2>9, PairIs DEF OnlyPrefixes
  <2>11. phase' = "prefixes" /\ b' = b
    BY <1>0, <1>6, <1>11 DEF b, s
  <2>12. LengthIsParts'
    BY <1>0 DEF LengthInv, LengthIsParts
  <2>13. LengthInv'
    BY <2>4, <2>7, <2>8, <2>10, <2>11, <2>12 DEF LengthInv, UnderWay, b
  <2>. QED
    BY <2>7, <2>8, <2>13
<1>. QED
  BY <1>10, <1>11

LEMMA EndOfPrefixesLength == DecoderInv /\ LengthInv /\ EndOfPrefixes => LengthInv'
<1>. SUFFICES ASSUME DecoderInv, LengthInv, EndOfPrefixes PROVE LengthInv'
  OBVIOUS
<1>. DEFINE b == m_instructionPointer
<1>1. /\ phase = "prefixes" /\ phase \in UnderWay /\ UNCHANGED <<m_instructionPointer, decoded>>
      /\ Becomes(Peeked) /\ phase' = "opcode" /\ ~IsRex /\ PrefixFlag(PeekByte) = {}
  BY DEF EndOfPrefixes, UnderWay
<1>. HIDE DEF b
<1>2. Follows(Pair, Peeked, b)
  BY <1>1, PeekedIs DEF b
<1>3. /\ Pair' = Peeked /\ info' = Peeked.info /\ input'.bytes = input.bytes
      /\ Peeked.input.bytes = input.bytes
  BY <1>1, <1>2, AfterStep DEF b
<1>4. Countable(Pair) /\ IsSequence(info.opcode) /\ OnlyPrefixes(Pair, b)
  BY <1>1 DEF LengthInv, b
<1>5. /\ Peeked.info.data = info.data /\ Peeked.info.opcode = info.opcode
      /\ Peeked.info.operand = info.operand /\ Marks(Peeked.info.flags) = Marks(info.flags)
  <2>1. ASSUME NEW flag \in InputErrors, Peeked = Raise(Pair, flag)
        PROVE  /\ Peeked.info.data = info.data /\ Peeked.info.opcode = info.opcode
               /\ Peeked.info.operand = info.operand
               /\ Marks(Peeked.info.flags) = Marks(info.flags)
    <3>. DEFINE f == info.flags \cup {flag}
                t == [Pair EXCEPT !.info.flags = f]
    <3>1. Peeked = t
      BY <2>1, PairIs DEF Raise
    <3>2. IsPair(Pair)
      BY <1>1, PairReading DEF Reading
    <3>3. Marks(f) = Marks(info.flags)
      BY DEF Marks, InputErrors
    <3>. HIDE DEF f
    <3>4. /\ t.info.flags = f /\ t.info.data = Pair.info.data
          /\ t.info.opcode = Pair.info.opcode /\ t.info.operand = Pair.info.operand
      BY <3>2, FlagsReplaced, ZenonT(60)
    <3>. QED
      BY <3>1, <3>3, <3>4, PairIs
  <2>2. CASE ~CanRead(Pair)
    BY <2>1, <2>2 DEF Peeked, inputPeek, InputErrors
  <2>3. CASE CanRead(Pair) /\ isEndOfInput(Pair.input)
    BY <2>1, <2>3 DEF Peeked, inputPeek, InputErrors
  <2>4. CASE CanRead(Pair) /\ ~isEndOfInput(Pair.input)
    <3>. DEFINE in == internalInputPeek(input)
    <3>1. Peeked = [Pair EXCEPT !.input = in]
      BY <2>4, PairIs DEF Peeked, inputPeek
    <3>. HIDE DEF in
    <3>2. Peeked.info = info
      BY <3>1, PairIs DEF Pair
    <3>. QED
      BY <3>2
  <2>. QED
    BY <2>2, <2>3, <2>4
<1>6. Countable(Peeked) /\ IsSequence(Peeked.info.opcode) /\ OnlyPrefixes(Peeked, b)
  BY <1>3, <1>4, <1>5, PairIs DEF Countable, OnlyPrefixes
<1>7. ~Failed(Peeked) => ~IsPrefixByte(input.bytes[b + Len(info.data) + 1])
  <2>. SUFFICES ASSUME ~Failed(Peeked)
                PROVE  ~IsPrefixByte(input.bytes[b + Len(info.data) + 1])
    OBVIOUS
  <2>1. inputCurrent(Peeked) = input.bytes[b + Len(info.data) + 1]
    BY <1>1, PairReading, PeekedByte, PairIs DEF Peeked, b
  <2>. QED
    BY <1>1, <2>1 DEF PeekByte, IsRex, IsPrefixByte
<1>8. LengthIsParts'
  BY <1>1 DEF LengthInv, LengthIsParts
<1>9. b' = b
  BY <1>1 DEF b
<1>. QED
  BY <1>1, <1>3, <1>5, <1>6, <1>7, <1>8, <1>9 DEF LengthInv, UnderWay, b

(* An opcode byte is a part of its own.                                    *)
LEMMA OpcodeTaken ==
  ASSUME NEW s, NEW b, Reading(s, b), Countable(s), IsSequence(s.info.opcode),
         ~Failed(inputNext(s))
  PROVE  LET t == TakeOpcode(inputNext(s))
         IN  /\ Follows(s, t, b) /\ ~Failed(t) /\ Countable(t) /\ IsSequence(t.info.opcode)
             /\ Len(t.info.data) = Len(s.info.data) + 1 /\ t.info.flags = s.info.flags
             /\ Len(t.info.opcode) = Len(s.info.opcode) + 1
             /\ NumbersLength(t.info.operand) = NumbersLength(s.info.operand)
             /\ Len(t.info.operand) = Len(s.info.operand)
<1>. DEFINE u == inputNext(s)
            v == Append(u.info.opcode, inputCurrent(u))
            t == [u EXCEPT !.info.opcode = v]
<1>1. TakeOpcode(u) = t
  BY DEF TakeOpcode
<1>2. Effect(s, u, b, 1, {}, 0, 0)
  BY NextEffect
<1>. HIDE DEF u, v
<1>3. Reading(u, b)
  BY <1>2 DEF Effect, Follows
<1>4. /\ IsPair(t) /\ t.info.flags = u.info.flags
      /\ t.info.data = u.info.data /\ t.info.operand = u.info.operand /\ t.info.opcode = v
  BY <1>3, OpcodeReplaced, ZenonT(60) DEF Reading
<1>5. Follows(s, t, b)
  BY <1>1, <1>2, <1>3, OpcodeFollows, FollowsAgain DEF Effect
<1>. HIDE DEF t
<1>6. ~Failed(u)
  BY DEF u
<1>7. /\ Len(u.info.data) = Len(s.info.data) + 1 /\ u.info.flags = s.info.flags \cup {}
      /\ u.info.opcode = s.info.opcode /\ Countable(u)
      /\ NumbersLength(u.info.operand) = NumbersLength(s.info.operand) + 0
      /\ Len(u.info.operand) = Len(s.info.operand) + 0
  BY <1>2, <1>6 DEF Effect
<1>8. IsSequence(v) /\ Len(v) = Len(s.info.opcode) + 1
  BY <1>7, Appended DEF v
<1>9. NumbersLength(s.info.operand) \in Nat /\ Len(s.info.operand) \in Nat
  BY Appended DEF Countable
<1>10. ~Failed(t) /\ Countable(t)
  BY <1>4, <1>6, <1>7 DEF Failed, Countable
<1>11. /\ NumbersLength(t.info.operand) = NumbersLength(s.info.operand)
       /\ Len(t.info.operand) = Len(s.info.operand)
  BY <1>4, <1>7, <1>9
<1>. QED
  BY <1>1, <1>4, <1>5, <1>7, <1>8, <1>10, <1>11 DEF u

LEMMA ChildInTree ==
  ASSUME NEW table \in DOMAIN optree, NEW index, HasChild(table, index)
  PROVE  InTree(GetOpcodeTreeChild(table, index))
BY TreeAssumption DEF HasChild, GetOpcodeTreeChild, InTree

(* The first opcode byte is the first that is no prefix.                   *)
LEMMA FirstOpcodeLength == DecoderInv /\ LengthInv /\ FirstOpcode => LengthInv'
<1>. SUFFICES ASSUME DecoderInv, LengthInv, FirstOpcode PROVE LengthInv'
  OBVIOUS
<1>. DEFINE b == m_instructionPointer
            s == inputNext(Pair)
            t == TakeOpcode(s)
<1>1. /\ phase = "opcode" /\ phase \in UnderWay /\ OpcodeByte(GetOpcodeTreeRoot)
      /\ UNCHANGED <<m_instructionPointer, decoded>>
  BY DEF FirstOpcode, UnderWay
<1>2. CASE Failed(s)
  <2>1. phase' = "failed"
    BY <1>1, <1>2 DEF OpcodeByte
  <2>. QED
    BY <1>1, <2>1, BrokenOff
<1>3. CASE ~Failed(s)
  <2>1. /\ Becomes(t) /\ phase' = "tree"
        /\ HasChild(GetOpcodeTreeRoot, inputCurrent(s))
        /\ node' = GetOpcodeTreeChild(GetOpcodeTreeRoot, inputCurrent(s))
    BY <1>1, <1>3 DEF OpcodeByte
  <2>2. Reading(Pair, b) /\ Countable(Pair) /\ IsSequence(info.opcode) /\ OnlyPrefixes(Pair, b)
    BY <1>1, PairReading DEF LengthInv
  <2>3. ~Failed(Pair)
    BY <1>3, <2>2, NextFollows, FailedStays
  <2>4. /\ Follows(Pair, t, b) /\ ~Failed(t) /\ Countable(t) /\ IsSequence(t.info.opcode)
        /\ Len(t.info.data) = Len(info.data) + 1 /\ t.info.flags = info.flags
        /\ Len(t.info.opcode) = Len(info.opcode) + 1
        /\ NumbersLength(t.info.operand) = NumbersLength(info.operand)
        /\ Len(t.info.operand) = Len(info.operand)
    BY <1>3, <2>2, OpcodeTaken, PairIs
  <2>5. InTree(node')
    BY <2>1, ChildInTree, TreeAssumption
  <2>. HIDE DEF s, t
  <2>6. Pair' = t /\ info' = t.info /\ t.input.bytes = input.bytes
    BY <1>1, <2>1, <2>4, AfterStep
  <2>. HIDE DEF b
  <2>7. Len(info.operand) = 0 /\ Len(info.opcode) = 0 /\ Marks(info.flags) = 0
    BY <2>2, PairIs DEF OnlyPrefixes
  <2>8. Len(info.data) \in Nat
    BY <2>2, UnderWayIs, PairIs DEF Reading
  <2>9. Headed(input.bytes, b, Len(info.data))
    BY <1>1, <2>2, <2>3, PairIs DEF LengthInv, OnlyPrefixes, Headed, b
  <2>10. Weighed(t, b)
    <3>. DEFINE l == Len(info.data)
    <3>1. Len(t.info.data) = l + 1 /\ Headed(t.input.bytes, b, l) /\ l \in Nat
      BY <2>4, <2>6, <2>8, <2>9
    <3>2. Len(t.info.opcode) = 1 /\ NumbersLength(t.info.operand) = 0 /\ Marks(t.info.flags) = 0
      BY <2>4, <2>7, NoNumbers
    <3>. HIDE DEF l
    <3>3. l < l + 1 /\ l + 1 = l + 1 + 0 + 0
      BY <3>1
    <3>. QED
      BY <3>1, <3>2, <3>3 DEF Weighed
  <2>11. "IF_SIB" \notin t.info.flags
    BY <2>4, <2>7 DEF Marks
  <2>12. LengthIsParts'
    BY <1>1 DEF LengthInv, LengthIsParts
  <2>13. b' = b /\ Len(t.info.operand) = 0
    BY <1>1, <2>4, <2>7 DEF b
  <2>. QED
    BY <2>1, <2>4, <2>5, <2>6, <2>10, <2>11, <2>12, <2>13 DEF LengthInv, UnderWay, b
<1>. QED
  BY <1>2, <1>3

(* Only the tables of the tree have children.                              *)
LEMMA IsTable ==
  ASSUME InTree(node), NEW type \in DOMAIN OpcodeTreeNodeType, IsNode(node, type),
         type # "INSTRUCTION_DEFINITION"
  PROVE  node \in DOMAIN optree
<1>1. OpcodeTreeNodeType[type] # 0
  BY DEF OpcodeTreeNodeType
<1>2. node \in DOMAIN instrDefinitions \cup {0} => node \in 0 .. 4095
  <2>1. \A value \in DOMAIN instrDefinitions : value \in 1 .. NodeValues - 1
    BY TreeAssumption
  <2>. QED
    BY <2>1 DEF NodeValues
<1>3. node \in 0 .. 4095 => node \div 4096 = 0
  OBVIOUS
<1>. QED
  BY <1>1, <1>2, <1>3 DEF IsNode, GetOpcodeNodeType, NodeValues, InTree

LEMMA TableLength == DecoderInv /\ LengthInv /\ Table => LengthInv'
<1>. SUFFICES ASSUME DecoderInv, LengthInv, Table PROVE LengthInv'
  OBVIOUS
<1>. DEFINE b == m_instructionPointer
            s == inputNext(Pair)
            t == TakeOpcode(s)
<1>1. /\ phase = "tree" /\ phase \in UnderWay /\ OpcodeByte(node) /\ IsNode(node, "TABLE")
      /\ UNCHANGED <<m_instructionPointer, decoded>>
  BY DEF Table, UnderWay
<1>2. CASE Failed(s)
  <2>1. phase' = "failed"
    BY <1>1, <1>2 DEF OpcodeByte
  <2>. QED
    BY <1>1, <2>1, BrokenOff
<1>3. CASE ~Failed(s)
  <2>1. /\ Becomes(t) /\ phase' = "tree" /\ HasChild(node, inputCurrent(s))
        /\ node' = GetOpcodeTreeChild(node, inputCurrent(s))
    BY <1>1, <1>3 DEF OpcodeByte
  <2>2. /\ Reading(Pair, b) /\ Countable(Pair) /\ IsSequence(info.opcode) /\ Weighed(Pair, b)
        /\ Len(info.operand) = 0 /\ "IF_SIB" \notin info.flags /\ InTree(node)
    BY <1>1, PairReading DEF LengthInv
  <2>3. /\ Follows(Pair, t, b) /\ ~Failed(t) /\ Countable(t) /\ IsSequence(t.info.opcode)
        /\ Len(t.info.data) = Len(info.data) + 1 /\ t.info.flags = info.flags
        /\ Len(t.info.opcode) = Len(info.opcode) + 1
        /\ NumbersLength(t.info.operand) = NumbersLength(info.operand)
        /\ Len(t.info.operand) = Len(info.operand)
    BY <1>3, <2>2, OpcodeTaken, PairIs
  <2>4. InTree(node')
    <3>1. node \in DOMAIN optree
      BY <1>1, <2>2, IsTable DEF OpcodeTreeNodeType
    <3>. QED
      BY <2>1, <3>1, ChildInTree
  <2>. HIDE DEF s, t
  <2>5. Pair' = t /\ info' = t.info /\ t.input.bytes = input.bytes
    BY <1>1, <2>1, <2>3, AfterStep
  <2>. HIDE DEF b
  <2>6. Weighed(t, b)
    <3>1. PICK n \in Nat :
            /\ n < Len(info.data) /\ Headed(input.bytes, b, n)
            /\ Len(info.data) = n + Len(info.opcode) + NumbersLength(info.operand)
                                + Marks(info.flags)
      BY <2>2, PairIs DEF Weighed
    <3>2. /\ Len(info.data) \in Nat /\ Len(info.opcode) \in Nat
          /\ NumbersLength(info.operand) \in Nat /\ Marks(info.flags) \in Nat
      BY <2>2, UnderWayIs, Appended, PairIs DEF Reading, Countable, Marks
    <3>. DEFINE d == Len(info.data)
                o == Len(info.opcode)
                x == NumbersLength(info.operand)
                f == Marks(info.flags)
    <3>3. /\ d \in Nat /\ o \in Nat /\ x \in Nat /\ f \in Nat /\ n < d /\ d = n + o + x + f
      BY <3>1, <3>2
    <3>4. /\ Len(t.info.data) = d + 1 /\ Len(t.info.opcode) = o + 1
          /\ NumbersLength(t.info.operand) = x /\ Marks(t.info.flags) = f
      BY <2>3
    <3>. HIDE DEF d, o, x, f
    <3>5. n < d + 1 /\ d + 1 = n + (o + 1) + x + f
      BY <3>3
    <3>. QED
      BY <2>5, <3>1, <3>4, <3>5 DEF Weighed
  <2>7. LengthIsParts'
    BY <1>1 DEF LengthInv, LengthIsParts
  <2>8. b' = b
    BY <1>1 DEF b
  <2>. QED
    BY <2>1, <2>2, <2>3, <2>4, <2>5, <2>6, <2>7, <2>8 DEF LengthInv, UnderWay, b
<1>. QED
  BY <1>2, <1>3

(* The ModR/M byte may be read in the tree, before any operand.            *)
LEMMA ModrmRegLength == DecoderInv /\ LengthInv /\ ModrmReg => LengthInv'
<1>. SUFFICES ASSUME DecoderInv, LengthInv, ModrmReg PROVE LengthInv'
  OBVIOUS
<1>. DEFINE b == m_instructionPointer
            s == decodeModrm(Pair)
            m == ModrmLength(info.flags)
<1>1. /\ phase = "tree" /\ phase \in UnderWay /\ IsNode(node, "MODRM_REG") /\ Becomes(s)
      /\ IF Failed(s) THEN phase' = "failed" /\ UNCHANGED node
         ELSE /\ HasChild(node, s.info.modrm.reg)
              /\ node' = GetOpcodeTreeChild(node, s.info.modrm.reg)
              /\ UNCHANGED phase
      /\ UNCHANGED <<m_instructionPointer, decoded>>
  BY DEF ModrmReg, UnderWay
<1>2. CASE Failed(s)
  BY <1>1, <1>2, BrokenOff
<1>3. CASE ~Failed(s)
  <2>2. /\ Reading(Pair, b) /\ Countable(Pair) /\ IsSequence(info.opcode) /\ Weighed(Pair, b)
        /\ Len(info.operand) = 0 /\ "IF_SIB" \notin info.flags /\ InTree(node)
    BY <1>1, PairReading DEF LengthInv
  <2>3. Effect(Pair, s, b, m, {"IF_MODRM"}, 0, 0)
    BY <2>2, ModrmEffect, PairIs
  <2>. HIDE DEF s
  <2>4. InTree(node')
    <3>1. node \in DOMAIN optree
      BY <1>1, <2>2, IsTable DEF OpcodeTreeNodeType
    <3>. QED
      BY <1>1, <1>3, <3>1, ChildInTree
  <2>5. Pair' = s /\ info' = s.info
    BY <1>1, <2>3, AfterStep DEF Effect
  <2>. HIDE DEF b
  <2>6. m \in Nat /\ m + Marks(info.flags) = 0 + Marks(info.flags \cup {"IF_MODRM"})
    BY DEF ModrmLength, Marks
  <2>. HIDE DEF m
  <2>7. Weighed(s, b) /\ IsSequence(s.info.opcode) /\ Countable(s)
    BY <1>3, <2>2, <2>3, <2>6, WeighedOn, PairIs
  <2>8. s.info.flags = info.flags \cup {"IF_MODRM"} /\ Len(s.info.operand) = Len(info.operand) + 0
    BY <1>3, <2>3, PairIs DEF Effect
  <2>9. "IF_SIB" \notin s.info.flags /\ Len(s.info.operand) = 0
    BY <2>2, <2>8
  <2>10. LengthIsParts'
    BY <1>1 DEF LengthInv, LengthIsParts
  <2>11. b' = b /\ phase' = "tree"
    BY <1>1, <1>3 DEF b
  <2>. QED
    BY <2>4, <2>5, <2>7, <2>9, <2>10, <2>11 DEF LengthInv, UnderWay, b
<1>. QED
  BY <1>2, <1>3

LEMMA MandatoryLength == DecoderInv /\ LengthInv /\ Mandatory => LengthInv'
<1>. SUFFICES ASSUME DecoderInv, LengthInv, Mandatory PROVE LengthInv'
  OBVIOUS
<1>. DEFINE index == IF GetOpcodeTreeChild(node, MandatoryIndex) = 0 THEN 0 ELSE MandatoryIndex
            f == info.flags \ UsedPrefixes(index)
<1>1. /\ phase = "tree" /\ IsNode(node, "MANDATORY") /\ HasChild(node, index)
      /\ node' = GetOpcodeTreeChild(node, index)
      /\ info' = [info EXCEPT !.flags = f]
      /\ UNCHANGED <<input, m_instructionPointer, phase, decoded>>
  BY DEF Mandatory
<1>2. index \in 0 .. 3
  BY DEF MandatoryIndex
<1>3. Marks(f) = Marks(info.flags) /\ ("IF_SIB" \in f => "IF_SIB" \in info.flags)
  <2>. HIDE DEF index
  <2>. QED
    BY <1>2 DEF UsedPrefixes, RepPrefixes, Marks
<1>. HIDE DEF index, f
<1>4. IsInfo(info) /\ InTree(node)
  BY <1>1, PairIs DEF DecoderInv, LengthInv, IsPair, AtClient
<1>5. /\ info'.flags = f /\ info'.data = info.data /\ info'.opcode = info.opcode
      /\ info'.operand = info.operand
  BY <1>1, <1>4 DEF IsInfo
<1>6. InTree(node')
  <2>1. node \in DOMAIN optree
    BY <1>1, <1>4, IsTable DEF OpcodeTreeNodeType
  <2>. QED
    BY <1>1, <2>1, ChildInTree
<1>7. Pair'.info = info' /\ Pair'.input = input
  BY <1>1 DEF Pair
<1>8. Countable(Pair) /\ Weighed(Pair, m_instructionPointer) /\ IsSequence(info.opcode)
  BY <1>1 DEF LengthInv, UnderWay
<1>9. Countable(Pair') /\ Weighed(Pair', m_instructionPointer')
  BY <1>1, <1>3, <1>5, <1>7, <1>8, PairIs DEF Countable, Weighed
<1>10. LengthIsParts'
  BY <1>1 DEF LengthInv, LengthIsParts
<1>. QED
  BY <1>1, <1>3, <1>5, <1>6, <1>8, <1>9, <1>10 DEF LengthInv, UnderWay

LEMMA ModeLength == LengthInv /\ Mode => LengthInv'
<1>. SUFFICES ASSUME LengthInv, Mode PROVE LengthInv'
  OBVIOUS
<1>1. /\ phase = "tree" /\ IsNode(node, "MODE") /\ HasChild(node, 1)
      /\ node' = GetOpcodeTreeChild(node, 1)
      /\ UNCHANGED <<input, info, m_instructionPointer, phase, decoded>>
  BY DEF Mode
<1>2. InTree(node')
  <2>1. node \in DOMAIN optree
    BY <1>1, IsTable DEF LengthInv, OpcodeTreeNodeType
  <2>. QED
    BY <1>1, <2>1, ChildInTree
<1>3. Pair' = Pair
  BY <1>1 DEF Pair
<1>4. LengthIsParts'
  BY <1>1 DEF LengthInv, LengthIsParts
<1>. QED
  BY <1>1, <1>2, <1>3, <1>4 DEF LengthInv, UnderWay

LEMMA IsDefinition ==
  ASSUME InTree(node), IsNode(node, "INSTRUCTION_DEFINITION"), GetOpcodeNodeValue(node) # 0
  PROVE  GetOpcodeNodeValue(node) \in DOMAIN instrDefinitions
<1>1. node \in DOMAIN optree => FALSE
  <2>. SUFFICES ASSUME node \in DOMAIN optree PROVE FALSE
    OBVIOUS
  <2>. DEFINE last == 15 * NodeValues - 1
  <2>1. node \in NodeValues .. last
    BY TreeAssumption
  <2>. HIDE DEF last
  <2>2. node \in Int /\ 4096 <= node
    BY <2>1 DEF NodeValues
  <2>3. node \div 4096 = 0
    BY DEF IsNode, GetOpcodeNodeType, OpcodeTreeNodeType, NodeValues
  <2>. QED
    BY <2>2, <2>3
<1>2. node # 0
  BY DEF GetOpcodeNodeValue, NodeValues
<1>3. node \in DOMAIN instrDefinitions
  BY <1>1, <1>2 DEF InTree
<1>4. node \in 1 .. 4095
  <2>1. \A value \in DOMAIN instrDefinitions : value \in 1 .. NodeValues - 1
    BY TreeAssumption
  <2>. QED
    BY <1>3, <2>1 DEF NodeValues
<1>5. GetOpcodeNodeValue(node) = node
  BY <1>4 DEF GetOpcodeNodeValue, NodeValues
<1>. QED
  BY <1>3, <1>5

(* The leaf sets the mode the sizes of the operands depend on.             *)
LEMMA DefinitionLength == DecoderInv /\ LengthInv /\ Definition => LengthInv'
<1>. SUFFICES ASSUME DecoderInv, LengthInv, Definition PROVE LengthInv'
  OBVIOUS
<1>. DEFINE definition == GetInstructionDefinition(node)
            eff       == EffectiveRex(info.rex, definition.flags)
            operands  == OperandMode(eff, info.flags, definition.flags)
            addresses == IF "IF_PREFIX_ADDRESS_SIZE" \in info.flags THEN 32 ELSE 64
            mnemonic  == definition.mnemonic
<1>1. /\ phase = "tree" /\ UNCHANGED <<m_instructionPointer, node, decoded>>
      /\ IsNode(node, "INSTRUCTION_DEFINITION")
  BY DEF Definition
<1>2. \/ phase' = "failed"
      \/ /\ info' = [info EXCEPT !.mnemonic = mnemonic, !.eff_rexvex = eff,
                                 !.operand_mode = operands, !.address_mode = addresses]
         /\ phase' = "operands" /\ UNCHANGED input
         /\ GetOpcodeNodeValue(node) # 0
  BY Zenon DEF Definition
<1>3. operands \in {16, 32, 64}
  <2>. HIDE DEF eff, definition
  <2>. QED
    BY DEF OperandMode
<1>. HIDE DEF definition, eff, operands, addresses, mnemonic
<1>4. CASE phase' = "failed"
  BY <1>1, <1>4, BrokenOff
<1>5. CASE /\ info' = [info EXCEPT !.mnemonic = mnemonic, !.eff_rexvex = eff,
                                  !.operand_mode = operands, !.address_mode = addresses]
           /\ phase' = "operands" /\ UNCHANGED input
           /\ GetOpcodeNodeValue(node) # 0
  <2>1. IsInfo(info)
    BY <1>1, PairIs DEF DecoderInv, IsPair, AtClient
  <2>2. /\ info'.flags = info.flags /\ info'.data = info.data /\ info'.opcode = info.opcode
        /\ info'.operand = info.operand /\ info'.operand_mode = operands
    BY <1>5, <2>1 DEF IsInfo
  <2>3. /\ Countable(Pair) /\ Weighed(Pair, m_instructionPointer) /\ IsSequence(info.opcode)
        /\ "IF_SIB" \notin info.flags /\ InTree(node)
    BY <1>1 DEF LengthInv, UnderWay
  <2>4. GetOpcodeNodeValue(node) \in DOMAIN instrDefinitions
    BY <1>1, <1>5, <2>3, IsDefinition
  <2>5. Pair'.info = info' /\ Pair'.input = input
    BY <1>5 DEF Pair
  <2>6. Countable(Pair') /\ Weighed(Pair', m_instructionPointer')
    BY <1>1, <2>2, <2>3, <2>5, PairIs DEF Countable, Weighed
  <2>7. LengthIsParts'
    BY <1>1 DEF LengthInv, LengthIsParts
  <2>8. GetOpcodeNodeValue(node)' \in DOMAIN instrDefinitions
    BY <1>1, <2>4
  <2>. QED
    BY <1>3, <1>5, <2>2, <2>3, <2>6, <2>7, <2>8 DEF LengthInv, UnderWay
<1>. QED
  BY <1>2, <1>4, <1>5

(* One more operand.                                                       *)
OneOperandMore ==
  /\ \E n \in Nat : Len(info'.data) = Len(info.data) + n
  /\ Len(info'.operand) = Len(info.operand) + 1

LEMMA OperandLength ==
  DecoderInv /\ LengthInv /\ Operand => LengthInv' /\ (phase' = "failed" \/ OneOperandMore)
<1>. SUFFICES ASSUME DecoderInv, LengthInv, Operand
              PROVE  LengthInv' /\ (phase' = "failed" \/ OneOperandMore)
  OBVIOUS
<1>. DEFINE b    == m_instructionPointer
            c    == Len(info.operand)
            q    == OperandDefinitions
            next == OperandDefinitions[Len(info.operand) + 1]
            s    == decodeOperand(Pair, next.type, next.size)
<1>1. /\ phase = "operands" /\ UNCHANGED <<m_instructionPointer, node, decoded>>
      /\ Becomes(s) /\ phase' = IF Failed(s) THEN "failed" ELSE "operands"
      /\ c < Len(q)
  BY DEF Operand
<1>2. CASE Failed(s)
  BY <1>1, <1>2, BrokenOff
<1>3. CASE ~Failed(s)
  <2>1. /\ Reading(Pair, b) /\ Countable(Pair) /\ IsSequence(info.opcode) /\ Weighed(Pair, b)
        /\ GetOpcodeNodeValue(node) \in DOMAIN instrDefinitions
        /\ info.operand_mode \in {16, 32, 64}
        /\ "IF_SIB" \in info.flags =>
             \E j \in 1 .. Len(info.operand) : OperandDefinitions[j].type \in {"E", "W"}
    BY <1>1, PairReading DEF LengthInv, UnderWay
  <2>2. /\ q \in Seq(OperandDefinition)
        /\ \A i \in DOMAIN q : q[i].type \in {"sI", "J"} => q[i].size # "DQ"
        /\ \A i, j \in DOMAIN q : q[i].type \in {"E", "W"} /\ q[j].type \in {"E", "W"} => i = j
    <3>. DEFINE value == GetOpcodeNodeValue(node)
    <3>1. value \in DOMAIN instrDefinitions /\ q = instrDefinitions[value].operand
      BY <2>1 DEF OperandDefinitions, GetInstructionDefinition
    <3>. HIDE DEF value, q
    <3>2. instrDefinitions[value] \in InstructionDefinition
      BY <3>1, TreeAssumption
    <3>3. q \in Seq(OperandDefinition)
      BY <3>1, <3>2 DEF InstructionDefinition
    <3>. QED
      BY <3>1, <3>3, TreeAssumption
  <2>3. c \in Nat
    BY <2>1, Appended, PairIs DEF Countable
  <2>. HIDE DEF q, c
  <2>4. DOMAIN q = 1 .. Len(q) /\ Len(q) \in Nat
    BY <2>2
  <2>5. c + 1 \in DOMAIN q /\ \A j \in 1 .. c : j \in DOMAIN q /\ j # c + 1
    BY <1>1, <2>3, <2>4
  <2>6. next = q[c + 1] /\ q[c + 1] \in OperandDefinition
    BY <2>2, <2>5 DEF q, c
  <2>. HIDE DEF next
  <2>7. next.type \in DefinedOperandType /\ next.size \in DefinedOperandSize
    BY <2>6 DEF OperandDefinition
  <2>8. next.type \in {"sI", "J"} => next.size # "DQ"
    BY <2>2, <2>5, <2>6
  <2>9. next.type \in {"E", "W"} => "IF_SIB" \notin info.flags
    <3>1. "IF_SIB" \in info.flags => \E j \in 1 .. c : q[j].type \in {"E", "W"}
      BY <2>1 DEF c, q
    <3>. QED
      BY <2>2, <2>5, <2>6, <3>1
  <2>10. Fits(Pair, s, b, next.type)
    BY <2>1, <2>7, <2>8, <2>9, OperandFits, PairIs
  <2>11. PICK n \in Nat, l \in Nat, F \in SUBSET OperandFlags :
           /\ Effect(Pair, s, b, n, F, l, 1)
           /\ n + Marks(info.flags) = l + Marks(info.flags \cup F)
           /\ "IF_SIB" \in F => next.type \in {"E", "W"}
    BY <2>10, PairIs DEF Fits
  <2>. HIDE DEF s
  <2>12. Weighed(s, b) /\ IsSequence(s.info.opcode) /\ Countable(s)
    BY <1>3, <2>1, <2>11, WeighedOn, PairIs
  <2>13. Pair' = s /\ info' = s.info
    BY <1>1, <2>11, AfterStep DEF Effect, UnderWay
  <2>14. /\ Len(s.info.operand) = c + 1 /\ s.info.flags = info.flags \cup F
         /\ s.info.operand_mode = info.operand_mode
    BY <1>3, <2>11, PairIs DEF Effect, c
  <2>15. ASSUME "IF_SIB" \in s.info.flags
         PROVE  \E j \in 1 .. Len(s.info.operand) : q[j].type \in {"E", "W"}
    <3>1. CASE "IF_SIB" \in info.flags
      <4>1. PICK j \in 1 .. c : q[j].type \in {"E", "W"}
        BY <2>1, <3>1 DEF c, q
      <4>2. j \in 1 .. c + 1
        BY <2>3
      <4>. QED
        BY <2>14, <4>1, <4>2
    <3>2. CASE "IF_SIB" \in F
      <4>1. c + 1 \in 1 .. c + 1 /\ q[c + 1].type \in {"E", "W"}
        BY <2>3, <2>6, <2>11, <3>2
      <4>. QED
        BY <2>14, <4>1
    <3>. QED
      BY <2>14, <2>15, <3>1, <3>2
  <2>16. OperandDefinitions' = q /\ GetOpcodeNodeValue(node)' = GetOpcodeNodeValue(node)
    BY <1>1 DEF OperandDefinitions, GetInstructionDefinition, q
  <2>17. LengthIsParts'
    BY <1>1 DEF LengthInv, LengthIsParts
  <2>18. phase' = "operands" /\ b' = b
    BY <1>1, <1>3
  <2>. HIDE DEF b
  <2>19. Countable(Pair') /\ IsSequence(info'.opcode) /\ Weighed(Pair', b')
    BY <2>12, <2>13, <2>18
  <2>20. /\ info'.operand_mode \in {16, 32, 64}
         /\ "IF_SIB" \in info'.flags =>
              \E j \in 1 .. Len(info'.operand) : q[j].type \in {"E", "W"}
    BY <2>1, <2>13, <2>14, <2>15
  <2>21. LengthInv'
    BY <2>1, <2>16, <2>17, <2>18, <2>19, <2>20 DEF LengthInv, UnderWay, b
  <2>22. Len(s.info.data) = Len(info.data) + n
    BY <1>3, <2>11, PairIs DEF Effect
  <2>23. OneOperandMore
    BY <2>13, <2>14, <2>22 DEF OneOperandMore, c
  <2>. QED
    BY <2>21, <2>23
<1>. QED
  BY <1>2, <1>3

(* One more instruction that was decoded.                                  *)
AddsUp(i) ==
  i.flags \cap IF_ERROR_MASK = {} =>
    Len(i.data) = PrefixCount(i) + Len(i.opcode) + NumbersLength(i.operand)
                  + Cardinality(i.flags \cap {"IF_MODRM", "IF_SIB"})

LEMMA OneMoreAddsUp ==
  ASSUME IsSequence(decoded), LengthIsParts, NEW i, AddsUp(i), decoded' = Append(decoded, i)
  PROVE  LengthIsParts'
<1>1. /\ IsSequence(decoded') /\ Len(decoded) \in Nat /\ Len(decoded') = Len(decoded) + 1
      /\ \A k \in 1 .. Len(decoded) : decoded'[k] = decoded[k]
      /\ decoded'[Len(decoded) + 1] = i
  BY Appended
<1>2. DOMAIN decoded = 1 .. Len(decoded) /\ DOMAIN decoded' = 1 .. Len(decoded')
  BY <1>1 DEF IsSequence
<1>3. \A k \in DOMAIN decoded : AddsUp(decoded[k])
  BY DEF LengthIsParts, AddsUp
<1>4. ASSUME NEW k \in DOMAIN decoded' PROVE AddsUp(decoded'[k])
  <2>1. k \in 1 .. Len(decoded) \/ k = Len(decoded) + 1
    BY <1>1, <1>2
  <2>. QED
    BY <1>1, <1>2, <1>3, <2>1
<1>. QED
  BY <1>4 DEF LengthIsParts, AddsUp

LEMMA SucceedLength == DecoderInv /\ LengthInv /\ Succeed => LengthInv'
<1>. SUFFICES ASSUME DecoderInv, LengthInv, Succeed PROVE LengthInv'
  OBVIOUS
<1>. DEFINE b == m_instructionPointer
<1>1. /\ phase = "operands" /\ phase' = "client" /\ decoded' = Append(decoded, info')
      /\ info' = [info EXCEPT !.instrPointer = m_instructionPointer']
  BY DEF Succeed
<1>2. Reading(Pair, b) /\ IsInfo(info) /\ Countable(Pair) /\ Weighed(Pair, b)
  BY <1>1, PairReading, PairIs DEF LengthInv, UnderWay, Reading, IsPair
<1>. HIDE DEF b
<1>3. /\ info'.flags = info.flags /\ info'.data = info.data /\ info'.opcode = info.opcode
      /\ info'.operand = info.operand
  BY <1>1, <1>2 DEF IsInfo
<1>4. PICK n \in Nat :
        /\ n < Len(info.data) /\ Headed(input.bytes, b, n)
        /\ Len(info.data) = n + Len(info.opcode) + NumbersLength(info.operand) + Marks(info.flags)
  BY <1>2, PairIs DEF Weighed
<1>5. /\ b \in Nat /\ Len(info.data) \in Nat
      /\ \A k \in 1 .. Len(info.data) : info.data[k] = input.bytes[b + k]
  BY <1>2, UnderWayIs, PairIs DEF Reading
<1>6. PrefixCount(info') = n
  <2>1. /\ Len(info'.data) \in Nat /\ n < Len(info'.data)
        /\ \A k \in 1 .. Len(info'.data) : info'.data[k] = input.bytes[b + k]
    BY <1>3, <1>4, <1>5
  <2>. QED
    BY <1>4, <1>5, <2>1, PrefixCountIs
<1>7. AddsUp(info')
  BY <1>3, <1>4, <1>6, MarksCount DEF AddsUp
<1>8. IsSequence(decoded) /\ LengthIsParts
  BY DEF DecoderInv, Tiled, LengthInv
<1>9. LengthIsParts'
  BY <1>1, <1>7, <1>8, OneMoreAddsUp
<1>. QED
  BY <1>1, <1>9 DEF LengthInv, UnderWay

(* What is left of a broken instruction has its error.                     *)
LEMMA FailLength == DecoderInv /\ LengthInv /\ Fail => LengthInv'
<1>. SUFFICES ASSUME DecoderInv, LengthInv, Fail PROVE LengthInv'
  OBVIOUS
<1>1. CASE EndOfInput
  <2>1. phase' = "stopped" /\ UNCHANGED decoded
    BY <1>1 DEF Fail
  <2>. QED
    BY <2>1, BrokenOff
<1>2. CASE ~EndOfInput
  <2>1. /\ phase' = "client" /\ decoded' = Append(decoded, info')
        /\ info' = KeptInfo(<<Head(info.data)>>)
    BY <1>2 DEF Fail
  <2>2. info.flags \cap IF_ERROR_MASK # {}
    BY PairIs DEF DecoderInv, Fail, Failed
  <2>3. info'.flags = {"IF_DISASSEMBLER_MODE_64"} \cup (info.flags \cap IF_ERROR_MASK)
    BY <2>1 DEF KeptInfo, NewInfo
  <2>4. AddsUp(info')
    BY <2>2, <2>3 DEF AddsUp
  <2>5. IsSequence(decoded) /\ LengthIsParts
    BY DEF DecoderInv, Tiled, LengthInv
  <2>6. LengthIsParts'
    BY <2>1, <2>4, <2>5, OneMoreAddsUp
  <2>. QED
    BY <2>1, <2>6 DEF LengthInv, UnderWay
<1>. QED
  BY <1>1, <1>2

LEMMA LengthStep == DecoderInv /\ LengthInv /\ [Next]_vars => LengthInv'
<1>. SUFFICES ASSUME DecoderInv, LengthInv, [Next]_vars PROVE LengthInv'
  OBVIOUS
<1>1. CASE UNCHANGED vars
  <2>1. UNCHANGED <<input, info, m_instructionPointer, phase, node, decoded>>
    BY <1>1 DEF vars
  <2>2. Pair' = Pair /\ OperandDefinitions' = OperandDefinitions
    BY <2>1 DEF Pair, OperandDefinitions, GetInstructionDefinition
  <2>3. LengthIsParts'
    BY <2>1 DEF LengthInv, LengthIsParts
  <2>. QED
    BY <2>1, <2>2, <2>3 DEF LengthInv
<1>. QED
  BY <1>1, CallLength, PrefixLength, EndOfPrefixesLength, FirstOpcodeLength, TableLength,
     ModrmRegLength, MandatoryLength, ModeLength, DefinitionLength, OperandLength,
     SucceedLength, FailLength DEF Next

(* An instruction that was decoded is as long as its prefixes, opcode,     *)
(* ModR/M byte, SIB byte and the numbers of its operands: no byte is read  *)
(* twice, as the ModR/M byte is asked for by the tree and by operands, and *)
(* none is left unread (decodePrefixes, decodeOpcode, decodeModrm,         *)
(* decodeOperand, inputNext).                                              *)
THEOREM LengthIsPartsCorrect == Spec => []LengthIsParts
<1>1. LengthInv => LengthIsParts
  BY DEF LengthInv
<1>2. Spec => []LengthInv
  BY LengthInit, LengthStep, DecoderInvariant, PTL DEF Spec
<1>. QED
  BY <1>1, <1>2, PTL
-----------------------------------------------------------------------------
(***************************************************************************)
(* The test: whatever calls the encoder is given, its buffer holds bytes,  *)
(* and from the moment the decoder opens that buffer it is the decoder of  *)
(* the theorems above.                                                     *)
(***************************************************************************)
BeforeDecoding == {"encoding", "aborted"}

TestInv ==
  /\ program \in Programs /\ lengths \in Seq(Nat) /\ buffer \in Seq(Byte)
  /\ phase \in BeforeDecoding => m_instructionPointer = 0 /\ decoded = << >>
  /\ phase \notin BeforeDecoding => DecoderInv /\ LengthInv

LEMMA EncodedBytes ==
  ASSUME NEW c \in EncoderCalls
  PROVE  Encode(c).bytes \in Seq(Byte)
<1>1. /\ c.proc \in EncoderProcs \cup Operations /\ c.dest \in Int /\ c.src \in Int
      /\ c.offset \in Int /\ c.value \in Int
  BY DEF EncoderCalls, Registers
<1>2. Rex64 \in Byte
  BY DEF Rex64, encode_rex, Byte
<1>3. Opcode(c.proc) \in Byte
  BY <1>1 DEF EncoderProcs, Operations, RegRegProcs, RegOffsetProcs, Opcode, Byte
<1>4. ASSUME NEW mod \in {0, 1, 3}, NEW rm \in Int, NEW reg \in Int
      PROVE  encode_modrm(mod, rm, reg) \in Byte /\ encode_sib(mod, rm, reg) \in Byte
  <2>1. mod % 4 \in 0 .. 3 /\ rm % 8 \in 0 .. 7 /\ reg % 8 \in 0 .. 7
    OBVIOUS
  <2>. QED
    BY <2>1 DEF encode_modrm, encode_sib, Byte
<1>5. ASSUME NEW value \in Int PROVE encode_disp8(value) \in Byte
  BY DEF encode_disp8, Byte
<1>6. op_reg_reg(c).bytes \in Seq(Byte)
  BY <1>1, <1>2, <1>3, <1>4 DEF op_reg_reg
<1>7. mov_regoffset_reg(c).bytes \in Seq(Byte)
  BY <1>1, <1>2, <1>3, <1>4, <1>5 DEF mov_regoffset_reg
<1>8. mov_regoffset_constant(c).bytes \in Seq(Byte)
  BY <1>1, <1>2, <1>3, <1>4, <1>5 DEF mov_regoffset_constant
<1>9. sub_reg_const(c).bytes \in Seq(Byte)
  BY <1>1, <1>2, <1>3, <1>4, <1>5 DEF sub_reg_const, RBP
<1>10. op_reg_regoffset(c).bytes \in Seq(Byte)
  BY <1>1, <1>2, <1>3, <1>4, <1>5 DEF op_reg_regoffset
<1>11. Encode(c) \in {op_reg_reg(c), mov_regoffset_reg(c), mov_regoffset_constant(c),
                      sub_reg_const(c), op_reg_regoffset(c)}
  BY <1>1 DEF Encode, EncoderProcs, Operations, RegRegProcs, RegOffsetProcs
<1>. QED
  BY <1>6, <1>7, <1>8, <1>9, <1>10, <1>11

LEMMA TestInitOK == TestInit => TestInv
<1>. SUFFICES ASSUME TestInit PROVE TestInv
  OBVIOUS
<1>1. /\ program \in Programs /\ lengths = << >> /\ buffer = << >>
      /\ phase = "encoding" /\ m_instructionPointer = 0 /\ decoded = << >>
  BY DEF TestInit
<1>. QED
  BY <1>1 DEF TestInv, BeforeDecoding

LEMMA EncodeOneOK == TestInv /\ EncodeOne => TestInv'
<1>. SUFFICES ASSUME TestInv, EncodeOne PROVE TestInv'
  OBVIOUS
<1>1. /\ phase = "encoding" /\ phase' \in BeforeDecoding
      /\ UNCHANGED <<m_instructionPointer, decoded, program>>
  BY DEF EncodeOne, BeforeDecoding
<1>2. program \in Seq(EncoderCalls) /\ lengths \in Seq(Nat) /\ buffer \in Seq(Byte)
  BY ProgramsAssumption DEF TestInv
<1>3. program[Len(lengths) + 1] \in EncoderCalls
  <2>1. Len(lengths) \in Nat /\ Len(program) \in Nat /\ Len(lengths) < Len(program)
    BY <1>2 DEF EncodeOne
  <2>. QED
    BY <1>2, <2>1
<1>4. Encoded.bytes \in Seq(Byte)
  BY <1>3, EncodedBytes DEF Encoded
<1>5. lengths' \in Seq(Nat) /\ buffer' \in Seq(Byte)
  <2>1. CASE Encoded.asserted
    <3>1. buffer' = buffer \o Encoded.bytes /\ lengths' = Append(lengths, Len(Encoded.bytes))
      BY <2>1 DEF EncodeOne
    <3>2. Len(Encoded.bytes) \in Nat
      BY <1>4
    <3>. QED
      BY <1>2, <1>4, <3>1, <3>2
  <2>2. CASE ~Encoded.asserted
    BY <1>2, <2>2 DEF EncodeOne
  <2>. QED
    BY <2>1, <2>2
<1>. QED
  BY <1>1, <1>5 DEF TestInv, BeforeDecoding

LEMMA OpenedLater == Opened' => DecoderInv' /\ LengthInv'
<1>1. Opened => DecoderInv /\ LengthInv
  BY OpenedOK, OpenedLength
<1>. QED
  BY <1>1, PTL

(* The buffer becomes the source, or one of the test's own buffers does.   *)
LEMMA SetDataSourceOK == TestInv /\ setDataSource => TestInv'
<1>. SUFFICES ASSUME TestInv, setDataSource PROVE TestInv'
  OBVIOUS
<1>1. /\ phase = "encoding" /\ phase' = "client"
      /\ m_instructionPointer' = 0 /\ decoded' = << >>
      /\ UNCHANGED <<program, lengths, buffer>>
  BY DEF setDataSource, TestInv, BeforeDecoding
<1>2. \E source \in Buffers, garbage \in Uninitialized : input' = Open(source, garbage)
  <2>1. PICK garbage \in Uninitialized :
          \E source \in IF program = << >> THEN Sources
                        ELSE {[kind |-> "memory", bytes |-> buffer]} :
            input' = Open(source, garbage)
    BY DEF setDataSource
  <2>2. PICK source \in IF program = << >> THEN Sources
                        ELSE {[kind |-> "memory", bytes |-> buffer]} :
          input' = Open(source, garbage)
    BY <2>1
  <2>3. source.kind = "memory" /\ source.bytes \in Seq(Byte)
    BY <2>2, SourcesAssumption, MemoryAssumption DEF TestInv
  <2>. DEFINE other == [kind |-> "memory", bytes |-> source.bytes]
  <2>4. other \in Buffers /\ Open(other, garbage) = Open(source, garbage)
    BY <2>3 DEF Buffers, Open
  <2>. QED
    BY <2>2, <2>4
<1>3. Opened'
  BY <1>1, <1>2 DEF Opened
<1>. QED
  BY <1>1, <1>3, OpenedLater DEF TestInv, BeforeDecoding

LEMMA DecodeOK == TestInv /\ Decode => TestInv'
<1>. SUFFICES ASSUME TestInv, Decode PROVE TestInv'
  OBVIOUS
<1>1. Next /\ UNCHANGED <<program, lengths, buffer>>
  BY DEF Decode
<1>2. phase \notin BeforeDecoding
  BY <1>1 DEF Next, Call, Prefix, EndOfPrefixes, FirstOpcode, Table, ModrmReg, Mandatory, Mode,
              Definition, Operand, Succeed, Fail, BeforeDecoding
<1>3. DecoderInv' /\ LengthInv'
  BY <1>1, <1>2, DecoderStep, LengthStep DEF TestInv
<1>4. phase' \notin BeforeDecoding
  BY <1>3 DEF DecoderInv, UnderWay, BeforeDecoding
<1>. QED
  BY <1>1, <1>3, <1>4 DEF TestInv

LEMMA TestStutter == TestInv /\ UNCHANGED testvars => TestInv'
<1>. SUFFICES ASSUME TestInv, UNCHANGED testvars PROVE TestInv'
  OBVIOUS
<1>1. UNCHANGED vars /\ UNCHANGED <<program, lengths, buffer>> /\ UNCHANGED <<phase, decoded>>
      /\ UNCHANGED m_instructionPointer
  BY DEF testvars, vars
<1>2. DecoderInv /\ LengthInv => DecoderInv' /\ LengthInv'
  BY <1>1, DecoderStep, LengthStep
<1>. QED
  BY <1>1, <1>2 DEF TestInv

(* Every run of the test, whatever is encoded and whichever of the         *)
(* encoder's assertions fails: what the disassembler makes of the buffer   *)
(* tiles it, each instruction is as long as its parts, and what is left    *)
(* when decodeInstruction returns false is shorter than an instruction     *)
(* (TestCodegenX86_64.cpp).                                                *)
THEOREM TestDecodesCorrect == TestSpec => [](InstructionsTile /\ LengthIsParts /\ RestIsShort)
<1>1. TestInv /\ [TestNext \/ Ended]_testvars => TestInv'
  BY EncodeOneOK, SetDataSourceOK, DecodeOK, TestStutter DEF TestNext, Ended
<1>2. TestInv => InstructionsTile /\ LengthIsParts /\ RestIsShort
  <2>. SUFFICES ASSUME TestInv PROVE InstructionsTile /\ LengthIsParts /\ RestIsShort
    OBVIOUS
  <2>1. CASE phase \in BeforeDecoding
    <3>1. phase # "stopped" /\ ~AtClient /\ decoded = << >>
      BY <2>1 DEF TestInv, BeforeDecoding, AtClient
    <3>. QED
      BY <3>1 DEF InstructionsTile, LengthIsParts, RestIsShort
  <2>2. CASE phase \notin BeforeDecoding
    BY <2>2, TiledInstructions DEF TestInv, DecoderInv, LengthInv
  <2>. QED
    BY <2>1, <2>2
<1>. QED
  BY <1>1, <1>2, TestInitOK, PTL DEF TestSpec
-----------------------------------------------------------------------------
(***************************************************************************)
(* A program of calls, and the decoder on its way through their bytes.     *)
(***************************************************************************)
(* The fields of the ModR/M byte a call writes.                            *)
ModrmOf(c) ==
  CASE c.proc \in RegRegProcs -> [mod |-> 3, reg |-> c.src, rm |-> c.dest]
    [] c.proc = "mov_regoffset_reg" -> [mod |-> 1, reg |-> c.src, rm |-> c.dest]
    [] c.proc = "mov_regoffset_constant" -> [mod |-> 1, reg |-> c.dest, rm |-> c.dest]
    [] c.proc = "sub_reg_const" -> [mod |-> 3, reg |-> RBP, rm |-> c.dest]
    [] c.proc \in RegOffsetProcs -> [mod |-> 1, reg |-> c.dest, rm |-> c.src]

Signed8(byte) == byte - (IF byte >= 128 THEN 256 ELSE 0)

(* What there is to read in the bytes of a call, and how many bytes each   *)
(* operand takes behind the ModR/M byte.                                   *)
Written(c) == Encode(c).bytes
Extra(c, type) ==
  CASE type = "E" -> IF ModrmOf(c).mod = 3 THEN 0 ELSE IF ModrmOf(c).rm = 4 THEN 2 ELSE 1
    [] type = "G" -> 0
    [] type = "sI" -> 1
ReadAs(c, type) ==
  CASE type = "E" -> IF ModrmOf(c).mod = 3 THEN Reg(ModrmOf(c).rm)
                     ELSE Mem(ModrmOf(c).rm, Signed8(Written(c)[3 + Extra(c, "E")]))
    [] type = "G" -> Reg(ModrmOf(c).reg)
    [] type = "sI" -> Imm(Signed8(Written(c)[4]))

TypeAt(c, k) == OperandsOf(c.proc)[k].type
Behind(c, n) == 3 + (IF n >= 1 THEN Extra(c, TypeAt(c, 1)) ELSE 0)
                  + (IF n >= 2 THEN Extra(c, TypeAt(c, 2)) ELSE 0)

(* The decoder on its way through the bytes of a call: the REX prefix, the *)
(* opcode, the ModR/M byte with the opcode's own leaf or for an operand,   *)
(* the operands.                                                           *)
RexOfCall == [w |-> 1, r |-> 0, x |-> 0, b |-> 0]
RexOnly   == {"IF_DISASSEMBLER_MODE_64", "IF_PREFIX_REX"}
InLongMode(i) == i.operand_mode = 64 /\ i.address_mode = 64 /\ i.eff_rexvex = RexOfCall

HasModrm(s, c) == "IF_MODRM" \in s.info.flags /\ s.info.modrm = ModrmOf(c)
BeforeModrm(s) == "IF_MODRM" \notin s.info.flags /\ Len(s.info.data) = 2

ModrmRead(c) ==
  \/ HasModrm(Pair, c) /\ Len(info.data) = Behind(c, Len(info.operand))
  \/ BeforeModrm(Pair) /\ info.operand = << >>

AtPrefixes ==
  /\ info.flags \subseteq RexOnly /\ info.operand = << >>
  /\ Len(info.data) = 0 \/ (Len(info.data) = 1 /\ info.rex = RexOfCall)

AtOpcode ==
  /\ info.flags \subseteq RexOnly /\ info.operand = << >>
  /\ Len(info.data) = 1 /\ info.rex = RexOfCall

AtNode(c) ==
  /\ info.flags \subseteq RexOnly \cup {"IF_MODRM"} /\ info.operand = << >> /\ info.rex = RexOfCall
  /\ \/ LeadsTo(node, c.proc) /\ ModrmRead(c)
     \/ /\ c.proc = "sub_reg_const" /\ BeforeModrm(Pair)
        /\ node = GetOpcodeTreeChild(GetOpcodeTreeRoot, Opcode(c.proc))

AtOperands(c) ==
  /\ info.flags \subseteq RexOnly \cup {"IF_MODRM", "IF_SIB"}
  /\ LeadsTo(node, c.proc)
  /\ info.mnemonic = MnemonicOf(c.proc) /\ InLongMode(info)
  /\ IsSequence(info.operand) /\ Len(info.operand) <= 2
  /\ ModrmRead(c)
  /\ \A k \in 1 .. Len(info.operand) : Seen(info.operand[k]) = ReadAs(c, TypeAt(c, k))

OnItsWay(c) ==
  \/ phase = "client"
  \/ phase = "prefixes" /\ AtPrefixes
  \/ phase = "opcode" /\ AtOpcode
  \/ phase = "tree" /\ AtNode(c)
  \/ phase = "operands" /\ AtOperands(c)

(* Behind the last call the input ends.                                    *)
NothingLeft ==
  /\ phase \in {"client", "prefixes", "opcode", "failed", "stopped"}
  /\ phase \in {"prefixes", "opcode", "failed"} => info.data = << >>
  /\ phase = "failed" => EndOfInput

(* Where each call begins in the buffer.                                   *)
EncodedAt(place) ==
  /\ place \in [1 .. Len(lengths) + 1 -> Nat]
  /\ place[1] = 0 /\ place[Len(lengths) + 1] = Len(buffer) /\ Len(lengths) <= Len(program)
  /\ \A k \in 1 .. Len(lengths) :
       /\ place[k + 1] = place[k] + lengths[k] /\ place[k + 1] <= Len(buffer)
       /\ Encode(program[k]).asserted /\ lengths[k] = Len(Written(program[k]))
       /\ \A i \in 1 .. lengths[k] : buffer[place[k] + i] = Written(program[k])[i]

Lost == \E k \in DOMAIN decoded \cap DOMAIN program : ~Expressible(program[k]) /\ ~AsAsked(k)

OnTrack(place) ==
  /\ Len(decoded) <= Len(program)
  /\ \A k \in 1 .. Len(decoded) : Expressible(program[k]) /\ AsAsked(k)
  /\ phase # "stopped" => input.bytes = buffer /\ m_instructionPointer = place[Len(decoded) + 1]
  /\ Len(decoded) < Len(program) => OnItsWay(program[Len(decoded) + 1])
  /\ Len(decoded) = Len(program) => NothingLeft
-----------------------------------------------------------------------------
(***************************************************************************)
(* What the encoder writes.                                                *)
(***************************************************************************)
LEMMA FieldsOfModrm ==
  ASSUME NEW mod \in {1, 3}, NEW rm \in 0 .. 7, NEW reg \in 0 .. 7
  PROVE  /\ encode_modrm(mod, rm, reg) = 64 * mod + 8 * reg + rm
         /\ ParseModrm(encode_modrm(mod, rm, reg)) = [mod |-> mod, reg |-> reg, rm |-> rm]
<1>. DEFINE byte == 64 * mod + 8 * reg + rm
<1>1. encode_modrm(mod, rm, reg) = byte
  BY DEF encode_modrm
<1>2. Bits(byte, 6, 2) = mod /\ Bits(byte, 3, 3) = reg /\ Bits(byte, 0, 3) = rm
  <2>1. 2 ^ 0 = 1 /\ 2 ^ 2 = 4 /\ 2 ^ 3 = 8 /\ 2 ^ 6 = 64
    OBVIOUS
  <2>2. (byte \div 64) % 4 = mod /\ (byte \div 8) % 8 = reg /\ byte % 8 = rm
    BY SMTT(60)
  <2>. QED
    BY <2>1, <2>2 DEF Bits
<1>3. ParseModrm(byte) = [mod |-> mod, reg |-> reg, rm |-> rm]
  <2>. HIDE DEF byte
  <2>. QED
    BY <1>2 DEF ParseModrm
<1>. QED
  BY <1>1, <1>3

IsCall(c) == c \in EncoderCalls /\ Encode(c).asserted

(* The bytes of a call whose assertions hold, and the fields in them.      *)
LEMMA CallIs ==
  ASSUME NEW c, IsCall(c)
  PROVE  /\ c.proc \in EncoderProcs /\ c.dest \in 0 .. 15 /\ c.src \in 0 .. 15
         /\ c.offset \in Nat /\ c.value \in Nat
         /\ c.proc \in RegRegProcs => Encode(c) = op_reg_reg(c)
         /\ c.proc = "mov_regoffset_reg" => Encode(c) = mov_regoffset_reg(c)
         /\ c.proc = "mov_regoffset_constant" => Encode(c) = mov_regoffset_constant(c)
         /\ c.proc = "sub_reg_const" => Encode(c) = sub_reg_const(c)
         /\ c.proc \in RegOffsetProcs => Encode(c) = op_reg_regoffset(c)
<1>1. /\ c.proc \in EncoderProcs \cup Operations /\ c.dest \in 0 .. 15 /\ c.src \in 0 .. 15
      /\ c.offset \in Nat /\ c.value \in Nat
  BY DEF IsCall, EncoderCalls, Registers
<1>2. c.proc \in EncoderProcs
  <2>1. SUFFICES ASSUME c.proc \in Operations \ RegOffsetProcs PROVE FALSE
    BY <1>1 DEF EncoderProcs
  <2>2. Encode(c) = op_reg_regoffset(c)
    BY <2>1 DEF Encode, Operations, RegRegProcs, RegOffsetProcs
  <2>3. op_reg_regoffset(c).asserted => c.proc \in RegOffsetProcs
    BY DEF op_reg_regoffset
  <2>. QED
    BY <2>1, <2>2, <2>3 DEF IsCall
<1>. QED
  BY <1>1, <1>2 DEF Encode, Operations, RegRegProcs, RegOffsetProcs

ModrmBytes(c) == encode_modrm(ModrmOf(c).mod, ModrmOf(c).rm, ModrmOf(c).reg)

(* The number a call writes behind the address.                            *)
Number(c) == IF c.proc \in {"sub_reg_const", "mov_regoffset_constant"} THEN c.value ELSE c.offset

LEMMA CallWrites ==
  ASSUME NEW c, IsCall(c)
  PROVE  /\ ModrmOf(c) = [mod |-> ModrmOf(c).mod, reg |-> ModrmOf(c).reg, rm |-> ModrmOf(c).rm]
         /\ ModrmOf(c).mod \in {1, 3} /\ ModrmOf(c).reg \in 0 .. 7 /\ ModrmOf(c).rm \in 0 .. 7
         /\ ModrmOf(c).mod = 3 <=> c.proc \in RegRegProcs \cup {"sub_reg_const"}
         /\ ModrmOf(c).mod = 1 => Number(c) \in 0 .. 255 /\
              \E sib : /\ Written(c) = <<72, Opcode(c.proc), ModrmBytes(c), sib, Number(c)>>
                       /\ sib \in Byte /\ (ModrmOf(c).rm = 4 => sib = 36)
         /\ c.proc = "sub_reg_const" => Number(c) \in 0 .. 255 /\ ModrmOf(c).reg = 5 /\
              Written(c) = <<72, Opcode(c.proc), ModrmBytes(c), Number(c)>>
         /\ c.proc \in RegRegProcs => Written(c) = <<72, Opcode(c.proc), ModrmBytes(c)>>
<1>1. /\ c.proc \in EncoderProcs /\ c.dest \in 0 .. 15 /\ c.src \in 0 .. 15
      /\ c.offset \in Nat /\ c.value \in Nat /\ Encode(c).asserted
  BY CallIs DEF IsCall
<1>2. Rex64 = 72
  BY DEF Rex64, encode_rex
<1>3. \A value \in 0 .. 255 : encode_disp8(value) = value
  BY DEF encode_disp8
<1>4. \A base \in 0 .. 7 : encode_sib(0, base, base) \in Byte
  BY DEF encode_sib, Byte
<1>5. encode_sib(0, 4, 4) = 36
  BY DEF encode_sib
<1>6. CASE c.proc \in RegRegProcs
  <2>1. Encode(c) = op_reg_reg(c)
    BY <1>6, CallIs
  <2>2. c.dest \in 0 .. 7 /\ c.src \in 0 .. 7
    <3>1. op_reg_reg(c).asserted = ModrmAsserted(c.dest, c.src)
      BY DEF op_reg_reg
    <3>2. ModrmAsserted(c.dest, c.src)
      BY <1>1, <2>1, <3>1, Zenon
    <3>. QED
      BY <1>1, <3>2 DEF ModrmAsserted, R8
  <2>3. ModrmOf(c) = [mod |-> 3, reg |-> c.src, rm |-> c.dest]
    BY <1>6 DEF ModrmOf, RegRegProcs, RegOffsetProcs
  <2>4. Written(c) = <<72, Opcode(c.proc), ModrmBytes(c)>>
    BY <1>2, <2>1, <2>3 DEF op_reg_reg, ModrmBytes, Written
  <2>. QED
    BY <1>6, <2>2, <2>3, <2>4 DEF RegRegProcs
<1>7. CASE c.proc = "sub_reg_const"
  <2>1. Encode(c) = sub_reg_const(c)
    BY <1>7, CallIs
  <2>2. c.dest \in 0 .. 7 /\ c.value \in 0 .. 255
    <3>1. sub_reg_const(c).asserted = (ModrmAsserted(c.dest, RBP) /\ Disp8Asserted(c.value))
      BY DEF sub_reg_const
    <3>2. ModrmAsserted(c.dest, RBP) /\ Disp8Asserted(c.value)
      BY <1>1, <2>1, <3>1, Zenon
    <3>. QED
      BY <1>1, <3>2 DEF ModrmAsserted, Disp8Asserted, R8, RBP
  <2>3. ModrmOf(c) = [mod |-> 3, reg |-> 5, rm |-> c.dest]
    BY <1>7 DEF ModrmOf, RegRegProcs, RegOffsetProcs, RBP
  <2>4. Written(c) = <<72, Opcode(c.proc), ModrmBytes(c), c.value>>
    BY <1>2, <1>3, <2>1, <2>2, <2>3 DEF sub_reg_const, ModrmBytes, RBP, Written
  <2>. QED
    BY <1>7, <2>2, <2>3, <2>4 DEF RegRegProcs, Number
<1>8. CASE c.proc \in {"mov_regoffset_reg", "mov_regoffset_constant"} \cup RegOffsetProcs
  <2>. DEFINE sib == IF c.proc \in RegOffsetProcs THEN encode_sib(0, c.src, c.src)
                     ELSE encode_sib(0, 4, 4)
  <2>1. CASE c.proc = "mov_regoffset_reg"
    <3>1. Encode(c) = mov_regoffset_reg(c)
      BY <2>1, CallIs
    <3>2. c.dest \in 0 .. 7 /\ c.src \in 0 .. 7 /\ c.offset \in 0 .. 255
      <4>1. mov_regoffset_reg(c).asserted = (ModrmAsserted(c.dest, c.src) /\ Disp8Asserted(c.offset))
        BY DEF mov_regoffset_reg
      <4>2. ModrmAsserted(c.dest, c.src) /\ Disp8Asserted(c.offset)
        BY <1>1, <3>1, <4>1, Zenon
      <4>. QED
        BY <1>1, <4>2 DEF ModrmAsserted, Disp8Asserted, R8
    <3>3. ModrmOf(c) = [mod |-> 1, reg |-> c.src, rm |-> c.dest]
      BY <2>1 DEF ModrmOf, RegRegProcs, RegOffsetProcs
    <3>4. Written(c) = <<72, Opcode(c.proc), ModrmBytes(c), sib, c.offset>>
      BY <1>2, <1>3, <2>1, <3>1, <3>2, <3>3 DEF mov_regoffset_reg, ModrmBytes, RegOffsetProcs, Written
    <3>5. sib = 36 /\ sib \in Byte
      BY <1>5, <2>1 DEF RegOffsetProcs, Byte
    <3>. QED
      BY <2>1, <3>2, <3>3, <3>4, <3>5 DEF RegRegProcs, Number
  <2>2. CASE c.proc = "mov_regoffset_constant"
    <3>1. Encode(c) = mov_regoffset_constant(c)
      BY <2>2, CallIs
    <3>2. c.dest \in 0 .. 7 /\ c.value \in 0 .. 255
      <4>1. mov_regoffset_constant(c).asserted = (ModrmAsserted(c.dest, c.dest) /\ Disp8Asserted(c.value))
        BY DEF mov_regoffset_constant
      <4>2. ModrmAsserted(c.dest, c.dest) /\ Disp8Asserted(c.value)
        BY <1>1, <3>1, <4>1, Zenon
      <4>. QED
        BY <1>1, <4>2 DEF ModrmAsserted, Disp8Asserted, R8
    <3>3. ModrmOf(c) = [mod |-> 1, reg |-> c.dest, rm |-> c.dest]
      BY <2>2 DEF ModrmOf, RegRegProcs, RegOffsetProcs
    <3>4. Written(c) = <<72, Opcode(c.proc), ModrmBytes(c), sib, c.value>>
      BY <1>2, <1>3, <2>2, <3>1, <3>2, <3>3 DEF mov_regoffset_constant, ModrmBytes, RegOffsetProcs, Written
    <3>5. sib = 36 /\ sib \in Byte
      BY <1>5, <2>2 DEF RegOffsetProcs, Byte
    <3>. QED
      BY <2>2, <3>2, <3>3, <3>4, <3>5 DEF RegRegProcs, Number
  <2>3. CASE c.proc \in RegOffsetProcs
    <3>1. Encode(c) = op_reg_regoffset(c)
      BY <2>3, CallIs
    <3>2. c.dest \in 0 .. 7 /\ c.src \in 0 .. 7 /\ c.offset \in 0 .. 255
      <4>1. op_reg_regoffset(c).asserted
              => ModrmAsserted(c.src, c.dest) /\ Disp8Asserted(c.offset)
        BY DEF op_reg_regoffset
      <4>2. ModrmAsserted(c.src, c.dest) /\ Disp8Asserted(c.offset)
        BY <1>1, <3>1, <4>1, Zenon
      <4>. QED
        BY <1>1, <4>2 DEF ModrmAsserted, Disp8Asserted, R8
    <3>3. ModrmOf(c) = [mod |-> 1, reg |-> c.dest, rm |-> c.src]
      BY <2>3 DEF ModrmOf, RegRegProcs, RegOffsetProcs
    <3>4. Written(c) = <<72, Opcode(c.proc), ModrmBytes(c), sib, c.offset>>
      BY <1>2, <1>3, <2>3, <3>1, <3>2, <3>3 DEF op_reg_regoffset, ModrmBytes, Written
    <3>5. sib \in Byte /\ (c.src = 4 => sib = 36)
      BY <1>4, <1>5, <2>3, <3>2
    <3>. QED
      BY <2>3, <3>2, <3>3, <3>4, <3>5 DEF RegRegProcs, RegOffsetProcs, Number
  <2>. QED
    BY <1>8, <2>1, <2>2, <2>3
<1>. QED
  BY <1>1, <1>6, <1>7, <1>8 DEF EncoderProcs
-----------------------------------------------------------------------------
(***************************************************************************)
(* Reading the bytes of a call.                                            *)
(***************************************************************************)
InfoFields == {"flags", "data", "opcode", "mnemonic", "rex", "eff_rexvex", "modrm",
               "operand_mode", "address_mode", "operand", "instrAddress", "instrPointer"}

(* Of an instruction no more than some fields change.                      *)
SameBut(i, j, fields) == \A f \in InfoFields \ fields : j[f] = i[f]

LEMMA Replaced ==
  ASSUME NEW i, IsInfo(i), NEW field \in InfoFields, NEW v
  PROVE  LET j == [i EXCEPT ![field] = v]
         IN  IsInfo(j) /\ j[field] = v /\ SameBut(i, j, {field})
<1>. DEFINE j == [i EXCEPT ![field] = v]
<1>1. DOMAIN i = InfoFields
  BY DEF IsInfo, InfoFields
<1>2. j = [f \in InfoFields |-> IF f = field THEN v ELSE i[f]]
  BY <1>1
<1>. HIDE DEF j
<1>3. j[field] = v /\ SameBut(i, j, {field})
  BY <1>2 DEF SameBut
<1>4. IsInfo(j)
  BY <1>2 DEF IsInfo, InfoFields
<1>. QED
  BY <1>3, <1>4 DEF j

LEMMA SameButAgain ==
  ASSUME NEW i, NEW j, NEW k, NEW F, NEW G, SameBut(i, j, F), SameBut(j, k, G)
  PROVE  SameBut(i, k, F \cup G)
BY DEF SameBut

LEMMA PairReplaced ==
  ASSUME NEW s, IsPair(s), NEW j, IsInfo(j)
  PROVE  LET t == [s EXCEPT !.info = j] IN IsPair(t) /\ t.input = s.input /\ t.info = j
BY DEF IsPair

(* The bytes of a call are those behind b.                                 *)
Coming(bytes, b, c) ==
  /\ b + Len(Written(c)) <= Len(bytes)
  /\ \A k \in 1 .. Len(Written(c)) : bytes[b + k] = Written(c)[k]

InCall(s, b, c) == Reading(s, b) /\ ~Failed(s) /\ Coming(s.input.bytes, b, c)

LEMMA InCallIs ==
  ASSUME NEW s, NEW b, NEW c, IsCall(c), InCall(s, b, c)
  PROVE  /\ b \in Nat /\ s.info.data \in Seq(Byte) /\ Len(s.info.data) \in Nat
         /\ s.input.kind = "memory" /\ s.input.position = b + Len(s.info.data)
         /\ Len(Written(c)) \in 3 .. 5
         /\ \A k \in 1 .. Len(Written(c)) :
              k <= Len(s.info.data) => s.info.data[k] = Written(c)[k]
<1>1. /\ I!InputOK(s.input) /\ b \in Nat /\ s.info.data \in Seq(Byte) /\ Len(s.info.data) \in Nat
      /\ s.input.position = b + Len(s.info.data)
      /\ \A k \in 1 .. Len(s.info.data) : s.info.data[k] = s.input.bytes[b + k]
  BY UnderWayIs DEF InCall, Reading
<1>2. s.input.kind = "memory"
  BY <1>1, InputIsMemory
<1>3. Len(Written(c)) \in 3 .. 5
  <2>1. CASE ModrmOf(c).mod = 1
    <3>1. PICK sib : Written(c) = <<72, Opcode(c.proc), ModrmBytes(c), sib, Number(c)>>
      BY <2>1, CallWrites
    <3>. QED
      BY <3>1
  <2>2. CASE c.proc = "sub_reg_const"
    <3>1. Written(c) = <<72, Opcode(c.proc), ModrmBytes(c), Number(c)>>
      BY <2>2, CallWrites
    <3>. QED
      BY <3>1
  <2>3. CASE c.proc \in RegRegProcs
    <3>1. Written(c) = <<72, Opcode(c.proc), ModrmBytes(c)>>
      BY <2>3, CallWrites
    <3>. QED
      BY <3>1
  <2>. QED
    BY <2>1, <2>2, <2>3, CallWrites
<1>4. ASSUME NEW k \in 1 .. Len(Written(c)), k <= Len(s.info.data)
      PROVE  s.info.data[k] = Written(c)[k]
  <2>1. k \in 1 .. Len(s.info.data)
    BY <1>1, <1>4
  <2>. QED
    BY <1>1, <2>1 DEF InCall, Coming
<1>. QED
  BY <1>1, <1>2, <1>3, <1>4

(* In a call there is a next byte to read.                                 *)
LEMMA Readable ==
  ASSUME NEW s, NEW b, NEW c, IsCall(c), InCall(s, b, c),
         Len(s.info.data) < Len(Written(c))
  PROVE  LET n == Len(s.info.data)
             byte == Written(c)[n + 1]
         IN  /\ CanRead(s) /\ ~isEndOfInput(s.input)
             /\ internalInputPeek(s.input) = [s.input EXCEPT !.current = byte]
             /\ internalInputNext(s.input) = [s.input EXCEPT !.current = byte, !.position = @ + 1]
             /\ byte \in Byte
             /\ "current" \in DOMAIN s.input /\ "bytes" \in DOMAIN s.input
<1>. DEFINE n == Len(s.info.data)
<1>1. /\ b \in Nat /\ n \in Nat /\ s.input.kind = "memory" /\ s.input.position = b + n
      /\ Len(Written(c)) \in 3 .. 5
  BY InCallIs
<1>2. I!InputOK(s.input)
  BY UnderWayIs DEF InCall, Reading
<1>3. s.input.bytes \in Seq(Byte) /\ s.input \in I!Inputs
  BY <1>2, InputIsMemory
<1>4. Len(s.input.bytes) \in Nat /\ b + Len(Written(c)) <= Len(s.input.bytes)
  BY <1>3 DEF InCall, Coming
<1>. DEFINE w == Len(Written(c))
            l == Len(s.input.bytes)
<1>10. n < w /\ w \in 3 .. 5 /\ l \in Nat /\ b + w <= l
  BY <1>1, <1>4
<1>11. /\ b + n < l /\ n # 15 /\ n + 1 \in 1 .. w /\ (b + n) + 1 = b + (n + 1)
  <2>1. b \in Nat /\ n \in Nat
    BY <1>1
  <2>. HIDE DEF n, w, l
  <2>. QED
    BY <1>10, <2>1
<1>5. s.input.position < Len(s.input.bytes) /\ CanRead(s)
  BY <1>1, <1>11 DEF CanRead, MaximumLength
<1>6. s.input.bytes[s.input.position + 1] = Written(c)[n + 1]
  <2>1. \A k \in 1 .. w : s.input.bytes[b + k] = Written(c)[k]
    BY DEF InCall, Coming
  <2>2. s.input.bytes[b + (n + 1)] = Written(c)[n + 1]
    <3>. HIDE DEF n, w
    <3>. QED
      BY <1>11, <2>1
  <2>. QED
    BY <1>1, <1>11, <2>2
<1>7. ~AtEnd(s.input) /\ ~isEndOfInput(s.input)
  BY <1>1, <1>4, <1>5 DEF AtEnd, isEndOfInput
<1>8. Written(c)[n + 1] \in Byte
  <2>1. s.input.position + 1 \in 1 .. Len(s.input.bytes)
    <3>. HIDE DEF n, w, l
    <3>1. (b + n) + 1 \in 1 .. l
      BY <1>1, <1>10, <1>11
    <3>. QED
      BY <1>1, <3>1 DEF n, l
  <2>. QED
    BY <1>3, <1>6, <2>1
<1>9. "current" \in DOMAIN s.input /\ "bytes" \in DOMAIN s.input
  BY <1>3 DEF I!Inputs
<1>. QED
  BY <1>5, <1>6, <1>7, <1>8, <1>9 DEF internalInputPeek, internalInputNext

LEMMA PeekInCall ==
  ASSUME NEW s, NEW b, NEW c, IsCall(c), InCall(s, b, c),
         Len(s.info.data) < Len(Written(c))
  PROVE  LET t == inputPeek(s)
         IN  /\ InCall(t, b, c) /\ Follows(s, t, b) /\ t.info = s.info
             /\ inputCurrent(t) = Written(c)[Len(s.info.data) + 1]
<1>. DEFINE byte == Written(c)[Len(s.info.data) + 1]
            in == [s.input EXCEPT !.current = byte]
            t == [s EXCEPT !.input = in]
<1>1. inputPeek(s) = t
  BY Readable DEF inputPeek
<1>2. in.current = byte /\ in.bytes = s.input.bytes
  BY Readable
<1>. HIDE DEF in, byte
<1>3. t.info = s.info /\ t.input = in
  BY InputReplaced DEF InCall, Reading
<1>4. Follows(s, inputPeek(s), b)
  BY PeekFollows DEF InCall
<1>. HIDE DEF t
<1>5. InCall(t, b, c)
  BY <1>1, <1>2, <1>3, <1>4 DEF InCall, Follows, Failed
<1>. QED
  BY <1>1, <1>2, <1>3, <1>4, <1>5 DEF inputCurrent, byte

LEMMA NextInCall ==
  ASSUME NEW s, NEW b, NEW c, IsCall(c), InCall(s, b, c),
         Len(s.info.data) < Len(Written(c))
  PROVE  LET t == inputNext(s)
         IN  /\ InCall(t, b, c) /\ Follows(s, t, b) /\ SameBut(s.info, t.info, {"data"})
             /\ inputCurrent(t) = Written(c)[Len(s.info.data) + 1]
             /\ Len(t.info.data) = Len(s.info.data) + 1
<1>. DEFINE byte == Written(c)[Len(s.info.data) + 1]
            in == [s.input EXCEPT !.current = byte, !.position = @ + 1]
            d == Append(s.info.data, byte)
            j == [s.info EXCEPT !["data"] = d]
            u == [s EXCEPT !.input = in]
            t == [u EXCEPT !.info = j]
<1>1. in.current = byte /\ in.bytes = s.input.bytes
  BY Readable
<1>2. inputNext(s) = Take(s, in)
  BY Readable DEF inputNext
<1>. HIDE DEF in, byte
<1>3. IsPair(s) /\ IsInfo(s.info)
  BY DEF InCall, Reading, IsPair
<1>4. IsPair(u) /\ u.info = s.info /\ u.input = in
  BY <1>3, InputReplaced
<1>5. IsInfo(j) /\ j.data = d /\ SameBut(s.info, j, {"data"})
  <2>1. "data" \in InfoFields
    BY DEF InfoFields
  <2>. HIDE DEF d
  <2>. QED
    BY <1>3, <2>1, Replaced
<1>6. Take(s, in) = t
  BY <1>1, <1>3 DEF Take, IsPair
<1>. HIDE DEF u, j
<1>7. t.info = j /\ t.input = in
  BY <1>4, <1>5, PairReplaced
<1>8. Follows(s, inputNext(s), b)
  BY NextFollows DEF InCall
<1>. HIDE DEF t
<1>9. Len(d) = Len(s.info.data) + 1
  <2>1. s.info.data \in Seq(Byte)
    BY InCallIs
  <2>2. IsSequence(s.info.data)
    BY <2>1 DEF IsSequence
  <2>. QED
    BY <2>2, Appended
<1>10. j.flags = s.info.flags
  BY <1>5 DEF SameBut, InfoFields
<1>11. InCall(t, b, c)
  BY <1>1, <1>2, <1>6, <1>7, <1>8, <1>10 DEF InCall, Follows, Failed
<1>. QED
  BY <1>1, <1>2, <1>5, <1>6, <1>7, <1>8, <1>9, <1>11 DEF inputCurrent, byte

(* From one state of a call to a later one, which differs in some fields.  *)
Onward(s, t, b, c, fields) ==
  InCall(t, b, c) /\ Follows(s, t, b) /\ SameBut(s.info, t.info, fields)

LEMMA OnwardAgain ==
  ASSUME NEW s, NEW t, NEW u, NEW b, NEW c, NEW F, NEW G,
         Onward(s, t, b, c, F), Onward(t, u, b, c, G)
  PROVE  Onward(s, u, b, c, F \cup G)
BY FollowsAgain, SameButAgain DEF Onward

(* The decoder puts a value into a field of the instruction.               *)
LEMMA FieldInCall ==
  ASSUME NEW s, NEW b, NEW c, InCall(s, b, c),
         NEW field \in {"flags", "opcode", "rex", "modrm", "operand"}, NEW v,
         field = "flags" => v \cap IF_ERROR_MASK = {}
  PROVE  LET t == [s EXCEPT !.info = [s.info EXCEPT ![field] = v]]
         IN  Onward(s, t, b, c, {field}) /\ t.info[field] = v /\ t.input = s.input
<1>. DEFINE j == [s.info EXCEPT ![field] = v]
            t == [s EXCEPT !.info = j]
<1>1. Reading(s, b) /\ IsPair(s) /\ IsInfo(s.info) /\ s.info.flags \cap IF_ERROR_MASK = {}
  BY DEF InCall, Reading, IsPair, Failed
<1>2. IsInfo(j) /\ j[field] = v /\ SameBut(s.info, j, {field})
  <2>1. field \in InfoFields
    BY DEF InfoFields
  <2>. QED
    BY <1>1, <2>1, Replaced
<1>. HIDE DEF j
<1>3. IsPair(t) /\ t.input = s.input /\ t.info = j
  BY <1>1, <1>2, PairReplaced
<1>. HIDE DEF t
<1>4. t.info.data = s.info.data /\ t.info.instrAddress = s.info.instrAddress
  BY <1>2, <1>3 DEF SameBut, InfoFields
<1>5. t.info.flags \cap IF_ERROR_MASK = {}
  <2>1. CASE field = "flags"
    BY <1>2, <1>3, <2>1
  <2>2. CASE field # "flags"
    BY <1>1, <1>2, <1>3, <2>2 DEF SameBut, InfoFields
  <2>. QED
    BY <2>1, <2>2
<1>6. Follows(s, t, b)
  BY <1>1, <1>3, <1>4, <1>5, SameFollows
<1>7. InCall(t, b, c)
  BY <1>3, <1>5, <1>6 DEF InCall, Follows, Failed
<1>. QED
  BY <1>2, <1>3, <1>6, <1>7 DEF Onward, t, j

LEMMA FlagsInCall ==
  ASSUME NEW s, NEW b, NEW c, InCall(s, b, c), NEW f, f \cap IF_ERROR_MASK = {}
  PROVE  LET t == [s EXCEPT !.info = [s.info EXCEPT !["flags"] = f]]
         IN  Onward(s, t, b, c, {"flags"}) /\ t.info.flags = f /\ t.input = s.input
<1>. DEFINE t == [s EXCEPT !.info = [s.info EXCEPT !["flags"] = f]]
<1>1. Onward(s, t, b, c, {"flags"}) /\ t.info["flags"] = f /\ t.input = s.input
  BY FieldInCall
<1>2. t.info.flags = t.info["flags"]
  OBVIOUS
<1>. QED
  BY <1>1, <1>2, Zenon

LEMMA RaiseInCall ==
  ASSUME NEW s, NEW b, NEW c, InCall(s, b, c), NEW flag, flag \notin IF_ERROR_MASK
  PROVE  LET t == Raise(s, flag)
         IN  /\ Onward(s, t, b, c, {"flags"}) /\ t.info.flags = s.info.flags \cup {flag}
             /\ t.input = s.input
<1>. DEFINE f == s.info.flags \cup {flag}
            t == [s EXCEPT !.info = [s.info EXCEPT !["flags"] = f]]
<1>1. Raise(s, flag) = t
  BY DEF Raise
<1>2. f \cap IF_ERROR_MASK = {}
  BY DEF InCall, Failed
<1>3. Onward(s, t, b, c, {"flags"}) /\ t.info["flags"] = f /\ t.input = s.input
  <2>. HIDE DEF f
  <2>. QED
    BY <1>2, FieldInCall
<1>. HIDE DEF t
<1>. QED
  BY <1>1, <1>3

(* What else reading a byte changes.                                       *)
LEMMA NextOnward ==
  ASSUME NEW s, NEW b, NEW c, IsCall(c), InCall(s, b, c),
         Len(s.info.data) < Len(Written(c))
  PROVE  LET t == inputNext(s)
         IN  /\ Onward(s, t, b, c, {"data"}) /\ ~Failed(t)
             /\ inputCurrent(t) = Written(c)[Len(s.info.data) + 1]
             /\ Len(t.info.data) = Len(s.info.data) + 1
BY NextInCall DEF Onward, InCall

(* The ModR/M byte is the third.                                           *)
LEMMA WrittenBytes ==
  ASSUME NEW c, IsCall(c)
  PROVE  /\ Len(Written(c)) \in 3 .. 5
         /\ Written(c)[1] = 72 /\ Written(c)[2] = Opcode(c.proc)
         /\ ParseModrm(Written(c)[3]) = ModrmOf(c)
         /\ ModrmOf(c).mod = 1 => /\ Len(Written(c)) = 5 /\ Written(c)[5] = Number(c)
                                  /\ ModrmOf(c).rm = 4 => Written(c)[4] = 36
                                  /\ Written(c)[4] \in Byte
         /\ c.proc = "sub_reg_const" => Len(Written(c)) = 4 /\ Written(c)[4] = Number(c)
         /\ c.proc \in RegRegProcs => Len(Written(c)) = 3
         /\ c.proc \in EncoderProcs
<1>1. ParseModrm(ModrmBytes(c)) = ModrmOf(c)
  BY CallWrites, FieldsOfModrm DEF ModrmBytes
<1>2. c.proc \in EncoderProcs
  BY CallIs
<1>3. CASE ModrmOf(c).mod = 1
  <2>1. PICK sib : /\ Written(c) = <<72, Opcode(c.proc), ModrmBytes(c), sib, Number(c)>>
                   /\ sib \in Byte /\ (ModrmOf(c).rm = 4 => sib = 36)
    BY <1>3, CallWrites
  <2>2. c.proc \notin RegRegProcs \cup {"sub_reg_const"}
    BY <1>3, CallWrites
  <2>. HIDE DEF Written
  <2>. QED
    BY <1>1, <1>2, <2>1, <2>2
<1>4. CASE c.proc = "sub_reg_const"
  <2>1. Written(c) = <<72, Opcode(c.proc), ModrmBytes(c), Number(c)>>
    BY <1>4, CallWrites
  <2>2. ModrmOf(c).mod = 3 /\ c.proc \notin RegRegProcs
    BY <1>4, CallWrites DEF RegRegProcs
  <2>. QED
    BY <1>1, <1>2, <1>4, <2>1, <2>2
<1>5. CASE c.proc \in RegRegProcs
  <2>1. Written(c) = <<72, Opcode(c.proc), ModrmBytes(c)>>
    BY <1>5, CallWrites
  <2>2. ModrmOf(c).mod = 3 /\ c.proc # "sub_reg_const"
    BY <1>5, CallWrites DEF RegRegProcs
  <2>. QED
    BY <1>1, <1>2, <1>5, <2>1, <2>2
<1>. QED
  BY <1>3, <1>4, <1>5, CallWrites

(* decodeModrm finds the fields the call put there, whenever it is called. *)
LEMMA ModrmInCall ==
  ASSUME NEW s, NEW b, NEW c, IsCall(c), InCall(s, b, c), HasModrm(s, c) \/ BeforeModrm(s)
  PROVE  LET t == decodeModrm(s)
         IN  /\ Onward(s, t, b, c, {"data", "flags", "modrm"}) /\ ~Failed(t)
             /\ t.info.flags = s.info.flags \cup {"IF_MODRM"} /\ HasModrm(t, c)
             /\ Len(t.info.data) = IF HasModrm(s, c) THEN Len(s.info.data) ELSE 3
<1>1. CASE HasModrm(s, c)
  <2>1. decodeModrm(s) = s
    BY <1>1 DEF decodeModrm, HasModrm
  <2>2. Follows(s, s, b) /\ ~Failed(s)
    BY FollowsItself DEF InCall
  <2>3. SameBut(s.info, s.info, {"data", "flags", "modrm"})
    BY DEF SameBut
  <2>4. s.info.flags = s.info.flags \cup {"IF_MODRM"}
    BY <1>1 DEF HasModrm
  <2>. QED
    BY <1>1, <2>1, <2>2, <2>3, <2>4 DEF Onward
<1>2. CASE BeforeModrm(s)
  <2>. DEFINE t == inputNext(s)
              u == Raise(t, "IF_MODRM")
              v == ParseModrm(inputCurrent(t))
              w == [u EXCEPT !.info = [u.info EXCEPT !["modrm"] = v]]
  <2>0. "IF_MODRM" \notin IF_ERROR_MASK
    BY DEF IF_ERROR_MASK
  <2>1. /\ Onward(s, t, b, c, {"data"}) /\ ~Failed(t) /\ inputCurrent(t) = Written(c)[3]
        /\ Len(t.info.data) = 3
    <3>1. Len(s.info.data) = 2 /\ 2 < Len(Written(c))
      BY <1>2, WrittenBytes DEF BeforeModrm
    <3>2. /\ Onward(s, t, b, c, {"data"}) /\ ~Failed(t)
          /\ inputCurrent(t) = Written(c)[Len(s.info.data) + 1]
          /\ Len(t.info.data) = Len(s.info.data) + 1
      BY <3>1, NextOnward
    <3>. HIDE DEF t
    <3>. QED
      BY <3>1, <3>2
  <2>2. decodeModrm(s) = w
    BY <1>2, <2>1 DEF decodeModrm, BeforeModrm
  <2>3. v = ModrmOf(c)
    BY <2>1, WrittenBytes
  <2>. HIDE DEF t, v
  <2>4. Onward(t, u, b, c, {"flags"}) /\ u.info.flags = t.info.flags \cup {"IF_MODRM"}
    BY <2>0, <2>1, RaiseInCall DEF Onward
  <2>. HIDE DEF u
  <2>5. Onward(u, w, b, c, {"modrm"}) /\ w.info.modrm = v
    BY <2>4, FieldInCall DEF Onward
  <2>. HIDE DEF w
  <2>6. Onward(s, w, b, c, {"data", "flags", "modrm"})
    <3>1. Onward(s, u, b, c, {"data"} \cup {"flags"})
      BY <2>1, <2>4, OnwardAgain
    <3>2. Onward(s, w, b, c, {"data"} \cup {"flags"} \cup {"modrm"})
      BY <2>5, <3>1, OnwardAgain
    <3>3. {"data"} \cup {"flags"} \cup {"modrm"} = {"data", "flags", "modrm"}
      OBVIOUS
    <3>. QED
      BY <3>2, <3>3
  <2>7. t.info.flags = s.info.flags /\ w.info.flags = u.info.flags /\ w.info.data = t.info.data
    BY <2>1, <2>4, <2>5 DEF Onward, SameBut, InfoFields
  <2>8. ~Failed(w)
    BY <2>6 DEF Onward, InCall
  <2>9. ~HasModrm(s, c)
    BY <1>2 DEF HasModrm, BeforeModrm
  <2>. QED
    BY <2>1, <2>2, <2>3, <2>4, <2>5, <2>6, <2>7, <2>8, <2>9 DEF HasModrm
<1>. QED
  BY <1>1, <1>2

(* Of a number of one byte the byte is the last one read.                  *)
LEMMA OneByte ==
  ASSUME NEW data
  PROVE  SignedLastBytes(data, 1) = Signed8(data[Len(data) - 1 + 1])
<1>. DEFINE byte(k) == data[Len(data) - 1 + k]
            Is(f) == f = [k \in 1 .. 1 |-> IF k = 1 THEN byte(1) - (IF byte(1) >= 128 THEN 256 ELSE 0)
                                           ELSE 256 * f[k + 1] + byte(k)]
            f == CHOOSE f : Is(f)
            v == Signed8(byte(1))
<1>1. \E g : Is(g)
  <2>. DEFINE g == [k \in 1 .. 1 |-> v]
  <2>1. Is(g)
    BY DEF Signed8
  <2>. QED
    BY <2>1
<1>2. Is(f)
  BY <1>1
<1>3. SignedLastBytes(data, 1) = f[1]
  BY Zenon DEF SignedLastBytes
<1>4. f[1] = v
  <2>. HIDE DEF f
  <2>1. 1 \in 1 .. 1
    OBVIOUS
  <2>. QED
    BY <1>2, <2>1 DEF Signed8
<1>. QED
  BY <1>3, <1>4

(* The operand a procedure's parameters make.                              *)
Decodes(s, t, b, c, n, operand) ==
  /\ Onward(s, t, b, c, {"data", "flags", "modrm", "operand"}) /\ ~Failed(t)
  /\ t.info.flags \subseteq s.info.flags \cup {"IF_MODRM", "IF_SIB"} /\ HasModrm(t, c)
  /\ Len(t.info.data) = n
  /\ \E o : t.info.operand = Append(s.info.operand, o) /\ Seen(o) = operand

LEMMA OperandInCall ==
  ASSUME NEW s, NEW b, NEW c, InCall(s, b, c), NEW o
  PROVE  LET t == WithOperand(s, o)
         IN  /\ Onward(s, t, b, c, {"operand"}) /\ t.info.operand = Append(s.info.operand, o)
             /\ ~Failed(t)
<1>. DEFINE v == Append(s.info.operand, o)
            t == [s EXCEPT !.info = [s.info EXCEPT !["operand"] = v]]
<1>1. WithOperand(s, o) = t
  BY DEF WithOperand
<1>2. Onward(s, t, b, c, {"operand"}) /\ t.info["operand"] = v
  <2>. HIDE DEF v
  <2>. QED
    BY FieldInCall
<1>. HIDE DEF t
<1>. QED
  BY <1>1, <1>2 DEF Onward, InCall

LEMMA SeenIs ==
  ASSUME NEW type, NEW size, NEW base, NEW index, NEW scale, NEW offset, NEW lval
  PROVE  Seen(OperandInfo(type, size, base, index, scale, offset, lval))
           = [type |-> type, base |-> base, index |-> index, lval |-> lval]
BY DEF Seen, OperandInfo

(* A register named by a field of the ModR/M byte.                         *)
LEMMA RegisterInCall ==
  ASSUME NEW s, NEW b, NEW c, InCall(s, b, c), HasModrm(s, c), NEW id
  PROVE  Decodes(s, decodeRegisterOperand(s, "GENERAL_PURPOSE", id, 64), b, c,
                 Len(s.info.data), Reg(id))
<1>. DEFINE o == OperandInfo("REGISTER", 64, Register(RegisterClass("GENERAL_PURPOSE", 64), id),
                             NONE, 0, 0, 0)
            t == WithOperand(s, o)
<1>1. decodeRegisterOperand(s, "GENERAL_PURPOSE", id, 64) = t
  BY DEF decodeRegisterOperand
<1>2. Seen(o) = Reg(id)
  BY SeenIs DEF RegisterClass, Reg
<1>. HIDE DEF o
<1>3. /\ Onward(s, t, b, c, {"operand"}) /\ t.info.operand = Append(s.info.operand, o)
      /\ ~Failed(t)
  BY OperandInCall
<1>. HIDE DEF t
<1>4. t.info.data = s.info.data /\ t.info.flags = s.info.flags /\ t.info.modrm = s.info.modrm
  BY <1>3 DEF Onward, SameBut, InfoFields
<1>5. Onward(s, t, b, c, {"data", "flags", "modrm", "operand"})
  BY <1>3 DEF Onward, SameBut
<1>. QED
  BY <1>1, <1>2, <1>3, <1>4, <1>5 DEF Decodes, HasModrm

(* A number of one byte.                                                   *)
LEMMA NumberInCall ==
  ASSUME NEW s, NEW b, NEW c, IsCall(c), InCall(s, b, c),
         NEW n \in Nat, Len(s.info.data) = n, n < Len(Written(c))
  PROVE  LET t == decodeNumber(s, 8)
         IN  /\ Onward(s, t, b, c, {"data"}) /\ ~Failed(t) /\ Len(t.info.data) = n + 1
             /\ NumberOf(t, 8) = Signed8(Written(c)[n + 1])
<1>. DEFINE t == inputNext(s)
<1>1. decodeNumber(s, 8) = t
  BY DEF decodeNumber, inputNextBytes
<1>2. /\ Onward(s, t, b, c, {"data"}) /\ ~Failed(t)
      /\ Len(t.info.data) = n + 1
  BY NextOnward
<1>. HIDE DEF t
<1>3. NumberOf(t, 8) = SignedLastBytes(t.info.data, 1)
  BY DEF NumberOf
<1>4. t.info.data[n + 1] = Written(c)[n + 1]
  <2>1. \A k \in 1 .. Len(Written(c)) : k <= n + 1 => t.info.data[k] = Written(c)[k]
    BY <1>2, InCallIs DEF Onward
  <2>2. Len(Written(c)) \in 3 .. 5
    BY WrittenBytes
  <2>. DEFINE w == Len(Written(c))
  <2>3. n + 1 \in 1 .. w /\ n + 1 <= n + 1
    <3>1. w \in 3 .. 5 /\ n < w
      BY <2>2
    <3>. HIDE DEF w
    <3>. QED
      BY <3>1
  <2>. QED
    BY <2>1, <2>3
<1>5. Len(t.info.data) - 1 + 1 = n + 1
  BY <1>2
<1>. QED
  BY <1>1, <1>2, <1>3, <1>4, <1>5, OneByte

(* A number behind an address, or an immediate.                            *)
LEMMA NumberedInCall ==
  ASSUME NEW s, NEW b, NEW c, IsCall(c), InCall(s, b, c), HasModrm(s, c),
         NEW n \in Nat, Len(s.info.data) = n, n < Len(Written(c)), NEW o
  PROVE  LET t == decodeNumber(s, 8)
             u == WithOperand(t, o)
         IN  ~Failed(t) /\ Decodes(s, u, b, c, n + 1, Seen(o))
<1>. DEFINE t == decodeNumber(s, 8)
            u == WithOperand(t, o)
<1>1. Onward(s, t, b, c, {"data"}) /\ ~Failed(t) /\ Len(t.info.data) = n + 1
  BY NumberInCall
<1>. HIDE DEF t
<1>2. Onward(t, u, b, c, {"operand"}) /\ u.info.operand = Append(t.info.operand, o) /\ ~Failed(u)
  BY <1>1, OperandInCall DEF Onward
<1>. HIDE DEF u
<1>3. /\ t.info.operand = s.info.operand /\ u.info.data = t.info.data
      /\ u.info.flags = s.info.flags /\ u.info.modrm = s.info.modrm
  BY <1>1, <1>2 DEF Onward, SameBut, InfoFields
<1>4. Onward(s, u, b, c, {"data", "flags", "modrm", "operand"})
  <2>1. Onward(s, u, b, c, {"data"} \cup {"operand"})
    BY <1>1, <1>2, OnwardAgain
  <2>. QED
    BY <2>1 DEF Onward, SameBut
<1>. QED
  BY <1>1, <1>2, <1>3, <1>4 DEF Decodes, HasModrm, t, u

LEMMA MemoryInCall ==
  ASSUME NEW s, NEW b, NEW c, IsCall(c), InCall(s, b, c), HasModrm(s, c),
         NEW n \in Nat, Len(s.info.data) = n, n < Len(Written(c)),
         NEW base, NEW index, NEW scale
  PROVE  Decodes(s, MemoryOperand(s, 64, base, index, scale, 8), b, c, n + 1,
                 [type |-> "MEMORY", base |-> base, index |-> index,
                  lval |-> Signed8(Written(c)[n + 1])])
<1>. DEFINE t == decodeNumber(s, 8)
            o == OperandInfo("MEMORY", 64, base, index, scale, 8, NumberOf(t, 8))
            u == WithOperand(t, o)
<1>1. ~Failed(t) /\ Decodes(s, u, b, c, n + 1, Seen(o))
  <2>. HIDE DEF o
  <2>. QED
    BY NumberedInCall
<1>2. MemoryOperand(s, 64, base, index, scale, 8) = u
  BY <1>1 DEF MemoryOperand
<1>3. NumberOf(t, 8) = Signed8(Written(c)[n + 1])
  BY NumberInCall
<1>4. Seen(o) = [type |-> "MEMORY", base |-> base, index |-> index,
                 lval |-> Signed8(Written(c)[n + 1])]
  BY <1>3, SeenIs
<1>. HIDE DEF t, o, u
<1>. QED
  BY <1>1, <1>2, <1>4

LEMMA ImmediateInCall ==
  ASSUME NEW s, NEW b, NEW c, IsCall(c), InCall(s, b, c), HasModrm(s, c),
         NEW n \in Nat, Len(s.info.data) = n, n < Len(Written(c))
  PROVE  Decodes(s, decodeImmediate(s, "IMMEDIATE", 8), b, c, n + 1,
                 Imm(Signed8(Written(c)[n + 1])))
<1>. DEFINE t == decodeNumber(s, 8)
            o == OperandInfo("IMMEDIATE", 8, NONE, NONE, 0, 0, NumberOf(t, 8))
            u == WithOperand(t, o)
<1>1. ~Failed(t) /\ Decodes(s, u, b, c, n + 1, Seen(o))
  <2>. HIDE DEF o
  <2>. QED
    BY NumberedInCall
<1>2. decodeImmediate(s, "IMMEDIATE", 8) = u
  BY <1>1 DEF decodeImmediate
<1>3. NumberOf(t, 8) = Signed8(Written(c)[n + 1])
  BY NumberInCall
<1>4. Seen(o) = Imm(Signed8(Written(c)[n + 1]))
  BY <1>3, SeenIs DEF Imm
<1>. HIDE DEF t, o, u
<1>. QED
  BY <1>1, <1>2, <1>4

LEMMA DecodesAgain ==
  ASSUME NEW s, NEW t, NEW u, NEW b, NEW c, NEW n, NEW operand,
         Onward(s, t, b, c, {"data", "flags", "modrm"}), Decodes(t, u, b, c, n, operand),
         t.info.flags \subseteq s.info.flags \cup {"IF_MODRM", "IF_SIB"}
  PROVE  Decodes(s, u, b, c, n, operand)
<1>1. t.info.operand = s.info.operand
  BY DEF Onward, SameBut, InfoFields
<1>2. Onward(s, u, b, c, {"data", "flags", "modrm", "operand"})
  <2>1. Onward(s, u, b, c, {"data", "flags", "modrm"} \cup {"data", "flags", "modrm", "operand"})
    BY OnwardAgain DEF Decodes
  <2>2. {"data", "flags", "modrm"} \cup {"data", "flags", "modrm", "operand"}
          = {"data", "flags", "modrm", "operand"}
    OBVIOUS
  <2>. QED
    BY <2>1, <2>2
<1>3. u.info.flags \subseteq s.info.flags \cup {"IF_MODRM", "IF_SIB"}
  BY DEF Decodes
<1>. QED
  BY <1>1, <1>2, <1>3 DEF Decodes

(* The SIB byte of RSP, and the displacement behind it.                    *)
LEMMA SibInCall ==
  ASSUME NEW s, NEW b, NEW c, IsCall(c), InCall(s, b, c), HasModrm(s, c), InLongMode(s.info),
         Len(s.info.data) = 3, ModrmOf(c).mod = 1, ModrmOf(c).rm = 4
  PROVE  Decodes(s, decodeSIB(s, 64), b, c, 5, Mem(RSP, Signed8(Written(c)[5])))
<1>. DEFINE t == inputNext(s)
            u == Raise(t, "IF_SIB")
            m == MemoryOperand(u, 64, Register("GP64", 4), NONE, 0, 8)
<1>0. "IF_SIB" \notin IF_ERROR_MASK
  BY DEF IF_ERROR_MASK
<1>1. /\ Onward(s, t, b, c, {"data"}) /\ ~Failed(t) /\ inputCurrent(t) = 36
      /\ Len(t.info.data) = 4
  <2>1. 3 < Len(Written(c)) /\ Written(c)[4] = 36
    BY WrittenBytes
  <2>2. /\ Onward(s, t, b, c, {"data"}) /\ ~Failed(t)
        /\ inputCurrent(t) = Written(c)[Len(s.info.data) + 1]
        /\ Len(t.info.data) = Len(s.info.data) + 1
    BY <2>1, NextOnward
  <2>. HIDE DEF t
  <2>. QED
    BY <2>1, <2>2
<1>2. t.info.modrm = ModrmOf(c) /\ InLongMode(t.info)
  BY <1>1 DEF Onward, SameBut, InfoFields, HasModrm, InLongMode
<1>3. Bits(36, 0, 3) = 4 /\ Bits(36, 3, 3) = 4
  <2>1. 2 ^ 0 = 1 /\ 2 ^ 3 = 8
    OBVIOUS
  <2>. QED
    BY <2>1 DEF Bits
<1>4. decodeSIB(s, 64) = m
  <2>. HIDE DEF t
  <2>1. t.info.eff_rexvex.b = 0 /\ t.info.eff_rexvex.x = 0 /\ t.info.modrm.mod = 1
    BY <1>2 DEF InLongMode, RexOfCall
  <2>2. AddressRegister(t.info, 4) = Register("GP64", 4)
    BY <1>2 DEF InLongMode, AddressRegister
  <2>3. Displacement(1, FALSE) = 8
    BY DEF Displacement
  <2>4. /\ Bits(inputCurrent(t), 0, 3) + 8 * t.info.eff_rexvex.b = 4
        /\ Bits(inputCurrent(t), 3, 3) + 8 * t.info.eff_rexvex.x = 4
    BY <1>1, <1>3, <2>1
  <2>5. 4 # 5 /\ 4 # 13 /\ 1 # 0
    OBVIOUS
  <2>. QED
    BY <1>1, <2>1, <2>2, <2>3, <2>4, <2>5, Zenon DEF decodeSIB, t
<1>. HIDE DEF t
<1>5. Onward(t, u, b, c, {"flags"}) /\ u.info.flags = t.info.flags \cup {"IF_SIB"}
  BY <1>0, <1>1, RaiseInCall DEF Onward
<1>. HIDE DEF u
<1>6. u.info.data = t.info.data /\ u.info.modrm = ModrmOf(c) /\ t.info.flags = s.info.flags
  BY <1>1, <1>2, <1>5 DEF Onward, SameBut, InfoFields
<1>7. Onward(s, u, b, c, {"data", "flags", "modrm"})
  <2>1. Onward(s, u, b, c, {"data"} \cup {"flags"})
    BY <1>1, <1>5, OnwardAgain
  <2>. QED
    BY <2>1 DEF Onward, SameBut
<1>8. Decodes(u, m, b, c, 5, Mem(RSP, Signed8(Written(c)[5])))
  <2>1. 4 < Len(Written(c)) /\ Len(u.info.data) = 4 /\ HasModrm(u, c)
    BY <1>1, <1>5, <1>6, WrittenBytes DEF HasModrm
  <2>2. Decodes(u, m, b, c, 4 + 1, [type |-> "MEMORY", base |-> Register("GP64", 4),
                 index |-> NONE, lval |-> Signed8(Written(c)[4 + 1])])
    BY <1>7, <2>1, MemoryInCall DEF Onward
  <2>. QED
    BY <2>2 DEF Mem, RSP
<1>. QED
  BY <1>4, <1>5, <1>6, <1>7, <1>8, DecodesAgain

(* A register or memory.                                                   *)
LEMMA RegisterMemoryInCall ==
  ASSUME NEW s, NEW b, NEW c, IsCall(c), InCall(s, b, c), InLongMode(s.info),
         (HasModrm(s, c) /\ Len(s.info.data) = 3) \/ BeforeModrm(s)
  PROVE  Decodes(s, decodeRegisterMemoryOperand(s, "GENERAL_PURPOSE", 64), b, c,
                 3 + Extra(c, "E"), ReadAs(c, "E"))
<1>. DEFINE t == decodeModrm(s)
            i == t.info
            rm == ModrmOf(c).rm
            u == decodeRegisterMemoryOperand(s, "GENERAL_PURPOSE", 64)
<1>1. /\ Onward(s, t, b, c, {"data", "flags", "modrm"}) /\ ~Failed(t)
      /\ t.info.flags = s.info.flags \cup {"IF_MODRM"} /\ HasModrm(t, c)
      /\ Len(t.info.data) = 3
  <2>1. /\ Onward(s, t, b, c, {"data", "flags", "modrm"}) /\ ~Failed(t)
        /\ t.info.flags = s.info.flags \cup {"IF_MODRM"} /\ HasModrm(t, c)
        /\ Len(t.info.data) = IF HasModrm(s, c) THEN Len(s.info.data) ELSE 3
    BY ModrmInCall
  <2>2. HasModrm(s, c) => Len(s.info.data) = 3
    BY DEF HasModrm, BeforeModrm
  <2>. HIDE DEF t
  <2>. QED
    BY <2>1, <2>2
<1>. HIDE DEF t
<1>2. i.modrm = ModrmOf(c) /\ InLongMode(i) /\ i.eff_rexvex.b = 0 /\ i.address_mode = 64
  BY <1>1 DEF Onward, SameBut, InfoFields, HasModrm, InLongMode, RexOfCall
<1>3. ModrmOf(c).mod \in {1, 3} /\ rm \in 0 .. 7
  BY CallWrites
<1>4. i.modrm.rm + 8 * i.eff_rexvex.b = rm
  <2>. HIDE DEF rm
  <2>. QED
    BY <1>2, <1>3 DEF rm
<1>. HIDE DEF i
<1>5. CASE ModrmOf(c).mod = 3
  <2>1. u = decodeRegisterOperand(t, "GENERAL_PURPOSE", rm, 64)
    BY <1>1, <1>2, <1>4, <1>5 DEF decodeRegisterMemoryOperand, t, i
  <2>2. Decodes(t, u, b, c, 3, Reg(rm))
    BY <1>1, <2>1, RegisterInCall DEF Onward
  <2>3. 3 + Extra(c, "E") = 3 /\ ReadAs(c, "E") = Reg(rm)
    BY <1>5 DEF Extra, ReadAs
  <2>. QED
    BY <1>1, <2>2, <2>3, DecodesAgain
<1>6. CASE ModrmOf(c).mod = 1 /\ rm = 4
  <2>1. u = decodeSIB(t, 64)
    BY <1>1, <1>2, <1>4, <1>6 DEF decodeRegisterMemoryOperand, t, i
  <2>2. Decodes(t, u, b, c, 5, Mem(RSP, Signed8(Written(c)[5])))
    BY <1>1, <1>2, <1>6, <2>1, SibInCall DEF Onward, i
  <2>3. Extra(c, "E") = 2
    BY <1>6 DEF Extra
  <2>4. ReadAs(c, "E") = Mem(RSP, Signed8(Written(c)[5]))
    BY <1>6, <2>3 DEF ReadAs, RSP
  <2>. QED
    BY <1>1, <2>2, <2>3, <2>4, DecodesAgain
<1>7. CASE ModrmOf(c).mod = 1 /\ rm # 4
  <2>. DEFINE m == MemoryOperand(t, 64, Register("GP64", rm), NONE, 0, 8)
  <2>1. u = m
    <3>1. AddressRegister(i, rm) = Register("GP64", rm) /\ Displacement(1, FALSE) = 8
      BY <1>2 DEF AddressRegister, Displacement
    <3>2. i.modrm.mod # 3 /\ i.modrm.mod # 0 /\ i.modrm.mod = 1 /\ i.modrm.rm # 4
      BY <1>2, <1>7
    <3>. QED
      BY <1>1, <1>4, <3>1, <3>2, Zenon DEF decodeRegisterMemoryOperand, t, i
  <2>2. 3 < Len(Written(c))
    BY <1>7, WrittenBytes
  <2>3. Decodes(t, m, b, c, 3 + 1, [type |-> "MEMORY", base |-> Register("GP64", rm),
                 index |-> NONE, lval |-> Signed8(Written(c)[3 + 1])])
    BY <1>1, <2>2, MemoryInCall DEF Onward
  <2>4. Extra(c, "E") = 1
    BY <1>7 DEF Extra
  <2>5. ReadAs(c, "E") = [type |-> "MEMORY", base |-> Register("GP64", rm),
                          index |-> NONE, lval |-> Signed8(Written(c)[3 + 1])]
    BY <1>7, <2>4 DEF ReadAs, Mem
  <2>. QED
    BY <1>1, <2>1, <2>3, <2>4, <2>5, DecodesAgain
<1>. QED
  BY <1>3, <1>5, <1>6, <1>7

(* The operands the tables give a procedure's opcode.                      *)
LEMMA OperandTypes ==
  ASSUME NEW c, IsCall(c)
  PROVE  LET o == OperandsOf(c.proc)
         IN  /\ Len(o) = 2 /\ o[1] = [type |-> TypeAt(c, 1), size |-> "V"]
             /\ o[2] = [type |-> TypeAt(c, 2), size |-> IF TypeAt(c, 2) = "sI" THEN "B" ELSE "V"]
             /\ TypeAt(c, 1) \in {"E", "G"} /\ TypeAt(c, 2) \in {"E", "G", "sI"}
             /\ TypeAt(c, 2) = "E" <=> TypeAt(c, 1) = "G"
             /\ TypeAt(c, 2) = "sI" <=> c.proc = "sub_reg_const"
             /\ TypeAt(c, 1) = "G" <=> c.proc \in RegOffsetProcs
<1>1. CASE c.proc = "sub_reg_const"
  <2>1. OperandsOf(c.proc) = <<[type |-> "E", size |-> "V"], [type |-> "sI", size |-> "B"]>>
    BY <1>1 DEF OperandsOf
  <2>. QED
    BY <1>1, <2>1 DEF TypeAt, RegOffsetProcs
<1>2. CASE c.proc \in RegOffsetProcs
  <2>1. OperandsOf(c.proc) = <<[type |-> "G", size |-> "V"], [type |-> "E", size |-> "V"]>>
    BY <1>2 DEF OperandsOf, RegOffsetProcs
  <2>. QED
    BY <1>2, <2>1 DEF TypeAt, RegOffsetProcs
<1>3. CASE c.proc # "sub_reg_const" /\ c.proc \notin RegOffsetProcs
  <2>1. OperandsOf(c.proc) = <<[type |-> "E", size |-> "V"], [type |-> "G", size |-> "V"]>>
    BY <1>3 DEF OperandsOf
  <2>. QED
    BY <1>3, <2>1 DEF TypeAt
<1>. QED
  BY <1>1, <1>2, <1>3

(* Where an operand of a call begins, the decoder reads it.                *)
LEMMA OperandRead ==
  ASSUME NEW s, NEW b, NEW c, IsCall(c), InCall(s, b, c), InLongMode(s.info), NEW k \in {1, 2},
         \/ HasModrm(s, c) /\ Len(s.info.data) = Behind(c, k - 1)
         \/ k = 1 /\ BeforeModrm(s)
  PROVE  LET o == OperandsOf(c.proc)[k]
         IN  Decodes(s, decodeOperand(s, o.type, o.size), b, c, Behind(c, k), ReadAs(c, TypeAt(c, k)))
<1>. DEFINE o == OperandsOf(c.proc)[k]
            type == TypeAt(c, k)
            u == decodeOperand(s, o.type, o.size)
<1>0. /\ TypeAt(c, 1) \in {"E", "G"} /\ TypeAt(c, 2) \in {"E", "G", "sI"}
      /\ TypeAt(c, 2) = "E" <=> TypeAt(c, 1) = "G"
      /\ TypeAt(c, 2) = "sI" <=> c.proc = "sub_reg_const"
  BY OperandTypes
<1>1. o.type = type /\ o.size = IF type = "sI" THEN "B" ELSE "V"
  <2>1. CASE k = 1
    <3>1. OperandsOf(c.proc)[1] = [type |-> TypeAt(c, 1), size |-> "V"]
      BY OperandTypes
    <3>. QED
      BY <1>0, <2>1, <3>1
  <2>2. CASE k = 2
    <3>1. OperandsOf(c.proc)[2] = [type |-> TypeAt(c, 2), size |-> IF TypeAt(c, 2) = "sI" THEN "B" ELSE "V"]
      BY OperandTypes
    <3>. QED
      BY <2>2, <3>1
  <2>. QED
    BY <2>1, <2>2
<1>2. /\ TypeAt(c, 1) = "E" => Extra(c, "E") \in Nat
      /\ Extra(c, "G") = 0 /\ Extra(c, "sI") = 1 /\ Extra(c, "E") \in 0 .. 2
      /\ c.proc = "sub_reg_const" => Extra(c, "E") = 0
  BY CallWrites DEF Extra
<1>3. Behind(c, 0) = 3 /\ Behind(c, 1) = 3 + Extra(c, TypeAt(c, 1))
      /\ Behind(c, 2) = 3 + Extra(c, TypeAt(c, 1)) + Extra(c, TypeAt(c, 2))
  <2>1. TypeAt(c, 1) \in {"E", "G"} /\ TypeAt(c, 2) \in {"E", "G", "sI"}
    BY OperandTypes
  <2>2. Extra(c, TypeAt(c, 1)) \in Nat /\ Extra(c, TypeAt(c, 2)) \in Nat
    BY <1>2, <2>1
  <2>. QED
    BY <2>2 DEF Behind
<1>4. CASE type = "E"
  <2>1. u = decodeRegisterMemoryOperand(s, "GENERAL_PURPOSE", 64)
    BY <1>1, <1>4 DEF decodeOperand, getEffectiveOperandSize, InLongMode
  <2>2. Behind(c, k - 1) = 3 /\ Behind(c, k) = 3 + Extra(c, "E")
    <3>1. k = 2 => TypeAt(c, 1) = "G"
      BY <1>4, OperandTypes
    <3>. QED
      BY <1>2, <1>3, <1>4, <3>1
  <2>. HIDE DEF u
  <2>. QED
    BY <1>4, <2>1, <2>2, RegisterMemoryInCall DEF u
<1>5. CASE type = "G"
  <2>. DEFINE t == decodeModrm(s)
              reg == ModrmOf(c).reg
  <2>1. /\ Onward(s, t, b, c, {"data", "flags", "modrm"}) /\ ~Failed(t)
        /\ t.info.flags = s.info.flags \cup {"IF_MODRM"} /\ HasModrm(t, c)
        /\ Len(t.info.data) = IF HasModrm(s, c) THEN Len(s.info.data) ELSE 3
    BY ModrmInCall
  <2>. HIDE DEF t
  <2>2. t.info.modrm.reg + 8 * t.info.eff_rexvex.r = reg
    <3>1. t.info.modrm.reg = reg /\ t.info.eff_rexvex.r = 0 /\ reg \in 0 .. 7
      BY <2>1, CallWrites DEF Onward, SameBut, InfoFields, HasModrm, InLongMode, RexOfCall
    <3>. HIDE DEF reg
    <3>. QED
      BY <3>1
  <2>3. u = decodeRegisterOperand(t, "GENERAL_PURPOSE", reg, 64)
    <3>1. getEffectiveOperandSize(s.info, o.size) = 64
      BY <1>1, <1>5 DEF getEffectiveOperandSize, InLongMode
    <3>2. RegisterOf["G"] = "GENERAL_PURPOSE"
      BY DEF RegisterOf
    <3>. HIDE DEF reg, o
    <3>. QED
      BY <1>1, <1>5, <2>1, <2>2, <3>1, <3>2 DEF decodeOperand, t
  <2>4. Decodes(t, u, b, c, Len(t.info.data), Reg(reg))
    BY <2>1, <2>3, RegisterInCall DEF Onward
  <2>5. Len(t.info.data) = Behind(c, k)
    <3>1. HasModrm(s, c) \/ k = 1
      OBVIOUS
    <3>2. k = 2 => TypeAt(c, 1) = "E" /\ Behind(c, 2) = Behind(c, 1)
      <4>1. SUFFICES ASSUME k = 2 PROVE TypeAt(c, 1) = "E" /\ Behind(c, 2) = Behind(c, 1)
        OBVIOUS
      <4>2. TypeAt(c, 2) = "G" /\ TypeAt(c, 1) = "E"
        BY <1>0, <1>5, <4>1
      <4>. QED
        BY <1>2, <1>3, <4>2
    <3>3. k = 1 => Behind(c, 1) = 3
      BY <1>2, <1>3, <1>5
    <3>4. HasModrm(s, c) => Len(s.info.data) = Behind(c, k - 1)
      BY DEF HasModrm, BeforeModrm
    <3>. QED
      BY <1>3, <2>1, <3>1, <3>2, <3>3, <3>4
  <2>6. ReadAs(c, type) = Reg(reg)
    BY <1>5 DEF ReadAs
  <2>. HIDE DEF u
  <2>. QED
    BY <2>1, <2>4, <2>5, <2>6, DecodesAgain DEF u
<1>6. CASE type = "sI"
  <2>1. k = 2 /\ c.proc = "sub_reg_const" /\ TypeAt(c, 1) = "E"
    BY <1>6, OperandTypes DEF RegOffsetProcs
  <2>2. u = decodeImmediate(s, "IMMEDIATE", 8)
    BY <1>1, <1>6 DEF decodeOperand, getEffectiveOperandSize, GetSimpleOperandSize
  <2>3. HasModrm(s, c) /\ Len(s.info.data) = 3 /\ Behind(c, k) = 4
    <3>1. TypeAt(c, 2) = "sI" /\ Extra(c, TypeAt(c, 1)) = 0 /\ Extra(c, TypeAt(c, 2)) = 1
      BY <1>2, <1>6, <2>1
    <3>2. Behind(c, 1) = 3 /\ Behind(c, 2) = 4
      BY <1>3, <3>1
    <3>3. k - 1 = 1 /\ k # 1
      BY <2>1
    <3>. QED
      BY <2>1, <3>2, <3>3
  <2>4. 3 < Len(Written(c)) /\ ReadAs(c, type) = Imm(Signed8(Written(c)[4]))
    BY <1>6, <2>1, WrittenBytes DEF ReadAs
  <2>5. Decodes(s, u, b, c, 3 + 1, Imm(Signed8(Written(c)[3 + 1])))
    BY <2>2, <2>3, <2>4, ImmediateInCall
  <2>. HIDE DEF u
  <2>6. Decodes(s, u, b, c, Behind(c, k), ReadAs(c, TypeAt(c, k)))
    BY <2>3, <2>4, <2>5
  <2>. QED
    BY <2>6 DEF u
<1>. QED
  BY <1>4, <1>5, <1>6, OperandTypes

(* What is read of a call is what it asks for, and all that it wrote, for  *)
(* the calls that can be expressed and no others.                          *)
LEMMA ReadIffExpressible ==
  ASSUME NEW c, IsCall(c)
  PROVE  Expressible(c) <=>
           /\ Behind(c, 2) = Len(Written(c))
           /\ <<MnemonicOf(c.proc), ReadAs(c, TypeAt(c, 1)), ReadAs(c, TypeAt(c, 2))>> = Asked(c)
<1>1. /\ c.proc \in EncoderProcs /\ c.dest \in 0 .. 15 /\ c.src \in 0 .. 15
      /\ c.offset \in Nat /\ c.value \in Nat
  BY CallIs
<1>2. Number(c) \in 0 .. 255 => (Signed8(Number(c)) = Number(c) <=> Number(c) < 128)
  BY DEF Signed8
<1>3. CASE c.proc \in RegRegProcs
  <2>1. ModrmOf(c) = [mod |-> 3, reg |-> c.src, rm |-> c.dest]
    BY <1>3 DEF ModrmOf, RegRegProcs, RegOffsetProcs
  <2>2. OperandsOf(c.proc) = <<[type |-> "E", size |-> "V"], [type |-> "G", size |-> "V"]>>
    BY <1>3 DEF OperandsOf, RegRegProcs, RegOffsetProcs
  <2>3. TypeAt(c, 1) = "E" /\ TypeAt(c, 2) = "G"
    BY <2>2 DEF TypeAt
  <2>4. ReadAs(c, "E") = Reg(c.dest) /\ ReadAs(c, "G") = Reg(c.src)
    BY <2>1 DEF ReadAs
  <2>5. Behind(c, 2) = 3 /\ Len(Written(c)) = 3
    BY <1>3, <2>1, <2>3, WrittenBytes DEF Behind, Extra
  <2>6. <<MnemonicOf(c.proc), Reg(c.dest), Reg(c.src)>> = Asked(c)
    BY <1>3 DEF MnemonicOf, Asked, RegRegProcs
  <2>7. Expressible(c)
    BY <1>3 DEF Expressible, RegRegProcs, RegOffsetProcs
  <2>. QED
    BY <2>3, <2>4, <2>5, <2>6, <2>7
<1>4. CASE c.proc = "sub_reg_const"
  <2>1. ModrmOf(c) = [mod |-> 3, reg |-> RBP, rm |-> c.dest]
    BY <1>4 DEF ModrmOf, RegRegProcs, RegOffsetProcs
  <2>2. OperandsOf(c.proc) = <<[type |-> "E", size |-> "V"], [type |-> "sI", size |-> "B"]>>
    BY <1>4 DEF OperandsOf
  <2>3. TypeAt(c, 1) = "E" /\ TypeAt(c, 2) = "sI"
    BY <2>2 DEF TypeAt
  <2>4. Len(Written(c)) = 4 /\ Written(c)[4] = Number(c) /\ Number(c) = c.value
    BY <1>4, WrittenBytes DEF Number
  <2>5. ReadAs(c, "E") = Reg(c.dest) /\ ReadAs(c, "sI") = Imm(Signed8(c.value))
    BY <2>1, <2>4 DEF ReadAs
  <2>6. Behind(c, 2) = 4
    BY <2>1, <2>3 DEF Behind, Extra
  <2>7. Asked(c) = <<"sub", Reg(c.dest), Imm(c.value)>> /\ MnemonicOf(c.proc) = "sub"
    BY <1>4 DEF MnemonicOf, Asked
  <2>8. Imm(Signed8(c.value)) = Imm(c.value) <=> c.value < 128
    <3>1. Number(c) \in 0 .. 255
      BY <1>4, CallWrites
    <3>2. Imm(Signed8(c.value)).lval = Signed8(c.value) /\ Imm(c.value).lval = c.value
      BY DEF Imm
    <3>. QED
      BY <1>2, <2>4, <3>1, <3>2
  <2>9. Expressible(c) <=> c.value < 128
    BY <1>4 DEF Expressible, RegRegProcs, RegOffsetProcs
  <2>. QED
    BY <2>3, <2>4, <2>5, <2>6, <2>7, <2>8, <2>9
<1>5. CASE c.proc \in {"mov_regoffset_reg", "mov_regoffset_constant"} \cup RegOffsetProcs
  <2>0. ModrmOf(c).mod = 1
    BY <1>5, CallWrites DEF RegRegProcs, RegOffsetProcs
  <2>1. Len(Written(c)) = 5 /\ Number(c) \in 0 .. 255 /\ Written(c)[5] = Number(c)
    BY <2>0, WrittenBytes, CallWrites
  <2>2. /\ Behind(c, 2) = 5 <=> ModrmOf(c).rm = 4
        /\ (TypeAt(c, 1) = "E" /\ TypeAt(c, 2) = "G") \/ (TypeAt(c, 1) = "G" /\ TypeAt(c, 2) = "E")
    <3>1. (TypeAt(c, 1) = "E" /\ TypeAt(c, 2) = "G") \/ (TypeAt(c, 1) = "G" /\ TypeAt(c, 2) = "E")
      <4>1. c.proc # "sub_reg_const"
        BY <1>5 DEF RegOffsetProcs
      <4>2. /\ TypeAt(c, 1) \in {"E", "G"} /\ TypeAt(c, 2) \in {"E", "G", "sI"}
            /\ TypeAt(c, 2) = "E" <=> TypeAt(c, 1) = "G"
            /\ TypeAt(c, 2) = "sI" <=> c.proc = "sub_reg_const"
        BY OperandTypes
      <4>. QED
        BY <4>1, <4>2
    <3>2. Extra(c, "E") = (IF ModrmOf(c).rm = 4 THEN 2 ELSE 1) /\ Extra(c, "G") = 0
      BY <2>0 DEF Extra
    <3>. QED
      BY <3>1, <3>2 DEF Behind
  <2>3. ModrmOf(c).rm = 4 =>
          ReadAs(c, "E") = Mem(4, Signed8(Number(c))) /\ ReadAs(c, "G") = Reg(ModrmOf(c).reg)
    <3>1. ModrmOf(c).rm = 4 => Extra(c, "E") = 2
      BY <2>0 DEF Extra
    <3>. QED
      BY <2>0, <2>1, <3>1 DEF ReadAs
  <2>4. \A x, y : Mem(4, x) = Mem(4, y) <=> x = y
    <3>1. \A x : Mem(4, x).lval = x
      BY DEF Mem
    <3>. QED
      BY <3>1
  <2>5. CASE c.proc = "mov_regoffset_reg"
    <3>1. ModrmOf(c) = [mod |-> 1, reg |-> c.src, rm |-> c.dest] /\ Number(c) = c.offset
      BY <2>5 DEF ModrmOf, RegRegProcs, RegOffsetProcs, Number
    <3>2. TypeAt(c, 1) = "E" /\ TypeAt(c, 2) = "G"
      BY <2>5, OperandTypes, <2>2 DEF RegOffsetProcs
    <3>3. Asked(c) = <<"mov", Mem(c.dest, c.offset), Reg(c.src)>> /\ MnemonicOf(c.proc) = "mov"
      BY <2>5 DEF Asked, MnemonicOf
    <3>4. Expressible(c) <=> c.dest = 4 /\ c.offset < 128
      BY <2>5 DEF Expressible, RegRegProcs, RegOffsetProcs, RSP
    <3>. QED
      BY <1>2, <2>1, <2>2, <2>3, <2>4, <3>1, <3>2, <3>3, <3>4
  <2>6. CASE c.proc = "mov_regoffset_constant"
    <3>1. TypeAt(c, 1) = "E" /\ TypeAt(c, 2) = "G"
      BY <2>6, OperandTypes, <2>2 DEF RegOffsetProcs
    <3>2. Asked(c) = <<"mov", Mem(c.dest, c.offset), Imm(c.value)>>
      BY <2>6 DEF Asked
    <3>3. ~Expressible(c)
      BY <2>6 DEF Expressible, RegRegProcs, RegOffsetProcs
    <3>4. ReadAs(c, "G") # Imm(c.value)
      <4>1. ReadAs(c, "G") = Reg(ModrmOf(c).reg)
        BY DEF ReadAs
      <4>2. Reg(ModrmOf(c).reg).type = "REGISTER" /\ Imm(c.value).type = "IMMEDIATE"
        BY DEF Reg, Imm
      <4>. QED
        BY <4>1, <4>2
    <3>. QED
      BY <3>1, <3>2, <3>3, <3>4
  <2>7. CASE c.proc \in RegOffsetProcs
    <3>1. ModrmOf(c) = [mod |-> 1, reg |-> c.dest, rm |-> c.src] /\ Number(c) = c.offset
      BY <2>7 DEF ModrmOf, RegRegProcs, RegOffsetProcs, Number
    <3>2. TypeAt(c, 1) = "G" /\ TypeAt(c, 2) = "E"
      BY <2>7, OperandTypes, <2>2 DEF RegOffsetProcs
    <3>3. Asked(c) = <<MnemonicOf(c.proc), Reg(c.dest), Mem(c.src, c.offset)>>
      BY <2>7 DEF Asked, MnemonicOf, RegOffsetProcs
    <3>4. Expressible(c) <=> c.src = 4 /\ c.offset < 128
      BY <2>7 DEF Expressible, RegRegProcs, RegOffsetProcs, RSP
    <3>. QED
      BY <1>2, <2>1, <2>2, <2>3, <2>4, <3>1, <3>2, <3>3, <3>4
  <2>. QED
    BY <1>5, <2>5, <2>6, <2>7
<1>. QED
  BY <1>1, <1>3, <1>4, <1>5 DEF EncoderProcs
-----------------------------------------------------------------------------
(***************************************************************************)
(* The decoder's steps through a call, one by one.                         *)
(***************************************************************************)
Facing(c) == DecoderInv /\ IsCall(c) /\ Coming(input.bytes, m_instructionPointer, c)

LEMMA SameBytes ==
  ASSUME NEW s, NEW t, NEW b, Follows(s, t, b)
  PROVE  t.input.bytes = s.input.bytes
<1>1. I!Goes(Core(s), Core(t), b)
  BY DEF Follows
<1>. QED
  BY <1>1, CoreFields DEF I!Goes

LEMMA FacingInCall ==
  ASSUME NEW c, Facing(c), phase \in UnderWay,
         info.flags \subseteq RexOnly \cup {"IF_MODRM", "IF_SIB"}
  PROVE  InCall(Pair, m_instructionPointer, c)
<1>1. Reading(Pair, m_instructionPointer)
  BY PairReading DEF Facing
<1>2. ~Failed(Pair)
  BY PairIs DEF Failed, RexOnly, IF_ERROR_MASK
<1>. QED
  BY <1>1, <1>2, PairIs DEF InCall, Facing

(* The REX prefix is one, the opcode is none.                              *)
LEMMA RexThenOpcode ==
  /\ PrefixFlag(72) = {} /\ 72 \div 16 = 4 /\ RexOf(72) = RexOfCall
  /\ \A proc \in EncoderProcs : PrefixFlag(Opcode(proc)) = {} /\ Opcode(proc) \div 16 # 4
<1>1. RexOf(72) = RexOfCall
  <2>1. 2 ^ 0 = 1 /\ 2 ^ 1 = 2 /\ 2 ^ 2 = 4 /\ 2 ^ 3 = 8
    OBVIOUS
  <2>2. Bits(72, 3, 1) = 1 /\ Bits(72, 2, 1) = 0 /\ Bits(72, 1, 1) = 0 /\ Bits(72, 0, 1) = 0
    BY <2>1 DEF Bits
  <2>. QED
    BY <2>2 DEF RexOf, RexOfCall
<1>2. PrefixFlag(72) = {} /\ 72 \div 16 = 4
  BY DEF PrefixFlag
<1>3. ASSUME NEW proc \in EncoderProcs
      PROVE  PrefixFlag(Opcode(proc)) = {} /\ Opcode(proc) \div 16 # 4
  <2>1. Opcode(proc) \in {1, 3, 41, 43, 131, 137}
    BY DEF EncoderProcs, RegRegProcs, RegOffsetProcs, Opcode
  <2>. QED
    BY <2>1 DEF PrefixFlag
<1>. QED
  BY <1>1, <1>2, <1>3

LEMMA PeekedInCall ==
  ASSUME NEW c, Facing(c), phase = "prefixes", AtPrefixes
  PROVE  LET byte == Written(c)[Len(info.data) + 1]
         IN  /\ InCall(Peeked, m_instructionPointer, c)
             /\ Follows(Pair, Peeked, m_instructionPointer) /\ Peeked.info = info
             /\ inputCurrent(Peeked) = byte /\ PeekByte = byte
             /\ Len(info.data) < Len(Written(c))
<1>1. InCall(Pair, m_instructionPointer, c)
  BY FacingInCall DEF UnderWay, AtPrefixes
<1>2. IsCall(c) /\ Len(Written(c)) \in 3 .. 5
  BY WrittenBytes DEF Facing
<1>3. Len(info.data) < Len(Written(c))
  <2>. DEFINE n == Len(info.data)
              w == Len(Written(c))
  <2>1. n = 0 \/ n = 1
    BY DEF AtPrefixes
  <2>2. w \in 3 .. 5
    BY <1>2
  <2>. HIDE DEF n, w
  <2>3. n < w
    BY <2>1, <2>2
  <2>. QED
    BY <2>3 DEF n, w
<1>4. /\ InCall(Peeked, m_instructionPointer, c)
      /\ Follows(Pair, Peeked, m_instructionPointer) /\ Peeked.info = info
      /\ inputCurrent(Peeked) = Written(c)[Len(info.data) + 1]
  BY <1>1, <1>2, <1>3, PairIs, PeekInCall DEF Peeked
<1>5. ~Failed(Peeked)
  BY <1>4 DEF InCall
<1>. QED
  BY <1>3, <1>4, <1>5 DEF PeekByte

LEMMA PrefixOfCall ==
  ASSUME NEW c, Facing(c), AtPrefixes, Prefix
  PROVE  phase' = "prefixes" /\ AtPrefixes' /\ input'.bytes = input.bytes
<1>. DEFINE b == m_instructionPointer
            f == WithPrefix(Peeked.info.flags)
            r == IF IsRex THEN RexOf(inputCurrent(Peeked)) ELSE Peeked.info.rex
            p == [Peeked EXCEPT !.info = [Peeked.info EXCEPT !["flags"] = f]]
            q == [p EXCEPT !.info = [p.info EXCEPT !["rex"] = r]]
            s == inputNext(q)
<1>1. phase = "prefixes" /\ (IsRex \/ PrefixFlag(PeekByte) # {})
  BY DEF Prefix
<1>2. /\ InCall(Peeked, b, c) /\ Peeked.info = info
      /\ inputCurrent(Peeked) = Written(c)[Len(info.data) + 1]
      /\ PeekByte = Written(c)[Len(info.data) + 1]
  BY <1>1, PeekedInCall
<1>3. IsCall(c) /\ Written(c)[1] = 72 /\ Written(c)[2] = Opcode(c.proc) /\ c.proc \in EncoderProcs
      /\ Len(Written(c)) \in 3 .. 5
  BY WrittenBytes DEF Facing
<1>4. Len(info.data) = 0
  <2>1. SUFFICES ASSUME Len(info.data) = 1 PROVE FALSE
    BY DEF AtPrefixes
  <2>2. inputCurrent(Peeked) = Opcode(c.proc) /\ PeekByte = Opcode(c.proc)
    BY <1>2, <1>3, <2>1
  <2>. QED
    BY <1>1, <1>3, <2>2, RexThenOpcode DEF IsRex
<1>5. inputCurrent(Peeked) = 72 /\ PeekByte = 72
  BY <1>2, <1>3, <1>4
<1>6. IsRex /\ f = info.flags \cup {"IF_PREFIX_REX"} /\ r = RexOfCall
  <2>1. IsRex
    BY <1>5, RexThenOpcode DEF IsRex
  <2>2. PrefixFlag(PeekByte) = {} /\ {} # {"IF_PREFIX_REP"}
    BY <1>5, RexThenOpcode
  <2>3. f = info.flags \cup {"IF_PREFIX_REX"}
    BY <1>2, <2>1, <2>2, Zenon DEF WithPrefix
  <2>. QED
    BY <1>5, <2>1, <2>3, RexThenOpcode
<1>7. [Peeked EXCEPT !.info.flags = WithPrefix(@),
                     !.info.rex = IF IsRex THEN RexOf(inputCurrent(Peeked)) ELSE @] = q
  OBVIOUS
<1>8. Becomes(s) /\ phase' = IF Failed(s) THEN "failed" ELSE "prefixes"
  BY <1>1, <1>7 DEF Prefix, TakePrefix
<1>. HIDE DEF f, r
<1>9. f \cap IF_ERROR_MASK = {}
  BY <1>6 DEF AtPrefixes, RexOnly, IF_ERROR_MASK
<1>10. Onward(Peeked, p, b, c, {"flags"}) /\ p.info.flags = f
  BY <1>2, <1>9, FlagsInCall, Zenon
<1>. HIDE DEF p
<1>11. Onward(p, q, b, c, {"rex"}) /\ q.info.rex = r
  BY <1>10, FieldInCall DEF Onward
<1>. HIDE DEF q
<1>12. /\ q.info.flags = f /\ q.info.data = info.data /\ q.info.operand = info.operand
  BY <1>2, <1>10, <1>11 DEF Onward, SameBut, InfoFields
<1>13. Onward(q, s, b, c, {"data"}) /\ ~Failed(s) /\ Len(s.info.data) = 1
  <2>1. Len(q.info.data) < Len(Written(c))
    BY <1>3, <1>4, <1>12
  <2>2. Len(s.info.data) = Len(q.info.data) + 1 /\ Onward(q, s, b, c, {"data"}) /\ ~Failed(s)
    BY <1>3, <1>11, <2>1, NextOnward DEF Onward
  <2>. HIDE DEF s
  <2>. QED
    BY <1>4, <1>12, <2>2
<1>. HIDE DEF s
<1>14. s.info.flags = f /\ s.info.operand = info.operand /\ s.info.rex = r
  BY <1>11, <1>12, <1>13 DEF Onward, SameBut, InfoFields
<1>15. info' = s.info /\ phase' = "prefixes" /\ input' = s.input
  BY <1>8, <1>13 DEF Becomes
<1>16. s.input.bytes = input.bytes
  <2>1. Follows(Pair, Peeked, b)
    BY <1>1, PeekedInCall
  <2>2. Follows(Peeked, p, b) /\ Follows(p, q, b) /\ Follows(q, s, b)
    BY <1>10, <1>11, <1>13 DEF Onward
  <2>. QED
    BY <2>1, <2>2, SameBytes, PairIs
<1>. QED
  BY <1>6, <1>13, <1>14, <1>15, <1>16 DEF AtPrefixes, RexOnly

LEMMA EndOfPrefixesOfCall ==
  ASSUME NEW c, Facing(c), AtPrefixes, EndOfPrefixes
  PROVE  phase' = "opcode" /\ AtOpcode' /\ input'.bytes = input.bytes
<1>1. phase = "prefixes" /\ ~IsRex /\ PrefixFlag(PeekByte) = {} /\ Becomes(Peeked) /\ phase' = "opcode"
  BY DEF EndOfPrefixes
<1>2. /\ Peeked.info = info
      /\ inputCurrent(Peeked) = Written(c)[Len(info.data) + 1]
  BY <1>1, PeekedInCall
<1>3. Written(c)[1] = 72
  BY WrittenBytes DEF Facing
<1>4. Len(info.data) # 0
  <2>1. SUFFICES ASSUME Len(info.data) = 0 PROVE FALSE
    OBVIOUS
  <2>2. inputCurrent(Peeked) = 72
    BY <1>2, <1>3, <2>1
  <2>. QED
    BY <1>1, <2>2, RexThenOpcode DEF IsRex
<1>5. info' = info /\ input' = Peeked.input
  BY <1>1, <1>2 DEF Becomes
<1>6. Peeked.input.bytes = input.bytes
  BY <1>1, PeekedInCall, SameBytes, PairIs
<1>. QED
  BY <1>1, <1>4, <1>5, <1>6 DEF AtPrefixes, AtOpcode

LEMMA FirstOpcodeOfCall ==
  ASSUME NEW c, Facing(c), EncoderRows, AtOpcode, FirstOpcode
  PROVE  phase' = "tree" /\ AtNode(c)' /\ input'.bytes = input.bytes
<1>. DEFINE b == m_instructionPointer
            s == inputNext(Pair)
            v == Append(s.info.opcode, inputCurrent(s))
            t == [s EXCEPT !.info = [s.info EXCEPT !["opcode"] = v]]
<1>1. phase = "opcode" /\ OpcodeByte(GetOpcodeTreeRoot)
  BY DEF FirstOpcode
<1>2. InCall(Pair, b, c)
  BY <1>1, FacingInCall DEF UnderWay, AtOpcode
<1>3. IsCall(c) /\ Written(c)[2] = Opcode(c.proc) /\ c.proc \in EncoderProcs
      /\ Len(Written(c)) \in 3 .. 5
  BY WrittenBytes DEF Facing
<1>4. /\ Onward(Pair, s, b, c, {"data"}) /\ ~Failed(s) /\ Len(s.info.data) = 2
      /\ inputCurrent(s) = Opcode(c.proc)
  <2>1. Len(Pair.info.data) = 1 /\ 1 < Len(Written(c))
    BY <1>3, PairIs DEF AtOpcode
  <2>2. /\ Onward(Pair, s, b, c, {"data"}) /\ ~Failed(s)
        /\ inputCurrent(s) = Written(c)[Len(Pair.info.data) + 1]
        /\ Len(s.info.data) = Len(Pair.info.data) + 1
    BY <1>2, <1>3, <2>1, NextOnward
  <2>. HIDE DEF s
  <2>. QED
    BY <1>3, <2>1, <2>2
<1>5. TakeOpcode(s) = t
  BY DEF TakeOpcode
<1>6. /\ info' = t.info /\ input' = t.input /\ phase' = "tree"
      /\ node' = GetOpcodeTreeChild(GetOpcodeTreeRoot, Opcode(c.proc))
  BY <1>1, <1>4, <1>5 DEF OpcodeByte, Becomes
<1>. HIDE DEF s, v
<1>7. Onward(s, t, b, c, {"opcode"})
  BY <1>4, FieldInCall DEF Onward
<1>. HIDE DEF t
<1>8. /\ t.info.flags = info.flags /\ t.info.operand = info.operand /\ t.info.rex = info.rex
      /\ t.info.data = s.info.data
  BY <1>4, <1>7, PairIs DEF Onward, SameBut, InfoFields
<1>9. BeforeModrm(Pair)'
  BY <1>4, <1>6, <1>8 DEF Pair, BeforeModrm, AtOpcode, RexOnly
<1>10. c.proc # "sub_reg_const" => LeadsTo(node', c.proc)
  BY <1>3, <1>6 DEF EncoderRows
<1>11. t.input.bytes = input.bytes
  BY <1>4, <1>7, SameBytes, PairIs DEF Onward
<1>. QED
  BY <1>6, <1>8, <1>9, <1>10, <1>11 DEF AtNode, ModrmRead, AtOpcode, RexOnly

(* The tree has no more than the leaf of the opcode, or the table of its   *)
(* reg field, to go through.                                               *)
LEMMA NodeOfCall ==
  ASSUME NEW c, Facing(c), EncoderRows, AtNode(c)
  PROVE  /\ ~IsNode(node, "TABLE") /\ ~IsNode(node, "MANDATORY") /\ ~IsNode(node, "MODE")
         /\ IsNode(node, "INSTRUCTION_DEFINITION") => LeadsTo(node, c.proc) /\ ModrmRead(c)
         /\ IsNode(node, "MODRM_REG") =>
              /\ BeforeModrm(Pair) /\ c.proc = "sub_reg_const"
              /\ LeadsTo(GetOpcodeTreeChild(node, RBP), c.proc)
<1>1. CASE LeadsTo(node, c.proc) /\ ModrmRead(c)
  BY <1>1 DEF LeadsTo, IsNode, OpcodeTreeNodeType
<1>2. CASE /\ c.proc = "sub_reg_const" /\ BeforeModrm(Pair)
           /\ node = GetOpcodeTreeChild(GetOpcodeTreeRoot, Opcode(c.proc))
  <2>1. c.proc \in EncoderProcs
    BY WrittenBytes DEF Facing
  <2>2. IsNode(node, "MODRM_REG") /\ LeadsTo(GetOpcodeTreeChild(node, RBP), c.proc)
    BY <1>2, <2>1 DEF EncoderRows
  <2>. QED
    BY <1>2, <2>2 DEF IsNode, OpcodeTreeNodeType
<1>. QED
  BY <1>1, <1>2 DEF AtNode

LEMMA ModrmRegOfCall ==
  ASSUME NEW c, Facing(c), EncoderRows, phase = "tree", AtNode(c), ModrmReg
  PROVE  phase' = "tree" /\ AtNode(c)' /\ input'.bytes = input.bytes
<1>. DEFINE b == m_instructionPointer
            s == decodeModrm(Pair)
<1>1. IsNode(node, "MODRM_REG") /\ Becomes(s)
      /\ IF Failed(s) THEN phase' = "failed" /\ UNCHANGED node
         ELSE node' = GetOpcodeTreeChild(node, s.info.modrm.reg) /\ phase' = "tree"
  BY DEF ModrmReg
<1>2. /\ BeforeModrm(Pair) /\ c.proc = "sub_reg_const"
      /\ LeadsTo(GetOpcodeTreeChild(node, RBP), c.proc)
  BY <1>1, NodeOfCall
<1>3. InCall(Pair, b, c) /\ IsCall(c)
  BY FacingInCall DEF UnderWay, AtNode, Facing
<1>4. /\ Onward(Pair, s, b, c, {"data", "flags", "modrm"}) /\ ~Failed(s)
      /\ s.info.flags = info.flags \cup {"IF_MODRM"} /\ HasModrm(s, c)
      /\ Len(s.info.data) = 3
  <2>1. /\ Onward(Pair, s, b, c, {"data", "flags", "modrm"}) /\ ~Failed(s)
        /\ s.info.flags = Pair.info.flags \cup {"IF_MODRM"} /\ HasModrm(s, c)
        /\ Len(s.info.data) = IF HasModrm(Pair, c) THEN Len(Pair.info.data) ELSE 3
    BY <1>2, <1>3, ModrmInCall
  <2>2. ~HasModrm(Pair, c)
    BY <1>2 DEF HasModrm, BeforeModrm
  <2>. HIDE DEF s
  <2>. QED
    BY <2>1, <2>2, PairIs
<1>. HIDE DEF s
<1>5. s.info.modrm.reg = RBP
  BY <1>2, <1>3, <1>4, CallWrites DEF HasModrm, RBP
<1>6. s.info.operand = info.operand /\ s.info.rex = info.rex
  BY <1>4, PairIs DEF Onward, SameBut, InfoFields
<1>7. info' = s.info /\ phase' = "tree" /\ LeadsTo(node', c.proc)
  BY <1>1, <1>2, <1>4, <1>5 DEF Becomes
<1>8. HasModrm(Pair, c)'
  BY <1>4, <1>7 DEF HasModrm, Pair
<1>9. Len(info'.data) = Behind(c, Len(info'.operand))
  <2>1. Len(info'.operand) = 0
    BY <1>6, <1>7 DEF AtNode
  <2>2. Behind(c, 0) = 3
    BY DEF Behind
  <2>. QED
    BY <1>4, <1>7, <2>1, <2>2
<1>10. input'.bytes = input.bytes
  BY <1>1, <1>4, SameBytes, PairIs DEF Onward, Becomes
<1>. QED
  BY <1>4, <1>6, <1>7, <1>8, <1>9, <1>10 DEF AtNode, ModrmRead

LEMMA DefinitionOfCall ==
  ASSUME NEW c, Facing(c), EncoderRows, phase = "tree", AtNode(c), Definition
  PROVE  phase' = "operands" /\ AtOperands(c)' /\ input'.bytes = input.bytes
<1>. DEFINE definition == GetInstructionDefinition(node)
            eff == EffectiveRex(info.rex, definition.flags)
            mode == OperandMode(eff, info.flags, definition.flags)
            address == IF "IF_PREFIX_ADDRESS_SIZE" \in info.flags THEN 32 ELSE 64
            j == [info EXCEPT !.mnemonic = definition.mnemonic, !.eff_rexvex = eff,
                              !.operand_mode = mode, !.address_mode = address]
<1>1. /\ IsNode(node, "INSTRUCTION_DEFINITION") /\ UNCHANGED node
  BY DEF Definition
<1>2. LeadsTo(node, c.proc) /\ ModrmRead(c)
  BY <1>1, NodeOfCall
<1>3. GetOpcodeNodeValue(node) # 0
      /\ definition = [mnemonic |-> MnemonicOf(c.proc), operand |-> OperandsOf(c.proc),
           flags |-> {"IDF_ACCEPTS_REXB", "IDF_ACCEPTS_REXX", "IDF_ACCEPTS_REXR", "IDF_ACCEPTS_REXW"}]
  BY <1>2 DEF LeadsTo
<1>4. definition.mnemonic = MnemonicOf(c.proc) /\ "IDF_INVALID_64" \notin definition.flags
  <2>. HIDE DEF definition
  <2>. QED
    BY <1>3
<1>5. eff = RexOfCall
  <2>1. /\ "IDF_ACCEPTS_REXB" \in definition.flags /\ "IDF_ACCEPTS_REXX" \in definition.flags
        /\ "IDF_ACCEPTS_REXR" \in definition.flags /\ "IDF_ACCEPTS_REXW" \in definition.flags
    <3>. HIDE DEF definition
    <3>. QED
      BY <1>3
  <2>2. info.rex = RexOfCall
    BY DEF AtNode
  <2>. HIDE DEF definition
  <2>. QED
    BY <2>1, <2>2 DEF EffectiveRex, RexOfCall
<1>6. mode = 64 /\ address = 64
  <2>1. eff.w = 1
    BY <1>5 DEF RexOfCall
  <2>2. "IF_PREFIX_ADDRESS_SIZE" \notin info.flags
    BY DEF AtNode, RexOnly
  <2>. HIDE DEF eff, definition
  <2>. QED
    BY <2>1, <2>2 DEF OperandMode
<1>7. info' = j /\ phase' = "operands" /\ UNCHANGED input
  BY <1>3, <1>4 DEF Definition
<1>8. IsInfo(info) /\ IsPair(Pair)
  BY PairIs DEF Facing, DecoderInv, AtClient, IsPair
<1>. HIDE DEF definition, eff, mode, address
<1>9. /\ j.mnemonic = definition.mnemonic /\ j.eff_rexvex = eff /\ j.operand_mode = mode
      /\ j.address_mode = address /\ j.flags = info.flags /\ j.data = info.data
      /\ j.operand = info.operand /\ j.modrm = info.modrm
  BY <1>8 DEF IsInfo
<1>. HIDE DEF j
<1>10. InLongMode(info')
  BY <1>5, <1>6, <1>7, <1>9 DEF InLongMode
<1>11. ModrmRead(c)'
  BY <1>2, <1>7, <1>9, PairIs DEF ModrmRead, HasModrm, BeforeModrm, Pair
<1>12. info'.operand = << >> /\ IsSequence(info'.operand) /\ Len(info'.operand) = 0
  <2>1. info'.operand = << >>
    BY <1>7, <1>9 DEF AtNode
  <2>2. << >> \in Seq({}) /\ Len(<< >>) = 0
    OBVIOUS
  <2>. QED
    BY <2>1, <2>2 DEF IsSequence
<1>13. /\ info'.flags \subseteq RexOnly \cup {"IF_MODRM", "IF_SIB"} /\ LeadsTo(node', c.proc)
       /\ info'.mnemonic = MnemonicOf(c.proc)
  BY <1>1, <1>2, <1>4, <1>7, <1>9 DEF AtNode
<1>. QED
  BY <1>7, <1>10, <1>11, <1>12, <1>13 DEF AtOperands

(* The operands of the leaf.                                               *)
LEMMA LeafOperands ==
  ASSUME NEW c, LeadsTo(node, c.proc)
  PROVE  OperandDefinitions = OperandsOf(c.proc)
BY DEF LeadsTo, OperandDefinitions

LEMMA OperandOfCall ==
  ASSUME NEW c, Facing(c), phase = "operands", AtOperands(c), Operand
  PROVE  phase' = "operands" /\ AtOperands(c)' /\ input'.bytes = input.bytes
<1>. DEFINE b == m_instructionPointer
            n == Len(info.operand)
            o == OperandsOf(c.proc)[n + 1]
            s == decodeOperand(Pair, o.type, o.size)
            type(k) == TypeAt(c, k)
<1>1. OperandDefinitions = OperandsOf(c.proc) /\ Len(OperandsOf(c.proc)) = 2 /\ IsCall(c)
  BY LeafOperands, OperandTypes DEF AtOperands, Facing
<1>2. n \in Nat /\ n < 2 /\ IsSequence(info.operand)
  BY <1>1, Appended DEF Operand, AtOperands
<1>3. Becomes(s) /\ UNCHANGED node /\ phase' = IF Failed(s) THEN "failed" ELSE "operands"
  BY <1>1 DEF Operand
<1>4. InCall(Pair, b, c)
  BY FacingInCall DEF UnderWay, AtOperands
<1>5. \E x : /\ Onward(Pair, s, b, c, {"data", "flags", "modrm", "operand"}) /\ ~Failed(s)
             /\ s.info.flags \subseteq Pair.info.flags \cup {"IF_MODRM", "IF_SIB"} /\ HasModrm(s, c)
             /\ Len(s.info.data) = Behind(c, n + 1)
             /\ s.info.operand = Append(Pair.info.operand, x) /\ Seen(x) = ReadAs(c, type(n + 1))
  <2>. DEFINE k == n + 1
  <2>1. k \in {1, 2} /\ k - 1 = n
    <3>. HIDE DEF n
    <3>. QED
      BY <1>2
  <2>2. \/ HasModrm(Pair, c) /\ Len(Pair.info.data) = Behind(c, k - 1)
        \/ k = 1 /\ BeforeModrm(Pair)
    <3>1. CASE HasModrm(Pair, c) /\ Len(info.data) = Behind(c, n)
      BY <2>1, <3>1, PairIs
    <3>2. CASE BeforeModrm(Pair) /\ info.operand = << >>
      BY <3>2
    <3>. QED
      BY <3>1, <3>2 DEF AtOperands, ModrmRead
  <2>3. InLongMode(Pair.info)
    BY PairIs DEF AtOperands
  <2>. HIDE DEF k
  <2>4. LET p == OperandsOf(c.proc)[k]
        IN  Decodes(Pair, decodeOperand(Pair, p.type, p.size), b, c, Behind(c, k), ReadAs(c, TypeAt(c, k)))
    BY <1>1, <1>4, <2>1, <2>2, <2>3, OperandRead
  <2>5. Decodes(Pair, s, b, c, Behind(c, n + 1), ReadAs(c, type(n + 1)))
    BY <2>4 DEF k
  <2>. HIDE DEF s, n
  <2>. QED
    BY <2>5 DEF Decodes
<1>6. PICK x : /\ Onward(Pair, s, b, c, {"data", "flags", "modrm", "operand"}) /\ ~Failed(s)
               /\ s.info.flags \subseteq Pair.info.flags \cup {"IF_MODRM", "IF_SIB"} /\ HasModrm(s, c)
               /\ Len(s.info.data) = Behind(c, n + 1)
               /\ s.info.operand = Append(Pair.info.operand, x) /\ Seen(x) = ReadAs(c, type(n + 1))
  BY <1>5
<1>. HIDE DEF s
<1>7. info' = s.info /\ input' = s.input /\ phase' = "operands"
  BY <1>3, <1>6 DEF Becomes
<1>8. /\ s.info.mnemonic = info.mnemonic /\ InLongMode(s.info)
  BY <1>6, PairIs DEF Onward, SameBut, InfoFields, InLongMode, AtOperands
<1>9. /\ IsSequence(s.info.operand) /\ Len(s.info.operand) = n + 1
      /\ \A k \in 1 .. n : s.info.operand[k] = info.operand[k]
      /\ s.info.operand[n + 1] = x
  BY <1>2, <1>6, PairIs, Appended
<1>10. \A k \in 1 .. n + 1 : Seen(s.info.operand[k]) = ReadAs(c, type(k))
  <2>1. \A k \in 1 .. n : Seen(info.operand[k]) = ReadAs(c, type(k))
    BY DEF AtOperands
  <2>2. \A k \in 1 .. n + 1 : k \in 1 .. n \/ k = n + 1
    <3>. HIDE DEF n
    <3>. QED
      BY <1>2
  <2>. HIDE DEF n, type
  <2>. QED
    BY <1>6, <1>9, <2>1, <2>2
<1>11. ModrmRead(c)'
  <2>1. HasModrm(Pair, c)'
    BY <1>6, <1>7 DEF HasModrm, Pair
  <2>2. Len(info'.data) = Behind(c, Len(info'.operand))
    BY <1>6, <1>7, <1>9
  <2>. QED
    BY <2>1, <2>2 DEF ModrmRead
<1>12. Len(info'.operand) <= 2
  <2>. HIDE DEF n
  <2>. QED
    BY <1>2, <1>7, <1>9
<1>13. info'.flags \subseteq RexOnly \cup {"IF_MODRM", "IF_SIB"}
  BY <1>6, <1>7, PairIs DEF AtOperands
<1>14. \A k \in 1 .. Len(info'.operand) : Seen(info'.operand[k]) = ReadAs(c, TypeAt(c, k))
  BY <1>7, <1>9, <1>10
<1>15. input'.bytes = input.bytes
  BY <1>6, <1>7, SameBytes, PairIs DEF Onward
<1>. QED
  BY <1>3, <1>7, <1>8, <1>9, <1>11, <1>12, <1>13, <1>14, <1>15 DEF AtOperands

(* An instruction is done: it is what the call asks for, on all the bytes  *)
(* the call wrote, if the call can be expressed and only then.             *)
LEMMA SucceedOfCall ==
  ASSUME NEW c, Facing(c), phase = "operands", AtOperands(c), Succeed
  PROVE  /\ phase' = "client" /\ UNCHANGED input
         /\ m_instructionPointer' = m_instructionPointer + Len(info'.data)
         /\ decoded' = Append(decoded, info')
         /\ info'.flags \cap IF_ERROR_MASK = {} /\ info'.operand_mode = 64
         /\ Expressible(c) <=> Len(info'.data) = Len(Written(c)) /\ Found(info') = Asked(c)
<1>. DEFINE j == [info EXCEPT !["instrPointer"] = m_instructionPointer']
<1>1. /\ phase' = "client" /\ UNCHANGED input /\ info' = j
      /\ m_instructionPointer' = m_instructionPointer + Len(info.data)
      /\ decoded' = Append(decoded, info') /\ Len(info.operand) = Len(OperandDefinitions)
  BY DEF Succeed
<1>2. IsInfo(info)
  BY PairIs DEF Facing, DecoderInv, AtClient, IsPair
<1>3. SameBut(info, j, {"instrPointer"})
  BY <1>2, Replaced DEF InfoFields
<1>. HIDE DEF j
<1>4. /\ j.flags = info.flags /\ j.data = info.data /\ j.operand_mode = info.operand_mode
      /\ j.mnemonic = info.mnemonic /\ j.operand = info.operand
  BY <1>3 DEF SameBut, InfoFields
<1>5. Len(info.operand) = 2 /\ IsCall(c)
  <2>1. LeadsTo(node, c.proc) /\ IsCall(c)
    BY DEF AtOperands, Facing
  <2>2. OperandDefinitions = OperandsOf(c.proc)
    BY <2>1, LeafOperands
  <2>3. Len(OperandsOf(c.proc)) = 2
    BY <2>1, OperandTypes
  <2>. QED
    BY <1>1, <2>1, <2>2, <2>3
<1>6. Len(info.data) = Behind(c, 2)
  <2>1. info.operand # << >>
    <3>1. Len(<< >>) = 0
      OBVIOUS
    <3>. QED
      BY <1>5, <3>1
  <2>2. Len(info.data) = Behind(c, Len(info.operand))
    BY <2>1 DEF AtOperands, ModrmRead
  <2>. QED
    BY <1>5, <2>2
<1>7. Found(j) = <<MnemonicOf(c.proc), ReadAs(c, TypeAt(c, 1)), ReadAs(c, TypeAt(c, 2))>>
  <2>1. info.mnemonic = MnemonicOf(c.proc)
        /\ \A k \in 1 .. 2 : Seen(info.operand[k]) = ReadAs(c, TypeAt(c, k))
    BY <1>5 DEF AtOperands
  <2>2. 1 \in 1 .. 2 /\ 2 \in 1 .. 2
    OBVIOUS
  <2>. QED
    BY <1>4, <2>1, <2>2 DEF Found
<1>8. Expressible(c) <=> Len(j.data) = Len(Written(c)) /\ Found(j) = Asked(c)
  <2>1. Expressible(c) <=> /\ Behind(c, 2) = Len(Written(c))
           /\ <<MnemonicOf(c.proc), ReadAs(c, TypeAt(c, 1)), ReadAs(c, TypeAt(c, 2))>> = Asked(c)
    BY <1>5, ReadIffExpressible
  <2>. QED
    BY <1>4, <1>6, <1>7, <2>1
<1>9. j.flags \cap IF_ERROR_MASK = {}
  BY <1>4 DEF AtOperands, RexOnly, IF_ERROR_MASK
<1>10. j.operand_mode = 64
  BY <1>4 DEF AtOperands, InLongMode
<1>. QED
  BY <1>1, <1>4, <1>8, <1>9, <1>10

(* Every other step leads on through the call.                             *)
LEMMA StepOfCall ==
  ASSUME NEW c, Facing(c), EncoderRows, OnItsWay(c), Next, ~Succeed
  PROVE  OnItsWay(c)' /\ UNCHANGED <<m_instructionPointer, decoded>> /\ input'.bytes = input.bytes
<1>1. CASE Call
  <2>1. /\ info' = NewInfo(m_instructionPointer) /\ phase' = "prefixes"
        /\ UNCHANGED <<input, m_instructionPointer, decoded>>
    BY <1>1 DEF Call
  <2>2. AtPrefixes'
    BY <2>1 DEF AtPrefixes, NewInfo, RexOnly
  <2>. QED
    BY <2>1, <2>2 DEF OnItsWay
<1>2. CASE Prefix
  <2>1. phase = "prefixes" /\ UNCHANGED <<m_instructionPointer, decoded>>
    BY <1>2 DEF Prefix
  <2>. QED
    BY <1>2, <2>1, PrefixOfCall DEF OnItsWay
<1>3. CASE EndOfPrefixes
  <2>1. phase = "prefixes" /\ UNCHANGED <<m_instructionPointer, decoded>>
    BY <1>3 DEF EndOfPrefixes
  <2>. QED
    BY <1>3, <2>1, EndOfPrefixesOfCall DEF OnItsWay
<1>4. CASE FirstOpcode
  <2>1. phase = "opcode" /\ UNCHANGED <<m_instructionPointer, decoded>>
    BY <1>4 DEF FirstOpcode
  <2>. QED
    BY <1>4, <2>1, FirstOpcodeOfCall DEF OnItsWay
<1>5. CASE Table \/ Mandatory \/ Mode
  <2>1. phase = "tree" /\ (IsNode(node, "TABLE") \/ IsNode(node, "MANDATORY") \/ IsNode(node, "MODE"))
    BY <1>5 DEF Table, Mandatory, Mode
  <2>. QED
    BY <2>1, NodeOfCall DEF OnItsWay
<1>6. CASE ModrmReg
  <2>1. phase = "tree" /\ UNCHANGED <<m_instructionPointer, decoded>>
    BY <1>6 DEF ModrmReg
  <2>. QED
    BY <1>6, <2>1, ModrmRegOfCall DEF OnItsWay
<1>7. CASE Definition
  <2>1. phase = "tree" /\ UNCHANGED <<m_instructionPointer, decoded>>
    BY <1>7 DEF Definition
  <2>. QED
    BY <1>7, <2>1, DefinitionOfCall DEF OnItsWay
<1>8. CASE Operand
  <2>1. phase = "operands" /\ UNCHANGED <<m_instructionPointer, decoded>>
    BY <1>8 DEF Operand
  <2>. QED
    BY <1>8, <2>1, OperandOfCall DEF OnItsWay
<1>9. CASE Fail
  BY <1>9 DEF Fail, OnItsWay
<1>. QED
  BY <1>1, <1>2, <1>3, <1>4, <1>5, <1>6, <1>7, <1>8, <1>9 DEF Next

(* What an error raised leaves alone.                                      *)
LEMMA EndRaised ==
  ASSUME NEW q, IsPair(q)
  PROVE  LET t == Raise(q, "IF_ERROR_END_OF_INPUT")
         IN  /\ IsPair(t) /\ t.input = q.input /\ t.info.data = q.info.data
             /\ t.info.flags = q.info.flags \cup {"IF_ERROR_END_OF_INPUT"}
<1>. DEFINE f == q.info.flags \cup {"IF_ERROR_END_OF_INPUT"}
            t == [q EXCEPT !.info.flags = f]
<1>1. Raise(q, "IF_ERROR_END_OF_INPUT") = t
  BY DEF Raise
<1>2. IsPair(t) /\ t.input = q.input /\ t.info.flags = f /\ t.info.data = q.info.data
  <2>. HIDE DEF f
  <2>1. /\ IsPair(t) /\ t.input = q.input /\ t.info.flags = f
        /\ t.info.data = q.info.data /\ t.info.instrAddress = q.info.instrAddress
        /\ t.info.opcode = q.info.opcode /\ t.info.operand = q.info.operand
        /\ t.info.operand_mode = q.info.operand_mode
    BY FlagsReplaced
  <2>. QED
    BY <2>1
<1>. HIDE DEF t
<1>. QED
  BY <1>1, <1>2

(* At the end of the input every read fails.                               *)
LEMMA AtTheEnd ==
  ASSUME DecoderInv, phase \in {"prefixes", "opcode"}, info.data = << >>,
         m_instructionPointer = Len(input.bytes),
         NEW q, IsPair(q), q.input = input, q.info.data = << >>
  PROVE  LET t == Raise(q, "IF_ERROR_END_OF_INPUT")
         IN  /\ inputNext(q) = t /\ inputPeek(q) = t
             /\ IsPair(t) /\ t.input = input /\ t.info.data = << >>
             /\ Failed(t) /\ "IF_ERROR_END_OF_INPUT" \in t.info.flags
<1>. DEFINE f == q.info.flags \cup {"IF_ERROR_END_OF_INPUT"}
            t == [q EXCEPT !.info.flags = f]
<1>1. Raise(q, "IF_ERROR_END_OF_INPUT") = t
  BY DEF Raise
<1>. HIDE DEF f
<1>2. IsPair(t) /\ t.input = input /\ t.info.flags = f /\ t.info.data = << >>
  <2>. HIDE DEF t
  <2>. QED
    BY <1>1, EndRaised DEF f
<1>3. /\ I!InputOK(input) /\ input.position = m_instructionPointer + Len(info.data)
      /\ Len(info.data) = 0 /\ m_instructionPointer \in Nat
  <2>1. I!PairOK(Core(Pair), m_instructionPointer)
    BY DEF DecoderInv, AtClient
  <2>. QED
    BY <2>1, PairIs, UnderWayIs
<1>4. isEndOfInput(input)
  BY <1>3, InputIsMemory DEF isEndOfInput
<1>5. CanRead(q)
  BY DEF CanRead, MaximumLength
<1>6. inputNext(q) = t /\ inputPeek(q) = t
  BY <1>1, <1>4, <1>5 DEF inputNext, inputPeek
<1>7. "IF_ERROR_END_OF_INPUT" \in f
  BY DEF f
<1>. HIDE DEF t
<1>8. Failed(t)
  BY <1>2, <1>7 DEF Failed, IF_ERROR_MASK
<1>. QED
  BY <1>1, <1>2, <1>6, <1>7, <1>8

LEMMA NothingLeftStep ==
  ASSUME DecoderInv, NothingLeft, phase # "stopped" => m_instructionPointer = Len(input.bytes), Next
  PROVE  /\ NothingLeft' /\ UNCHANGED decoded
         /\ phase' # "stopped" => UNCHANGED m_instructionPointer /\ input'.bytes = input.bytes
<1>1. CASE Call
  BY <1>1 DEF Call, NewInfo, NothingLeft
<1>2. CASE Prefix
  <2>. DEFINE f == WithPrefix(Peeked.info.flags)
              r == IF IsRex THEN RexOf(inputCurrent(Peeked)) ELSE Peeked.info.rex
              p == [Peeked EXCEPT !.info.flags = f]
              q == [p EXCEPT !.info.rex = r]
              s == inputNext(q)
  <2>1. phase = "prefixes" /\ info.data = << >> /\ m_instructionPointer = Len(input.bytes)
    BY <1>2 DEF Prefix, NothingLeft
  <2>2. IsPair(Pair)
    BY <2>1 DEF DecoderInv, AtClient
  <2>3. IsPair(Peeked) /\ Peeked.input = input /\ Peeked.info.data = << >>
    BY <2>1, <2>2, AtTheEnd, PairIs DEF Peeked
  <2>4. [Peeked EXCEPT !.info.flags = WithPrefix(@),
                       !.info.rex = IF IsRex THEN RexOf(inputCurrent(Peeked)) ELSE @] = q
    OBVIOUS
  <2>5. Becomes(s) /\ phase' = (IF Failed(s) THEN "failed" ELSE phase)
        /\ UNCHANGED <<m_instructionPointer, decoded>>
    BY <1>2, <2>4 DEF Prefix, TakePrefix
  <2>. HIDE DEF f, r
  <2>6. IsPair(p) /\ p.input = Peeked.input /\ p.info.data = Peeked.info.data
    BY <2>3, FlagsReplaced
  <2>. HIDE DEF p
  <2>7. IsPair(q) /\ q.input = p.input /\ q.info.data = p.info.data
    BY <2>6, RexReplaced
  <2>. HIDE DEF q
  <2>8. /\ s.input = input /\ s.info.data = << >>
        /\ Failed(s) /\ "IF_ERROR_END_OF_INPUT" \in s.info.flags
    BY <2>1, <2>3, <2>6, <2>7, AtTheEnd
  <2>. HIDE DEF s
  <2>. QED
    BY <2>5, <2>8 DEF Becomes, NothingLeft, EndOfInput
<1>3. CASE EndOfPrefixes
  <2>1. phase = "prefixes" /\ info.data = << >> /\ m_instructionPointer = Len(input.bytes)
    BY <1>3 DEF EndOfPrefixes, NothingLeft
  <2>2. IsPair(Pair)
    BY <2>1 DEF DecoderInv, AtClient
  <2>3. Peeked.input = input /\ Peeked.info.data = << >>
    BY <2>1, <2>2, AtTheEnd, PairIs DEF Peeked
  <2>. QED
    BY <1>3, <2>3 DEF EndOfPrefixes, Becomes, NothingLeft
<1>4. CASE FirstOpcode
  <2>. DEFINE s == inputNext(Pair)
  <2>1. phase = "opcode" /\ info.data = << >> /\ m_instructionPointer = Len(input.bytes)
    BY <1>4 DEF FirstOpcode, NothingLeft
  <2>2. IsPair(Pair)
    BY <2>1 DEF DecoderInv, AtClient
  <2>3. /\ s.input = input /\ s.info.data = << >>
        /\ Failed(s) /\ "IF_ERROR_END_OF_INPUT" \in s.info.flags
    BY <2>1, <2>2, AtTheEnd, PairIs
  <2>4. Becomes(s) /\ phase' = "failed" /\ UNCHANGED <<m_instructionPointer, decoded>>
    BY <1>4, <2>3 DEF FirstOpcode, OpcodeByte
  <2>. HIDE DEF s
  <2>. QED
    BY <2>3, <2>4 DEF Becomes, NothingLeft, EndOfInput
<1>5. CASE Fail
  BY <1>5 DEF Fail, NothingLeft
<1>6. CASE Table \/ ModrmReg \/ Mandatory \/ Mode \/ Definition \/ Operand \/ Succeed
  BY <1>6 DEF Table, ModrmReg, Mandatory, Mode, Definition, Operand, Succeed, NothingLeft
<1>. QED
  BY <1>1, <1>2, <1>3, <1>4, <1>5, <1>6 DEF Next
-----------------------------------------------------------------------------
(***************************************************************************)
(* The whole run.  CodeInv says where the calls of a program begin in the  *)
(* buffer and, once the buffer is read, that either a call that cannot be  *)
(* expressed has been read as something else, or all before the current    *)
(* one have been read as they were asked for, and this one is on its way.  *)
(***************************************************************************)
CodeInv ==
  program # << >> =>
    \E place :
      /\ EncodedAt(place)
      /\ phase \notin BeforeDecoding => Len(lengths) = Len(program) /\ (Lost \/ OnTrack(place))

LEMMA ProgramIs ==
  ASSUME TestInv
  PROVE  /\ program \in Seq(EncoderCalls) /\ lengths \in Seq(Nat) /\ buffer \in Seq(Byte)
         /\ Len(program) \in Nat /\ Len(lengths) \in Nat /\ Len(buffer) \in Nat
         /\ DOMAIN program = 1 .. Len(program)
         /\ \A k \in 1 .. Len(program) : program[k] \in EncoderCalls
<1>1. program \in Seq(EncoderCalls) /\ lengths \in Seq(Nat) /\ buffer \in Seq(Byte)
  BY ProgramsAssumption DEF TestInv
<1>. QED
  BY <1>1

(* One more call behind the others.                                        *)
LEMMA OneMoreEncoded ==
  ASSUME TestInv, NEW place, EncodedAt(place), Len(lengths) < Len(program), Encoded.asserted,
         buffer' = buffer \o Encoded.bytes, lengths' = Append(lengths, Len(Encoded.bytes)),
         UNCHANGED program
  PROVE  \E longer : EncodedAt(longer)'
<1>. DEFINE n == Len(lengths)
            w == Encoded.bytes
            last == n + 2
            f == [k \in 1 .. last |-> IF k = last THEN Len(buffer') ELSE place[k]]
<1>1. /\ n \in Nat /\ Len(buffer) \in Nat /\ lengths \in Seq(Nat) /\ buffer \in Seq(Byte)
      /\ program[n + 1] \in EncoderCalls /\ n + 1 <= Len(program)
  <2>1. n \in Nat /\ n + 1 \in 1 .. Len(program)
    BY ProgramIs
  <2>. QED
    BY <2>1, ProgramIs
<1>2. w \in Seq(Byte) /\ Len(w) \in Nat /\ w = Written(program[n + 1])
  BY <1>1, EncodedBytes DEF Encoded, Written
<1>. HIDE DEF w
<1>3. /\ buffer' \in Seq(Byte) /\ Len(buffer') = Len(buffer) + Len(w)
      /\ \A i \in 1 .. Len(buffer) : buffer'[i] = buffer[i]
      /\ \A i \in 1 .. Len(w) : buffer'[Len(buffer) + i] = w[i]
  <2>1. buffer' = buffer \o w
    BY DEF w
  <2>2. buffer' \in Seq(Byte) /\ Len(buffer') = Len(buffer) + Len(w)
    BY <1>1, <1>2, <2>1
  <2>3. \A i \in 1 .. Len(buffer) + Len(w) :
          buffer'[i] = IF i <= Len(buffer) THEN buffer[i] ELSE w[i - Len(buffer)]
    BY <1>1, <1>2, <2>1
  <2>4. \A i \in 1 .. Len(buffer) : i \in 1 .. Len(buffer) + Len(w) /\ i <= Len(buffer)
    BY <1>1, <1>2
  <2>5. \A i \in 1 .. Len(w) : /\ Len(buffer) + i \in 1 .. Len(buffer) + Len(w)
                               /\ ~(Len(buffer) + i <= Len(buffer)) /\ (Len(buffer) + i) - Len(buffer) = i
    BY <1>1, <1>2
  <2>. QED
    BY <2>2, <2>3, <2>4, <2>5
<1>4. /\ lengths' \in Seq(Nat) /\ Len(lengths') = n + 1
      /\ \A k \in 1 .. n : lengths'[k] = lengths[k]
      /\ lengths'[n + 1] = Len(w)
  <2>1. lengths' = Append(lengths, Len(w))
    BY DEF w
  <2>. QED
    BY <1>1, <1>2, <2>1
<1>5. /\ place \in [1 .. n + 1 -> Nat] /\ place[1] = 0 /\ place[n + 1] = Len(buffer)
      /\ \A k \in 1 .. n :
           /\ place[k + 1] = place[k] + lengths[k] /\ place[k + 1] <= Len(buffer)
           /\ Encode(program[k]).asserted /\ lengths[k] = Len(Written(program[k]))
           /\ \A i \in 1 .. lengths[k] : buffer[place[k] + i] = Written(program[k])[i]
  BY DEF EncodedAt
<1>6. \E longer : /\ longer \in [1 .. (n + 1) + 1 -> Nat]
                  /\ \A k \in 1 .. n + 1 : longer[k] = place[k]
                  /\ longer[(n + 1) + 1] = Len(buffer) + Len(w)
  <2>1. (n + 1) + 1 = last /\ \A k \in 1 .. n + 1 : k \in 1 .. last /\ k # last
    <3>. HIDE DEF n
    <3>. QED
      BY <1>1
  <2>2. Len(buffer') \in Nat /\ \A k \in 1 .. last : k # last => k \in 1 .. n + 1
    <3>1. Len(buffer') \in Nat
      BY <1>1, <1>2, <1>3
    <3>2. \A k \in 1 .. last : k # last => k \in 1 .. n + 1
      <4>. HIDE DEF n
      <4>. QED
        BY <1>1
    <3>. QED
      BY <3>1, <3>2
  <2>3. \A k \in 1 .. last : (IF k = last THEN Len(buffer') ELSE place[k]) \in Nat
    BY <1>5, <2>2
  <2>4. last \in 1 .. last
    <3>. HIDE DEF n
    <3>. QED
      BY <1>1
  <2>. HIDE DEF n, last
  <2>5. /\ f \in [1 .. (n + 1) + 1 -> Nat]
        /\ \A k \in 1 .. n + 1 : f[k] = place[k]
        /\ f[(n + 1) + 1] = Len(buffer) + Len(w)
    BY <1>3, <2>1, <2>3, <2>4
  <2>. HIDE DEF f
  <2>. QED
    BY <2>5
<1>10. PICK longer : /\ longer \in [1 .. (n + 1) + 1 -> Nat]
                     /\ \A k \in 1 .. n + 1 : longer[k] = place[k]
                     /\ longer[(n + 1) + 1] = Len(buffer) + Len(w)
  BY <1>6
<1>. HIDE DEF f, last
<1>7. ASSUME NEW k \in 1 .. n + 1
      PROVE  /\ longer[k + 1] = longer[k] + lengths'[k] /\ longer[k + 1] <= Len(buffer')
             /\ Encode(program[k]).asserted /\ lengths'[k] = Len(Written(program[k]))
             /\ \A i \in 1 .. lengths'[k] : buffer'[longer[k] + i] = Written(program[k])[i]
  <2>1. CASE k = n + 1
    <3>1. longer[k + 1] = Len(buffer) + Len(w) /\ longer[k] = Len(buffer) /\ lengths'[k] = Len(w)
      BY <1>4, <1>5, <1>10, <2>1
    <3>2. Encode(program[k]).asserted
      BY <2>1 DEF Encoded
    <3>3. Len(buffer) + Len(w) <= Len(buffer')
      BY <1>1, <1>2, <1>3
    <3>. QED
      BY <1>2, <1>3, <2>1, <3>1, <3>2, <3>3
  <2>2. CASE k # n + 1
    <3>1. k \in 1 .. n /\ k + 1 \in 1 .. n + 1
      <4>. HIDE DEF n
      <4>. QED
        BY <1>1, <2>2
    <3>2. longer[k + 1] = place[k + 1] /\ longer[k] = place[k] /\ lengths'[k] = lengths[k]
      BY <1>4, <1>10, <3>1
    <3>3. /\ place[k + 1] = place[k] + lengths[k] /\ place[k + 1] <= Len(buffer)
          /\ Encode(program[k]).asserted /\ lengths[k] = Len(Written(program[k]))
          /\ \A i \in 1 .. lengths[k] : buffer[place[k] + i] = Written(program[k])[i]
      BY <1>5, <3>1
    <3>4. place[k] \in Nat /\ place[k + 1] \in Nat /\ lengths[k] \in Nat
      <4>1. k \in 1 .. n + 1
        OBVIOUS
      <4>2. place[k] \in Nat /\ place[k + 1] \in Nat
        BY <1>5, <3>1, <4>1
      <4>3. lengths[k] \in Nat
        BY <1>1, <3>1
      <4>. QED
        BY <4>2, <4>3
    <3>5. \A i \in 1 .. lengths[k] : place[k] + i \in 1 .. Len(buffer)
      <4>1. \A x, l, m \in Nat : x + l <= m => \A i \in 1 .. l : x + i \in 1 .. m
        OBVIOUS
      <4>2. place[k] + lengths[k] <= Len(buffer)
        BY <3>3
      <4>. QED
        BY <1>1, <3>4, <4>1, <4>2, Zenon
    <3>6. place[k + 1] <= Len(buffer')
      BY <1>1, <1>2, <1>3, <3>3, <3>4
    <3>. QED
      BY <1>3, <3>2, <3>3, <3>5, <3>6
  <2>. QED
    BY <2>1, <2>2
<1>8. longer[1] = 0
  <2>1. 1 \in 1 .. n + 1
    <3>. HIDE DEF n
    <3>. QED
      BY <1>1
  <2>. QED
    BY <1>5, <1>10, <2>1
<1>9. EncodedAt(longer)'
  <2>1. Len(lengths') = n + 1
    BY <1>4
  <2>2. longer \in [1 .. Len(lengths') + 1 -> Nat] /\ longer[Len(lengths') + 1] = Len(buffer')
    BY <1>3, <1>10, <2>1
  <2>3. Len(lengths') <= Len(program')
    BY <1>1, <2>1
  <2>4. \A k \in 1 .. Len(lengths') :
          /\ longer[k + 1] = longer[k] + lengths'[k] /\ longer[k + 1] <= Len(buffer')
          /\ Encode(program'[k]).asserted /\ lengths'[k] = Len(Written(program'[k]))
          /\ \A i \in 1 .. lengths'[k] : buffer'[longer[k] + i] = Written(program'[k])[i]
    BY <1>7, <2>1
  <2>. QED
    BY <1>8, <2>2, <2>3, <2>4 DEF EncodedAt
<1>. QED
  BY <1>9

(* What was read stays as it was read.                                     *)
LEMMA DecodedGrows ==
  ASSUME Next
  PROVE  decoded' = decoded \/ decoded' = Append(decoded, info')
<1>1. CASE Succeed
  BY <1>1 DEF Succeed
<1>2. CASE Fail
  BY <1>2 DEF Fail
<1>3. CASE ~Succeed /\ ~Fail
  BY <1>3 DEF Next, Call, Prefix, EndOfPrefixes, FirstOpcode, Table, ModrmReg, Mandatory, Mode,
              Definition, Operand
<1>. QED
  BY <1>1, <1>2, <1>3

LEMMA ReadStays ==
  ASSUME IsSequence(decoded), decoded' = decoded \/ decoded' = Append(decoded, info'),
         UNCHANGED <<program, lengths>>
  PROVE  /\ IsSequence(decoded') /\ Len(decoded) \in Nat /\ Len(decoded') \in Nat
         /\ DOMAIN decoded = 1 .. Len(decoded) /\ DOMAIN decoded' = 1 .. Len(decoded')
         /\ \A k \in 1 .. Len(decoded) : k \in 1 .. Len(decoded') /\ (AsAsked(k)' <=> AsAsked(k))
<1>1. Len(decoded) \in Nat /\ IsSequence(Append(decoded, info'))
  BY Appended
<1>2. Len(decoded') \in {Len(decoded), Len(decoded) + 1}
  BY Appended
<1>3. IsSequence(decoded')
  BY <1>1
<1>4. \A k \in 1 .. Len(decoded) : decoded'[k] = decoded[k]
  <2>1. CASE decoded' = decoded
    BY <2>1
  <2>2. CASE decoded' = Append(decoded, info')
    <3>1. \A k \in 1 .. Len(decoded) : Append(decoded, info')[k] = decoded[k]
      BY Appended
    <3>. QED
      BY <2>2, <3>1
  <2>. QED
    BY <2>1, <2>2
<1>5. DOMAIN decoded = 1 .. Len(decoded)
  BY DEF IsSequence
<1>6. DOMAIN decoded' = 1 .. Len(decoded')
  BY <1>3 DEF IsSequence
<1>7. Len(decoded') \in Nat
  BY <1>1, <1>2
<1>8. ASSUME NEW k \in 1 .. Len(decoded)
      PROVE  k \in 1 .. Len(decoded') /\ (AsAsked(k)' <=> AsAsked(k))
  <2>1. k \in 1 .. Len(decoded')
    BY <1>1, <1>2
  <2>2. decoded'[k] = decoded[k]
    BY <1>4
  <2>. QED
    BY <2>1, <2>2 DEF AsAsked
<1>. QED
  BY <1>1, <1>3, <1>5, <1>6, <1>7, <1>8

LEMMA LostStays ==
  ASSUME IsSequence(decoded), decoded' = decoded \/ decoded' = Append(decoded, info'),
         UNCHANGED <<program, lengths>>, Lost
  PROVE  Lost'
<1>1. PICK k \in DOMAIN decoded \cap DOMAIN program : ~Expressible(program[k]) /\ ~AsAsked(k)
  BY DEF Lost
<1>2. k \in DOMAIN decoded' /\ (AsAsked(k)' <=> AsAsked(k))
  BY <1>1, ReadStays
<1>3. k \in DOMAIN decoded' \cap DOMAIN program' /\ ~Expressible(program'[k]) /\ ~AsAsked(k)'
  BY <1>1, <1>2
<1>. QED
  BY <1>3 DEF Lost

(* The call the instruction pointer stands at.                             *)
LEMMA FacingNext ==
  ASSUME TestInv, DecoderInv, NEW place, EncodedAt(place), Len(lengths) = Len(program),
         NEW k \in 1 .. Len(program),
         input.bytes = buffer, m_instructionPointer = place[k]
  PROVE  Facing(program[k])
<1>1. program[k] \in EncoderCalls /\ k \in 1 .. Len(lengths)
  BY ProgramIs
<1>2. /\ place[k + 1] = place[k] + lengths[k] /\ place[k + 1] <= Len(buffer)
      /\ Encode(program[k]).asserted /\ lengths[k] = Len(Written(program[k]))
      /\ \A i \in 1 .. lengths[k] : buffer[place[k] + i] = Written(program[k])[i]
  BY <1>1 DEF EncodedAt
<1>. QED
  BY <1>1, <1>2 DEF Facing, IsCall, Coming

LEMMA TrackStep ==
  ASSUME TestInv, DecoderInv, EncoderRows, NEW place, EncodedAt(place),
         Len(lengths) = Len(program), OnTrack(place), Decode
  PROVE  Lost' \/ OnTrack(place)'
<1>. PICK n, m : n = Len(decoded) /\ m = Len(program)
  OBVIOUS
<1>1. Next /\ UNCHANGED <<program, lengths, buffer>> /\ IsSequence(decoded)
  BY DEF Decode, DecoderInv, Tiled
<1>2. n \in Nat /\ m \in Nat /\ n <= m /\ Len(program') = m
  BY <1>1, ProgramIs, Appended DEF OnTrack
<1>3. /\ decoded' = decoded \/ decoded' = Append(decoded, info')
      /\ \A k \in 1 .. n : AsAsked(k)' <=> AsAsked(k)
      /\ DOMAIN decoded' = 1 .. Len(decoded')
  BY <1>1, DecodedGrows, ReadStays
<1>4. \A k \in 1 .. n : Expressible(program[k]) /\ AsAsked(k)'
  BY <1>3 DEF OnTrack
<1>5. CASE n < m
  <2>. PICK c : c = program[n + 1]
    OBVIOUS
  <2>1. n + 1 \in 1 .. m /\ n # m /\ n + 1 <= m
    BY <1>2, <1>5
  <2>2. OnItsWay(c)
    BY <1>5 DEF OnTrack
  <2>3. phase # "stopped"
    BY <2>2 DEF OnItsWay
  <2>4. input.bytes = buffer /\ m_instructionPointer = place[n + 1]
    BY <2>3 DEF OnTrack
  <2>5. Facing(c)
    BY <2>1, <2>4, FacingNext
  <2>6. CASE ~Succeed
    <3>1. OnItsWay(c)' /\ UNCHANGED <<m_instructionPointer, decoded>> /\ input'.bytes = input.bytes
      BY <1>1, <2>2, <2>5, <2>6, StepOfCall
    <3>2. program'[Len(decoded') + 1] = c
      BY <1>1, <3>1
    <3>3. OnItsWay(program[Len(decoded) + 1])'
      BY <3>1, <3>2 DEF OnItsWay, AtPrefixes, AtOpcode, AtNode, AtOperands, ModrmRead
    <3>. QED
      BY <1>1, <1>2, <1>4, <1>5, <2>1, <2>4, <3>1, <3>3 DEF OnTrack
  <2>7. CASE Succeed
    <3>1. phase = "operands" /\ AtOperands(c)
      BY <2>2, <2>7 DEF OnItsWay, Succeed
    <3>2. /\ phase' = "client" /\ UNCHANGED input
          /\ m_instructionPointer' = m_instructionPointer + Len(info'.data)
          /\ decoded' = Append(decoded, info')
          /\ info'.flags \cap IF_ERROR_MASK = {} /\ info'.operand_mode = 64
          /\ Expressible(c) <=> Len(info'.data) = Len(Written(c)) /\ Found(info') = Asked(c)
      BY <2>5, <2>7, <3>1, SucceedOfCall
    <3>3. Len(decoded') = n + 1 /\ decoded'[n + 1] = info'
      BY <1>1, <3>2, Appended
    <3>4. n + 1 \in 1 .. Len(lengths)
      BY <2>1
    <3>5. lengths[n + 1] = Len(Written(c)) /\ place[(n + 1) + 1] = place[n + 1] + lengths[n + 1]
      BY <3>4 DEF EncodedAt
    <3>6. AsAsked(n + 1)' <=> Expressible(c)
      <4>1. /\ decoded'[n + 1] = info' /\ lengths'[n + 1] = Len(Written(c))
            /\ program'[n + 1] = c
        BY <1>1, <3>3, <3>5
      <4>. QED
        BY <3>2, <4>1 DEF AsAsked
    <3>7. CASE Expressible(c)
      <4>1. m_instructionPointer' = place[(n + 1) + 1]
        BY <2>4, <3>2, <3>5, <3>7
      <4>2. \A k \in 1 .. n + 1 : Expressible(program[k]) /\ AsAsked(k)'
        <5>1. \A k \in 1 .. n + 1 : k \in 1 .. n \/ k = n + 1
          BY <1>2
        <5>. QED
          BY <1>4, <3>6, <3>7, <5>1
      <4>3. \A k \in 1 .. Len(decoded') : Expressible(program'[k]) /\ AsAsked(k)'
        BY <1>1, <3>3, <4>2
      <4>4. input'.bytes = buffer' /\ m_instructionPointer' = place[Len(decoded') + 1]
        BY <1>1, <2>4, <3>2, <3>3, <4>1
      <4>5. OnItsWay(program[Len(decoded) + 1])' /\ NothingLeft'
        BY <3>2 DEF OnItsWay, NothingLeft
      <4>6. Len(decoded') <= Len(program')
        BY <1>2, <2>1, <3>3
      <4>. QED
        BY <4>3, <4>4, <4>5, <4>6 DEF OnTrack
    <3>8. CASE ~Expressible(c)
      <4>1. n + 1 \in DOMAIN decoded' \cap DOMAIN program'
        <5>1. n + 1 \in 1 .. n + 1
          BY <1>2
        <5>2. DOMAIN program' = 1 .. m
          BY <1>1, ProgramIs
        <5>. QED
          BY <1>3, <2>1, <3>3, <5>1, <5>2
      <4>2. ~Expressible(program'[n + 1]) /\ ~AsAsked(n + 1)'
        BY <1>1, <3>6, <3>8
      <4>3. \E k \in DOMAIN decoded' \cap DOMAIN program' : ~Expressible(program'[k]) /\ ~AsAsked(k)'
        BY <4>1, <4>2
      <4>. QED
        BY <4>3 DEF Lost
    <3>. QED
      BY <3>7, <3>8
  <2>. QED
    BY <2>6, <2>7
<1>6. CASE n = m
  <2>1. NothingLeft
    BY <1>6 DEF OnTrack
  <2>2. phase # "stopped" =>
          input.bytes = buffer /\ m_instructionPointer = place[n + 1] /\ place[n + 1] = Len(buffer)
    BY <1>6 DEF OnTrack, EncodedAt
  <2>3. /\ NothingLeft' /\ UNCHANGED decoded
        /\ phase' # "stopped" => UNCHANGED m_instructionPointer /\ input'.bytes = input.bytes
    BY <1>1, <2>1, <2>2, NothingLeftStep
  <2>4. phase # "stopped"
    BY <1>1 DEF Next, Call, Prefix, EndOfPrefixes, FirstOpcode, Table, ModrmReg, Mandatory, Mode,
                Definition, Operand, Succeed, Fail
  <2>5. ~(n < m) /\ ~(Len(decoded') < Len(program'))
    <3>1. Len(decoded') = n
      BY <2>3
    <3>. QED
      BY <1>2, <1>6, <3>1
  <2>. QED
    BY <1>1, <1>2, <1>4, <2>2, <2>3, <2>4, <2>5 DEF OnTrack
<1>. QED
  BY <1>2, <1>5, <1>6

LEMMA CodeInit == TestInit => CodeInv
<1>. SUFFICES ASSUME TestInit PROVE CodeInv
  OBVIOUS
<1>1. program \in Seq(EncoderCalls) /\ lengths = << >> /\ buffer = << >> /\ phase = "encoding"
  BY ProgramsAssumption DEF TestInit
<1>2. Len(lengths) = 0 /\ Len(buffer) = 0 /\ Len(program) \in Nat
  BY <1>1
<1>. DEFINE place == [k \in 1 .. 0 + 1 |-> 0]
<1>3. place \in [1 .. 0 + 1 -> Nat] /\ place[1] = 0
  OBVIOUS
<1>. HIDE DEF place
<1>4. EncodedAt(place)
  BY <1>2, <1>3 DEF EncodedAt
<1>. QED
  BY <1>1, <1>4 DEF CodeInv, BeforeDecoding

LEMMA CodeStep ==
  ASSUME EncoderRows
  PROVE  TestInv /\ CodeInv /\ [TestNext \/ Ended]_testvars => CodeInv'
<1>. SUFFICES ASSUME TestInv, CodeInv, [TestNext \/ Ended]_testvars, program' # << >>
              PROVE  \E place :
                       /\ EncodedAt(place)'
                       /\ phase' \notin BeforeDecoding =>
                            Len(lengths') = Len(program') /\ (Lost' \/ OnTrack(place)')
  BY DEF CodeInv
<1>1. UNCHANGED program
  BY DEF TestNext, EncodeOne, setDataSource, Decode, Ended, testvars
<1>2. PICK place : /\ EncodedAt(place)
                   /\ phase \notin BeforeDecoding => Len(lengths) = Len(program) /\ (Lost \/ OnTrack(place))
  BY <1>1 DEF CodeInv
<1>3. ASSUME UNCHANGED <<lengths, buffer>> PROVE EncodedAt(place)'
  BY <1>1, <1>2, <1>3 DEF EncodedAt
<1>4. CASE EncodeOne
  <2>1. phase = "encoding" /\ phase' \in BeforeDecoding /\ Len(lengths) < Len(program)
    BY <1>4 DEF EncodeOne, BeforeDecoding
  <2>2. CASE Encoded.asserted
    <3>1. buffer' = buffer \o Encoded.bytes /\ lengths' = Append(lengths, Len(Encoded.bytes))
      BY <1>4, <2>2 DEF EncodeOne
    <3>. QED
      BY <1>1, <1>2, <2>1, <2>2, <3>1, OneMoreEncoded
  <2>3. CASE ~Encoded.asserted
    <3>1. UNCHANGED <<lengths, buffer>>
      BY <1>4, <2>3 DEF EncodeOne
    <3>. QED
      BY <1>3, <2>1, <3>1
  <2>. QED
    BY <2>2, <2>3
<1>5. CASE setDataSource
  <2>1. /\ phase = "encoding" /\ Len(lengths) = Len(program) /\ phase' = "client"
        /\ UNCHANGED <<m_instructionPointer, decoded, program, lengths, buffer>>
    BY <1>5 DEF setDataSource
  <2>2. input'.bytes = buffer
    <3>1. PICK garbage \in Uninitialized :
            \E source \in {[kind |-> "memory", bytes |-> buffer]} : input' = Open(source, garbage)
      BY <1>1, <1>5 DEF setDataSource
    <3>2. input' = Open([kind |-> "memory", bytes |-> buffer], garbage)
      BY <3>1
    <3>. QED
      BY <3>2 DEF Open
  <2>3. m_instructionPointer = 0 /\ decoded = << >> /\ Len(decoded) = 0
    BY <2>1 DEF TestInv, BeforeDecoding
  <2>4. place[0 + 1] = 0
    BY <1>2 DEF EncodedAt
  <2>5. OnItsWay(program[Len(decoded) + 1])'
    BY <2>1 DEF OnItsWay
  <2>6. NothingLeft'
    BY <2>1 DEF NothingLeft
  <2>7. OnTrack(place)'
    BY <2>1, <2>2, <2>3, <2>4, <2>5, <2>6, ProgramIs DEF OnTrack
  <2>. QED
    BY <1>3, <2>1, <2>7
<1>6. CASE Decode
  <2>1. Next /\ UNCHANGED <<program, lengths, buffer>>
    BY <1>6 DEF Decode
  <2>2. phase \notin BeforeDecoding
    BY <2>1 DEF Next, Call, Prefix, EndOfPrefixes, FirstOpcode, Table, ModrmReg, Mandatory, Mode,
                Definition, Operand, Succeed, Fail, BeforeDecoding
  <2>3. DecoderInv /\ IsSequence(decoded)
    BY <2>2 DEF TestInv, DecoderInv, Tiled
  <2>4. Len(lengths) = Len(program) /\ (Lost \/ OnTrack(place))
    BY <1>2, <2>2
  <2>5. CASE Lost
    <3>1. Lost'
      BY <2>1, <2>3, <2>5, DecodedGrows, LostStays
    <3>. QED
      BY <1>3, <2>1, <2>4, <3>1
  <2>6. CASE OnTrack(place)
    <3>1. Lost' \/ OnTrack(place)'
      BY <1>2, <1>6, <2>3, <2>4, <2>6, TrackStep
    <3>. QED
      BY <1>3, <2>1, <2>4, <3>1
  <2>. QED
    BY <2>4, <2>5, <2>6
<1>7. CASE Ended \/ UNCHANGED testvars
  <2>1. UNCHANGED <<vars, program, lengths, buffer>>
    BY <1>7 DEF Ended, testvars
  <2>2. UNCHANGED <<input, info, m_instructionPointer, phase, node, decoded>>
    BY <2>1 DEF vars
  <2>3. Lost => Lost'
    BY <2>1, <2>2 DEF Lost, AsAsked
  <2>4. OnTrack(place) => OnTrack(place)'
    <3>1. \A c : OnItsWay(c) => OnItsWay(c)'
      BY <2>2 DEF OnItsWay, AtPrefixes, AtOpcode, AtNode, AtOperands, ModrmRead, Pair
    <3>2. NothingLeft => NothingLeft'
      BY <2>2 DEF NothingLeft, EndOfInput
    <3>3. \A k : AsAsked(k) => AsAsked(k)'
      BY <2>1, <2>2 DEF AsAsked
    <3>. QED
      BY <2>1, <2>2, <3>1, <3>2, <3>3 DEF OnTrack
  <2>. QED
    BY <1>2, <1>3, <2>1, <2>2, <2>3, <2>4
<1>. QED
  BY <1>4, <1>5, <1>6, <1>7 DEF TestNext

LEMMA ReadBack ==
  ASSUME TestInv, CodeInv
  PROVE  DecodesIffExpressible
<1>. SUFFICES ASSUME phase = "stopped", program # << >>
              PROVE  (\A k \in DOMAIN program : Expressible(program[k])) <=>
                       (DOMAIN decoded = DOMAIN program /\ \A k \in DOMAIN decoded : AsAsked(k))
  BY DEF DecodesIffExpressible
<1>1. phase \notin BeforeDecoding
  BY DEF BeforeDecoding
<1>2. PICK place : Lost \/ OnTrack(place)
  BY <1>1 DEF CodeInv
<1>3. IsSequence(decoded)
  BY <1>1 DEF TestInv, DecoderInv, Tiled
<1>4. CASE Lost
  BY <1>4 DEF Lost
<1>5. CASE OnTrack(place)
  <2>1. Len(decoded) <= Len(program) /\ ~(Len(decoded) < Len(program))
    BY <1>5 DEF OnTrack, OnItsWay
  <2>2. Len(decoded) \in Nat /\ Len(program) \in Nat /\ DOMAIN program = 1 .. Len(program)
    BY <1>3, Appended, ProgramIs
  <2>3. Len(decoded) = Len(program)
    BY <2>1, <2>2
  <2>4. DOMAIN decoded = 1 .. Len(decoded)
    BY <1>3 DEF IsSequence
  <2>. QED
    BY <1>5, <2>2, <2>3, <2>4 DEF OnTrack
<1>. QED
  BY <1>2, <1>4, <1>5

(* For every program of calls, whatever the tables hold besides the rows   *)
(* of the encoder's opcodes: a program whose assertions hold is read back  *)
(* as it was asked for, call by call, exactly when all its calls can be    *)
(* expressed (TestCodegenX86_64.cpp, asm_x86_64.h).                        *)
THEOREM RoundTripCorrect == TestSpec => []DecodesIffExpressible
<1>1. TestInv /\ [TestNext \/ Ended]_testvars => TestInv'
  BY EncodeOneOK, SetDataSourceOK, DecodeOK, TestStutter DEF TestNext, Ended
<1>2. TestInv /\ CodeInv /\ [TestNext \/ Ended]_testvars => CodeInv'
  BY CodeStep, EncoderRowsAssumption
<1>3. TestInv /\ CodeInv => DecodesIffExpressible
  BY ReadBack
<1>. QED
  BY <1>1, <1>2, <1>3, TestInitOK, CodeInit, PTL DEF TestSpec
-----------------------------------------------------------------------------
(***************************************************************************)
(* The client's loop.  A node of the tree that takes no byte hands over to *)
(* one with fewer tables under it, for the tree has no way back; every     *)
(* other step gets further by what it does itself.                         *)
(***************************************************************************)
LEMMA TablesAreFinite == IsFiniteSet(DOMAIN optree) /\ DOMAIN optree \subseteq Nat
<1>1. DOMAIN optree \subseteq NodeValues .. 15 * NodeValues - 1
  BY TreeAssumption
<1>2. IsFiniteSet(NodeValues .. 15 * NodeValues - 1)
  <2>1. NodeValues \in Int /\ 15 * NodeValues - 1 \in Int
    BY DEF NodeValues
  <2>. HIDE DEF NodeValues
  <2>. QED
    BY <2>1, FS_Interval
<1>3. IsFiniteSet(DOMAIN optree)
  BY <1>1, <1>2, FS_Subset
<1>4. NodeValues .. 15 * NodeValues - 1 \subseteq Nat
  BY SMT DEF NodeValues
<1>. QED
  BY <1>1, <1>3, <1>4

LEMMA HeightIs ==
  ASSUME NEW parent \in DOMAIN optree
  PROVE  /\ Reached(parent) \subseteq DOMAIN optree /\ IsFiniteSet(Reached(parent))
         /\ parent \in Reached(parent)
         /\ Height(parent) = Cardinality(Reached(parent)) /\ Height(parent) \in Nat \ {0}
<1>1. Reached(parent) \subseteq DOMAIN optree /\ parent \in Reached(parent)
  BY DEF Reached
<1>2. IsFiniteSet(Reached(parent))
  BY <1>1, TablesAreFinite, FS_Subset
<1>3. Height(parent) = Cardinality(Reached(parent))
  BY DEF Height, TablesReached
<1>4. Cardinality(Reached(parent)) \in Nat
  BY <1>2, FS_CardinalityType
<1>5. Cardinality(Reached(parent)) # 0
  BY <1>1, <1>2, FS_EmptySet
<1>. QED
  BY <1>1, <1>2, <1>3, <1>4, <1>5

LEMMA HeightIsNat == \A any : Height(any) \in Nat
BY HeightIs DEF Height

(* What a child reaches its parent reaches, and itself besides.            *)
LEMMA LowerNode ==
  ASSUME NEW parent \in DOMAIN optree, ~IsNode(parent, "TABLE"),
         NEW index \in DOMAIN optree[parent]
  PROVE  LET child == GetOpcodeTreeChild(parent, index)
         IN  Height(child) \in Nat /\ Height(parent) \in Nat /\ Height(child) < Height(parent)
<1>. DEFINE child == GetOpcodeTreeChild(parent, index)
<1>1. CASE child \in DOMAIN optree
  <2>1. child \in Below(parent)
    BY <1>1 DEF Below
  <2>2. parent \notin Reached(child)
    BY <2>1, TreeAssumption
  <2>3. ASSUME NEW other \in Reached(child) PROVE other \in Reached(parent)
    <3>1. SUFFICES ASSUME NEW nodes \in SUBSET DOMAIN optree, parent \in nodes,
                          \A p \in nodes : Below(p) \subseteq nodes
                   PROVE  other \in nodes
      BY <2>3 DEF Reached
    <3>2. child \in nodes
      BY <2>1, <3>1
    <3>. HIDE DEF child
    <3>. QED
      BY <2>3, <3>1, <3>2 DEF Reached
  <2>. HIDE DEF child
  <2>4. Reached(child) \subseteq Reached(parent) /\ Reached(child) # Reached(parent)
    BY <2>2, <2>3, HeightIs
  <2>5. Cardinality(Reached(child)) < Cardinality(Reached(parent))
    <3>1. IsFiniteSet(Reached(parent))
      BY HeightIs
    <3>2. /\ Cardinality(Reached(child)) <= Cardinality(Reached(parent))
          /\ Cardinality(Reached(child)) # Cardinality(Reached(parent))
      BY <2>4, <3>1, FS_Subset
    <3>3. Cardinality(Reached(child)) \in Nat /\ Cardinality(Reached(parent)) \in Nat
      BY <2>4, <3>1, FS_Subset, FS_CardinalityType
    <3>. QED
      BY <3>2, <3>3
  <2>6. Height(child) = Cardinality(Reached(child)) /\ Height(child) \in Nat
    BY <1>1, HeightIs
  <2>7. Height(parent) = Cardinality(Reached(parent)) /\ Height(parent) \in Nat
    BY HeightIs
  <2>8. Height(child) < Height(parent)
    BY <2>5, <2>6, <2>7
  <2>. QED
    BY <2>6, <2>7, <2>8 DEF child
<1>2. CASE child \notin DOMAIN optree
  <2>1. Height(child) = 0
    BY <1>2 DEF Height
  <2>2. Height(parent) \in Nat \ {0}
    BY HeightIs
  <2>. QED
    BY <2>1, <2>2
<1>. QED
  BY <1>1, <1>2

LEMMA StageIs ==
  /\ Stage("encoding") = 1 /\ Stage("client") = 2 /\ Stage("prefixes") = 3
  /\ Stage("opcode") = 4 /\ Stage("tree") = 5 /\ Stage("operands") = 6
  /\ Stage("failed") = 7 /\ Stage("stopped") = 8 /\ Stage("aborted") = 9
<1>. DEFINE D == 1 .. 9
<1>1. DOMAIN Stages = D
  BY DEF Stages
<1>2. /\ Stages[1] = "encoding" /\ Stages[2] = "client" /\ Stages[3] = "prefixes"
      /\ Stages[4] = "opcode" /\ Stages[5] = "tree" /\ Stages[6] = "operands"
      /\ Stages[7] = "failed" /\ Stages[8] = "stopped" /\ Stages[9] = "aborted"
  BY DEF Stages
<1>3. \A i, j \in D : Stages[i] = Stages[j] => i = j
  BY <1>2
<1>4. ASSUME NEW n \in D PROVE Stage(Stages[n]) = n
  BY <1>1, <1>3 DEF Stage
<1>. QED
  BY <1>2, <1>4

(* The five parts of the measure, the first that differs has grown.        *)
LEMMA Grown ==
  ASSUME NEW a1, NEW a2, NEW a3, NEW a4, NEW a5, NEW b1, NEW b2, NEW b3, NEW b4, NEW b5,
         \/ a1 < b1
         \/ a1 = b1 /\ a2 < b2
         \/ a1 = b1 /\ a2 = b2 /\ a3 < b3
         \/ a1 = b1 /\ a2 = b2 /\ a3 = b3 /\ a4 < b4
         \/ a1 = b1 /\ a2 = b2 /\ a3 = b3 /\ a4 = b4 /\ a5 < b5
  PROVE  LessWork(<<a1, a2, a3, a4, a5>>, <<b1, b2, b3, b4, b5>>)
<1>. DEFINE a == <<a1, a2, a3, a4, a5>>
            b == <<b1, b2, b3, b4, b5>>
<1>1. /\ DOMAIN a = 1 .. 5
      /\ a[1] = a1 /\ a[2] = a2 /\ a[3] = a3 /\ a[4] = a4 /\ a[5] = a5
      /\ b[1] = b1 /\ b[2] = b2 /\ b[3] = b3 /\ b[4] = b4 /\ b[5] = b5
  OBVIOUS
<1>. HIDE DEF a, b
<1>2. \E i \in 1 .. 5 : a[i] < b[i] /\ \A j \in 1 .. i - 1 : a[j] = b[j]
  <2>1. CASE a1 < b1
    <3>1. a[1] < b[1] /\ \A j \in 1 .. 1 - 1 : a[j] = b[j]
      BY <1>1, <2>1
    <3>. QED
      BY <3>1
  <2>2. CASE a1 = b1 /\ a2 < b2
    <3>1. a[2] < b[2] /\ \A j \in 1 .. 2 - 1 : a[j] = b[j]
      BY <1>1, <2>2
    <3>. QED
      BY <3>1
  <2>3. CASE a1 = b1 /\ a2 = b2 /\ a3 < b3
    <3>1. a[3] < b[3] /\ \A j \in 1 .. 3 - 1 : a[j] = b[j]
      BY <1>1, <2>3
    <3>. QED
      BY <3>1
  <2>4. CASE a1 = b1 /\ a2 = b2 /\ a3 = b3 /\ a4 < b4
    <3>1. a[4] < b[4] /\ \A j \in 1 .. 4 - 1 : a[j] = b[j]
      BY <1>1, <2>4
    <3>. QED
      BY <3>1
  <2>5. CASE a1 = b1 /\ a2 = b2 /\ a3 = b3 /\ a4 = b4 /\ a5 < b5
    <3>1. a[5] < b[5] /\ \A j \in 1 .. 5 - 1 : a[j] = b[j]
      BY <1>1, <2>5
    <3>. QED
      BY <3>1
  <2>. QED
    BY <2>1, <2>2, <2>3, <2>4, <2>5
<1>3. LessWork(a, b)
  BY <1>1, <1>2 DEF LessWork
<1>. QED
  BY <1>3 DEF a, b

LEMMA WorkGrows ==
  ASSUME \/ m_instructionPointer < m_instructionPointer'
         \/ /\ UNCHANGED m_instructionPointer
            /\ \/ Stage(phase) < Stage(phase')
               \/ /\ Stage(phase) = Stage(phase')
                  /\ \/ Len(lengths) + Len(info.data) < Len(lengths') + Len(info'.data)
                     \/ /\ Len(lengths) + Len(info.data) = Len(lengths') + Len(info'.data)
                        /\ \/ Len(info.operand) < Len(info'.operand)
                           \/ /\ Len(info.operand) = Len(info'.operand)
                              /\ 0 - Height(node) < 0 - Height(node')
  PROVE  LessWork(Work, Work')
BY Grown DEF Work

LEMMA DecodeGetsFurther ==
  ASSUME DecoderInv, LengthInv, Next, UNCHANGED lengths, Len(lengths) \in Nat
  PROVE  LessWork(Work, Work')
<1>. DEFINE b == m_instructionPointer
<1>1. b \in Nat
  BY DEF DecoderInv
<1>2. ASSUME phase \in UnderWay
      PROVE  /\ Reading(Pair, b) /\ Countable(Pair)
             /\ Len(info.data) \in Nat /\ Len(info.operand) \in Nat
  <2>1. Reading(Pair, b) /\ Countable(Pair)
    BY <1>2, PairReading DEF LengthInv
  <2>. QED
    BY <2>1, UnderWayIs, Appended, PairIs DEF Reading, Countable
<1>3. CASE Call
  BY <1>3, StageIs, WorkGrows DEF Call
<1>4. CASE Prefix
  <2>1. phase = "prefixes" /\ phase' \in {"prefixes", "failed"} /\ UNCHANGED m_instructionPointer
    BY <1>4 DEF Prefix
  <2>2. phase' = "prefixes" => Len(info'.data) = Len(info.data) + 1
    BY <1>4, PrefixLength
  <2>3. phase' = "prefixes" => Len(lengths) + Len(info.data) < Len(lengths') + Len(info'.data)
    BY <1>2, <2>1, <2>2 DEF UnderWay
  <2>. QED
    BY <2>1, <2>3, StageIs, WorkGrows
<1>5. CASE EndOfPrefixes
  BY <1>5, StageIs, WorkGrows DEF EndOfPrefixes
<1>6. ASSUME NEW table, OpcodeByte(table), phase \in {"opcode", "tree"}, UNCHANGED m_instructionPointer
      PROVE  LessWork(Work, Work')
  <2>. DEFINE s == inputNext(Pair)
  <2>1. CASE Failed(s)
    <3>1. phase' = "failed"
      BY <1>6, <2>1 DEF OpcodeByte
    <3>. QED
      BY <1>6, <3>1, StageIs, WorkGrows
  <2>2. CASE ~Failed(s)
    <3>1. phase' = "tree" /\ info' = TakeOpcode(s).info
      BY <1>6, <2>2 DEF OpcodeByte, Becomes
    <3>2. CASE phase = "opcode"
      BY <1>6, <3>1, <3>2, StageIs, WorkGrows
    <3>3. CASE phase = "tree"
      <4>1. Reading(Pair, b) /\ Countable(Pair) /\ IsSequence(info.opcode) /\ Len(info.data) \in Nat
        BY <1>2, <3>3 DEF UnderWay, LengthInv
      <4>2. Len(TakeOpcode(s).info.data) = Len(info.data) + 1
        BY <2>2, <4>1, OpcodeTaken, PairIs
      <4>3. Len(lengths) + Len(info.data) < Len(lengths') + Len(info'.data)
        BY <3>1, <4>1, <4>2
      <4>. QED
        BY <1>6, <3>1, <3>3, <4>3, WorkGrows
    <3>. QED
      BY <1>6, <3>2, <3>3
  <2>. QED
    BY <2>1, <2>2
<1>7. CASE FirstOpcode
  BY <1>6, <1>7 DEF FirstOpcode
<1>8. CASE Table
  BY <1>6, <1>8 DEF Table
<1>9. ASSUME phase = "tree" PROVE InTree(node)
  BY <1>9 DEF LengthInv
<1>10. CASE ModrmReg
  <2>. DEFINE s == decodeModrm(Pair)
              m == ModrmLength(info.flags)
  <2>1. /\ phase = "tree" /\ IsNode(node, "MODRM_REG") /\ info' = s.info
        /\ UNCHANGED m_instructionPointer
        /\ Failed(s) => phase' = "failed"
        /\ ~Failed(s) => /\ HasChild(node, s.info.modrm.reg) /\ phase' = "tree"
                         /\ node' = GetOpcodeTreeChild(node, s.info.modrm.reg)
    BY <1>10 DEF ModrmReg, Becomes
  <2>2. CASE Failed(s)
    BY <2>1, <2>2, StageIs, WorkGrows
  <2>3. CASE ~Failed(s)
    <3>1. /\ Reading(Pair, b) /\ Countable(Pair)
          /\ Len(info.data) \in Nat /\ Len(info.operand) \in Nat
      BY <1>2, <2>1 DEF UnderWay
    <3>2. Effect(Pair, s, b, m, {"IF_MODRM"}, 0, 0)
      BY <3>1, ModrmEffect, PairIs
    <3>. HIDE DEF s
    <3>3. Len(info'.data) = Len(info.data) + m /\ Len(info'.operand) = Len(info.operand) + 0
      BY <2>1, <2>3, <3>2, PairIs DEF Effect
    <3>4. m \in Nat
      BY DEF ModrmLength
    <3>5. node \in DOMAIN optree /\ ~IsNode(node, "TABLE")
      <4>1. node \in DOMAIN optree
        BY <1>9, <2>1, IsTable DEF OpcodeTreeNodeType
      <4>. QED
        BY <2>1, <4>1 DEF IsNode, OpcodeTreeNodeType
    <3>6. Height(node) \in Nat /\ Height(node') \in Nat /\ Height(node') < Height(node)
      BY <2>1, <2>3, <3>5, LowerNode DEF HasChild
    <3>. HIDE DEF m
    <3>. DEFINE x == Len(info.data)
                y == Len(info'.data)
                l == Len(lengths)
                o == Len(info.operand)
                p == Len(info'.operand)
    <3>7. Len(lengths') = l /\ x \in Nat /\ l \in Nat /\ o \in Nat /\ y = x + m /\ p = o + 0
      BY <3>1, <3>3
    <3>. HIDE DEF x, y, l, o, p
    <3>8. (l + x < l + y \/ l + x = l + y) /\ o = p /\ 0 - Height(node) < 0 - Height(node')
      BY <3>4, <3>6, <3>7
    <3>. QED
      BY <2>1, <2>3, <3>7, <3>8, WorkGrows DEF x, y, l, o, p
  <2>. QED
    BY <2>2, <2>3
<1>11. ASSUME phase = "tree", UNCHANGED <<phase, m_instructionPointer>>, ~IsNode(node, "TABLE"),
              node \in DOMAIN optree, NEW index \in DOMAIN optree[node],
              node' = GetOpcodeTreeChild(node, index),
              info'.data = info.data, info'.operand = info.operand
       PROVE  LessWork(Work, Work')
  <2>1. Height(node) \in Nat /\ Height(node') \in Nat /\ Height(node') < Height(node)
    BY <1>11, LowerNode
  <2>2. 0 - Height(node) < 0 - Height(node')
    BY <2>1
  <2>. QED
    BY <1>11, <2>2, WorkGrows
<1>12. CASE Mandatory
  <2>1. PICK index : /\ HasChild(node, index) /\ node' = GetOpcodeTreeChild(node, index)
                     /\ info' = [info EXCEPT !.flags = info.flags \ UsedPrefixes(index)]
    BY <1>12 DEF Mandatory
  <2>2. phase = "tree" /\ IsNode(node, "MANDATORY") /\ UNCHANGED <<phase, m_instructionPointer>>
    BY <1>12 DEF Mandatory
  <2>3. node \in DOMAIN optree
    BY <1>9, <2>2, IsTable DEF OpcodeTreeNodeType
  <2>4. ~IsNode(node, "TABLE")
    BY <2>2, <2>3 DEF IsNode, OpcodeTreeNodeType
  <2>5. IsInfo(info)
    BY <1>2, <2>2, PairIs DEF UnderWay, Reading, IsPair
  <2>6. info'.data = info.data /\ info'.operand = info.operand
    BY <2>1, <2>5 DEF IsInfo
  <2>. QED
    BY <1>11, <2>1, <2>2, <2>3, <2>4, <2>6 DEF HasChild
<1>13. CASE Mode
  <2>1. /\ phase = "tree" /\ IsNode(node, "MODE") /\ HasChild(node, 1)
        /\ node' = GetOpcodeTreeChild(node, 1) /\ UNCHANGED <<info, phase, m_instructionPointer>>
    BY <1>13 DEF Mode
  <2>2. node \in DOMAIN optree
    BY <1>9, <2>1, IsTable DEF OpcodeTreeNodeType
  <2>3. ~IsNode(node, "TABLE")
    BY <2>1, <2>2 DEF IsNode, OpcodeTreeNodeType
  <2>. QED
    BY <1>11, <2>1, <2>2, <2>3 DEF HasChild
<1>14. CASE Definition
  <2>1. phase = "tree" /\ phase' \in {"failed", "operands"} /\ UNCHANGED m_instructionPointer
    BY <1>14 DEF Definition
  <2>. QED
    BY <2>1, StageIs, WorkGrows
<1>15. CASE Operand
  <2>1. phase = "operands" /\ phase' \in {"failed", "operands"} /\ UNCHANGED m_instructionPointer
    BY <1>15 DEF Operand
  <2>2. CASE phase' = "failed"
    BY <2>1, <2>2, StageIs, WorkGrows
  <2>3. CASE phase' = "operands"
    <3>1. PICK n \in Nat : /\ Len(info'.data) = Len(info.data) + n
                           /\ Len(info'.operand) = Len(info.operand) + 1
      BY <1>15, <2>3, OperandLength DEF OneOperandMore
    <3>2. Len(info.data) \in Nat /\ Len(info.operand) \in Nat
      BY <1>2, <2>1 DEF UnderWay
    <3>. DEFINE x == Len(info.data)
                y == Len(info'.data)
                l == Len(lengths)
    <3>3. Len(lengths') = l /\ x \in Nat /\ l \in Nat /\ y = x + n
      BY <3>1, <3>2
    <3>. HIDE DEF x, y, l
    <3>4. l + x < l + y \/ l + x = l + y
      BY <3>3
    <3>5. Len(info.operand) < Len(info'.operand)
      BY <3>1, <3>2
    <3>. QED
      BY <2>1, <2>3, <3>3, <3>4, <3>5, WorkGrows DEF x, y, l
  <2>. QED
    BY <2>1, <2>2, <2>3
<1>16. CASE Succeed
  <2>1. phase = "operands" /\ m_instructionPointer' = b + Len(info.data)
    BY <1>16 DEF Succeed
  <2>2. Len(info.data) \in Nat /\ Len(info.data) # 0
    <3>1. Weighed(Pair, b) /\ Len(info.data) \in Nat
      BY <1>2, <2>1 DEF UnderWay, LengthInv
    <3>. QED
      BY <3>1, PairIs DEF Weighed
  <2>3. b < m_instructionPointer'
    BY <1>1, <2>1, <2>2
  <2>. QED
    BY <2>3, WorkGrows
<1>17. CASE Fail
  <2>1. b < m_instructionPointer'
    BY <1>1, <1>17 DEF Fail
  <2>. QED
    BY <2>1, WorkGrows
<1>. QED
  BY <1>3, <1>4, <1>5, <1>7, <1>8, <1>10, <1>12, <1>13, <1>14, <1>15, <1>16, <1>17 DEF Next

(* Every step of a test, by whatever is encoded and decoded and whatever   *)
(* tables it is decoded with, gets further: the loop of TestCodegen's      *)
(* client cannot stay at a prefix, an error or a node of the tree          *)
(* (TestCodegenX86_64.cpp:46).                                             *)
THEOREM GetsFurtherCorrect == TestSpec => GetsFurther
<1>. DEFINE NothingReadYet == phase = "encoding" => info.data = << >>
<1>1. TestInit => NothingReadYet
  <2>1. NewInfo(0).data = << >>
    BY DEF NewInfo
  <2>. QED
    BY <2>1 DEF TestInit
<1>2. NothingReadYet /\ [TestNext \/ Ended]_testvars => NothingReadYet'
  <2>1. Next => phase' # "encoding"
    BY DEF Next, Call, Prefix, EndOfPrefixes, FirstOpcode, OpcodeByte, Table, ModrmReg, Mandatory,
           Mode, Definition, Operand, Succeed, Fail
  <2>. QED
    BY <2>1 DEF TestNext, EncodeOne, setDataSource, Decode, Ended, testvars, vars
<1>3. TestInv /\ [TestNext \/ Ended]_testvars => TestInv'
  BY EncodeOneOK, SetDataSourceOK, DecodeOK, TestStutter DEF TestNext, Ended
<1>4. TestInv /\ NothingReadYet /\ [TestNext \/ Ended]_testvars => [LessWork(Work, Work')]_testvars
  <2>. SUFFICES ASSUME TestInv, NothingReadYet, TestNext PROVE LessWork(Work, Work')
    BY DEF Ended
  <2>1. lengths \in Seq(Nat) /\ Len(lengths) \in Nat
    BY DEF TestInv
  <2>2. CASE EncodeOne
    <3>1. phase = "encoding" /\ UNCHANGED <<m_instructionPointer, info>>
      BY <2>2 DEF EncodeOne
    <3>2. CASE Encoded.asserted
      <4>1. UNCHANGED phase /\ lengths' = Append(lengths, Len(Encoded.bytes))
        BY <2>2, <3>2 DEF EncodeOne
      <4>2. Len(lengths') = Len(lengths) + 1
        BY <2>1, <4>1
      <4>3. Len(info.data) \in Nat
        BY <3>1
      <4>4. Len(info'.data) = Len(info.data)
        BY <3>1
      <4>. DEFINE l == Len(lengths)
                  m == Len(lengths')
                  x == Len(info.data)
                  y == Len(info'.data)
      <4>5. l \in Nat /\ m = l + 1 /\ x \in Nat /\ y = x
        BY <2>1, <4>2, <4>3, <4>4
      <4>. HIDE DEF l, m, x, y
      <4>6. l + x < m + y
        BY <4>5
      <4>. QED
        BY <3>1, <4>1, <4>6, WorkGrows DEF l, m, x, y
    <3>3. CASE ~Encoded.asserted
      <4>1. phase' = "aborted"
        BY <2>2, <3>3 DEF EncodeOne
      <4>. QED
        BY <3>1, <4>1, StageIs, WorkGrows
    <3>. QED
      BY <3>2, <3>3
  <2>3. CASE setDataSource
    BY <2>3, StageIs, WorkGrows DEF setDataSource
  <2>4. CASE Decode
    <3>1. Next /\ UNCHANGED <<program, lengths, buffer>>
      BY <2>4 DEF Decode
    <3>2. phase \notin BeforeDecoding
      BY <3>1 DEF Next, Call, Prefix, EndOfPrefixes, FirstOpcode, Table, ModrmReg, Mandatory, Mode,
                  Definition, Operand, Succeed, Fail, BeforeDecoding
    <3>. QED
      BY <2>1, <3>1, <3>2, DecodeGetsFurther DEF TestInv
  <2>. QED
    BY <2>2, <2>3, <2>4 DEF TestNext
<1>. QED
  BY <1>1, <1>2, <1>3, <1>4, TestInitOK, PTL DEF TestSpec, GetsFurther
=============================================================================
