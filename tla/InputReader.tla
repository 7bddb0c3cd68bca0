---------------------------- MODULE InputReader ----------------------------
(***************************************************************************)
(* Any reader of a data source: instruction after instruction it peeks and *)
(* reads in any order, goes on after an error as the prefix loop of the    *)
(* decoder does, and may move the position between two instructions.       *)
(***************************************************************************)
EXTENDS ZydisInput

VARIABLES
  begin       \* where the instruction being read begins

vars == <<input, info, begin>>

Pair     == [input |-> input, info |-> info]
Becomes(s) == input' = s.input /\ info' = s.info

NewInfo == [flags |-> {}, data |-> << >>]

Init ==
  /\ \E source \in Sources, garbage \in Uninitialized : input = Open(source, garbage)
  /\ info = NewInfo
  /\ begin = 0

BeginInstruction ==
  /\ info' = NewInfo
  /\ begin' = input.position
  /\ UNCHANGED input

Peek == Becomes(inputPeek(Pair)) /\ UNCHANGED begin

Read(n) == Becomes(inputNextBytes(Pair, n)) /\ UNCHANGED begin

SetPosition(position) ==
  /\ input' = setPosition(input, position)
  /\ info' = NewInfo
  /\ begin' = input'.position

Next ==
  \/ BeginInstruction \/ Peek
  \/ \E n \in {1, 2, 4, 8} : Read(n)
  \/ \E position \in 0 .. Len(input.bytes) + 1 : SetPosition(position)

Spec == Init /\ [][Next]_vars
-----------------------------------------------------------------------------
TypeOK ==
  /\ \E source \in Sources : input.kind = source.kind /\ input.bytes = source.bytes
  /\ input.position \in Nat /\ input.current \in Byte
  /\ info.data \in Seq(Byte) /\ Len(info.data) <= MaximumLength
  /\ info.flags \subseteq IF_ERROR_MASK
  /\ begin \in Nat

(* What a reader can get out of a source: a memory's bytes, and a stream's *)
(* with one more, the 0xFF that get() returns when it finds the end.       *)
Contents == IF input.kind = "memory" THEN input.bytes ELSE Append(input.bytes, 255)

(* An instruction holds the bytes the source has from where it began, in   *)
(* order, none twice and none left out, whatever was peeked, and the       *)
(* position is behind the last of them.                                    *)
DataIsInput ==
  /\ info.data # << >> =>
       /\ begin + Len(info.data) <= Len(Contents)
       /\ info.data = SubSeq(Contents, begin + 1, begin + Len(info.data))
  /\ input.position = IF input.kind = "stream" /\ begin + Len(info.data) > Len(input.bytes)
                      THEN Len(input.bytes) ELSE begin + Len(info.data)

(* An error says what it means: the source has no more bytes or is a      *)
(* stream that failed, or the instruction has no more room.                *)
ErrorsAreReal ==
  /\ "IF_ERROR_END_OF_INPUT" \in info.flags =>
       input.position >= Len(input.bytes) \/ input.fail
  /\ "IF_ERROR_LENGTH" \in info.flags => Len(info.data) = MaximumLength

(* Once an instruction ran into an error it takes no more bytes: reading   *)
(* on, as the prefix loop does after a failed peek, changes nothing.       *)
NoByteAfterError ==
  [][info.flags # {} /\ info'.flags # {} => info'.data = info.data]_vars
=============================================================================
