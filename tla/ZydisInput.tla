----------------------------- MODULE ZydisInput -----------------------------
(***************************************************************************)
(* The input layer of the disassembler: BaseInput with its two sources, a  *)
(* buffer in memory and an istream, and the bytes an InstructionInfo       *)
(* collects.  A state is a pair of an input and an info; reading yields    *)
(* the next pair, and an error is a flag of the info.                      *)
(*                                                                         *)
(* An istream is good until a read or a peek finds its end, or a seek      *)
(* fails.  Positions start at 0.                                           *)
(***************************************************************************)
EXTENDS Integers, Sequences, SequencesExt

CONSTANT Sources   \* the data sources: [kind, bytes]

Byte == 0 .. 255
ASSUME SourcesAssumption ==
  \A source \in Sources : source.kind \in {"memory", "stream"} /\ source.bytes \in Seq(Byte)

VARIABLES
  input,   \* the data source, with its position and m_currentInput
  info     \* the instruction being read: its flags and its bytes

MaximumLength == 15
IF_ERROR_MASK == {"IF_ERROR_END_OF_INPUT", "IF_ERROR_LENGTH", "IF_ERROR_INVALID",
                  "IF_ERROR_INVALID_64", "IF_ERROR_OPERAND"}

(* The constructor leaves m_currentInput uninitialised, and a first peek   *)
(* that fails lets the decoder read it: any byte, here one that looks like *)
(* a REX prefix (0x48) and one that does not.                              *)
Uninitialized == {0, 72}
Open(source, garbage) ==
  [kind |-> source.kind, bytes |-> source.bytes, position |-> 0,
   current |-> garbage, eof |-> FALSE, fail |-> FALSE]

EndTooEarly(in) == in.position + 1 >= Len(in.bytes)   \* mutant: off by one
isEndOfInput(in) ==
  IF in.kind = "memory" THEN in.position >= Len(in.bytes) ELSE in.eof \/ in.fail

(* peek() and get() at the end of a stream return EOF, cast to a byte.     *)
AtEnd(in) == in.position >= Len(in.bytes)

(* mutant: the header's comment, which has peek and next the wrong way round *)
PeekAdvances(in) ==
  IF AtEnd(in) THEN [in EXCEPT !.current = 255, !.eof = TRUE]
  ELSE [in EXCEPT !.current = in.bytes[in.position + 1], !.position = @ + 1]

internalInputPeek(in) ==
  IF AtEnd(in) THEN [in EXCEPT !.current = 255, !.eof = TRUE]
  ELSE [in EXCEPT !.current = in.bytes[in.position + 1]]

internalInputNext(in) ==
  IF AtEnd(in) THEN [in EXCEPT !.current = 255, !.eof = TRUE, !.fail = TRUE]
  ELSE [in EXCEPT !.current = in.bytes[in.position + 1], !.position = @ + 1]

(* getPosition: tellg fails on a stream that is not good and returns -1.   *)
getPosition(in) == IF in.fail \/ in.eof THEN -1 ELSE in.position
AfterGetPosition(in) == [in EXCEPT !.fail = @ \/ in.eof]

(* setPosition: seekg forgets that the end was found, not that a read      *)
(* failed, and fails beyond the end.  It returns isEndOfInput().           *)
PositionFromOne(in, position) == [in EXCEPT !.position = position - 1]   \* mutant

setPosition(in, position) ==
  IF in.kind = "memory" THEN [in EXCEPT !.position = position]
  ELSE IF in.fail THEN [in EXCEPT !.eof = FALSE]
  ELSE IF position \notin 0 .. Len(in.bytes) THEN [in EXCEPT !.eof = FALSE, !.fail = TRUE]
  ELSE [in EXCEPT !.eof = FALSE, !.position = position]
-----------------------------------------------------------------------------
Raise(s, flag) == [s EXCEPT !.info.flags = @ \cup {flag}]
Failed(s)      == s.info.flags \cap IF_ERROR_MASK # {}

CanReadOneMore(s) == Len(s.info.data) <= MaximumLength    \* mutant: off by one
CanRead(s)        == Len(s.info.data) # MaximumLength

PeekBehind(s) ==   \* mutant: the end is looked for one byte too far
  IF s.input.position + 1 >= Len(s.input.bytes) THEN Raise(s, "IF_ERROR_END_OF_INPUT")
  ELSE [s EXCEPT !.input = internalInputPeek(@)]

inputPeek(s) ==
  IF ~CanRead(s) THEN Raise(s, "IF_ERROR_LENGTH")
  ELSE IF isEndOfInput(s.input) THEN Raise(s, "IF_ERROR_END_OF_INPUT")
  ELSE [s EXCEPT !.input = internalInputPeek(@)]

Take(s, in) == [s EXCEPT !.input = in, !.info.data = Append(@, in.current)]

inputNext(s) ==
  IF ~CanRead(s) THEN Raise(s, "IF_ERROR_LENGTH")
  ELSE IF isEndOfInput(s.input) THEN Raise(s, "IF_ERROR_END_OF_INPUT")
  ELSE Take(s, internalInputNext(s.input))

(* inputNext<T> for an integer of one, two, four or eight bytes, given up   *)
(* at the first error.                                                     *)
Again(s) == IF Failed(s) THEN s ELSE inputNext(s)
NextTwo(s)  == Again(inputNext(s))
NextFour(s) == Again(Again(NextTwo(s)))

inputNextBytes(s, n) ==
  CASE n = 1 -> inputNext(s)
    [] n = 2 -> NextTwo(s)
    [] n = 4 -> NextFour(s)
    [] OTHER -> Again(Again(Again(Again(NextFour(s)))))

inputCurrent(s) == s.input.current
=============================================================================
