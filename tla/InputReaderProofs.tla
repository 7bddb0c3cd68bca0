-------------------------- MODULE InputReaderProofs --------------------------
(***************************************************************************)
(* What is proved of the disassembler's input layer for every set of data  *)
(* sources: an instruction holds the bytes of its source, and errors mean  *)
(* what they say.                                                          *)
(***************************************************************************)
EXTENDS InputReader, TLAPS, SequenceTheorems

Inputs == [kind : {"memory", "stream"}, bytes : Seq(Byte), position : Nat, current : Byte,
           eof : BOOLEAN, fail : BOOLEAN]
Infos  == [flags : SUBSET IF_ERROR_MASK, data : Seq(Byte)]
Pairs  == [input : Inputs, info : Infos]

(* What a reader can get out of a source, wherever it stands.              *)
ContentsOf(in) == IF in.kind = "memory" THEN in.bytes ELSE Append(in.bytes, 255)

(***************************************************************************)
(* A source between two reads: a stream stands on its bytes or behind the  *)
(* last, and only there has it found its end; a memory has no such state.  *)
(***************************************************************************)
InputOK(in) ==
  /\ in \in Inputs
  /\ \E source \in Sources : in.kind = source.kind /\ in.bytes = source.bytes
  /\ in.kind = "stream" => in.position <= Len(in.bytes)
  /\ in.kind = "stream" /\ in.eof => in.position >= Len(in.bytes)
  /\ in.kind = "memory" => ~in.eof /\ ~in.fail

(* An instruction that begins at b: its bytes are those of the source, and *)
(* one that ran into an error can take no more.                            *)
InfoOK(in, i, b) ==
  /\ i \in Infos /\ b \in Nat
  /\ Len(i.data) <= MaximumLength
  /\ \A k \in 1 .. Len(i.data) :
       b + k <= Len(ContentsOf(in)) /\ i.data[k] = ContentsOf(in)[b + k]
  /\ in.kind = "memory" => in.position = b + Len(i.data)
  /\ in.kind = "stream" =>
       \/ in.position = b + Len(i.data)
       \/ in.fail /\ in.position = Len(in.bytes) /\ b + Len(i.data) = Len(in.bytes) + 1
  /\ i.flags \subseteq {"IF_ERROR_END_OF_INPUT", "IF_ERROR_LENGTH"}
  /\ "IF_ERROR_END_OF_INPUT" \in i.flags => isEndOfInput(in) /\ Len(i.data) # MaximumLength
  /\ "IF_ERROR_LENGTH" \in i.flags => Len(i.data) = MaximumLength

PairOK(s, b) == s \in Pairs /\ InputOK(s.input) /\ InfoOK(s.input, s.info, b)

LEMMA PairFields ==
  ASSUME NEW s, NEW b, PairOK(s, b)
  PROVE  /\ s = [input |-> s.input, info |-> s.info]
         /\ s.input \in Inputs /\ s.info \in Infos
         /\ s.input.kind \in {"memory", "stream"} /\ s.input.bytes \in Seq(Byte)
         /\ s.input.position \in Nat /\ s.input.current \in Byte
         /\ s.input.eof \in BOOLEAN /\ s.input.fail \in BOOLEAN
         /\ s.info.flags \subseteq IF_ERROR_MASK /\ s.info.data \in Seq(Byte)
         /\ Len(s.input.bytes) \in Nat /\ Len(s.info.data) \in Nat /\ b \in Nat
<1>1. s.input \in Inputs /\ s.info \in Infos /\ s = [input |-> s.input, info |-> s.info] /\ b \in Nat
  BY DEF PairOK, Pairs, InfoOK
<1>2. /\ s.input.kind \in {"memory", "stream"} /\ s.input.bytes \in Seq(Byte)
      /\ s.input.position \in Nat /\ s.input.current \in Byte
      /\ s.input.eof \in BOOLEAN /\ s.input.fail \in BOOLEAN
  BY <1>1 DEF Inputs
<1>3. s.info.flags \subseteq IF_ERROR_MASK /\ s.info.data \in Seq(Byte)
  BY <1>1 DEF Infos
<1>4. Len(s.input.bytes) \in Nat /\ Len(s.info.data) \in Nat
  <2>. HIDE DEF Byte
  <2>. QED
    BY <1>2, <1>3
<1>. QED
  BY <1>1, <1>2, <1>3, <1>4

(* What the ways of going on make of a pair, field by field.               *)
PairOf(in, f, d) == [input |-> in, info |-> [flags |-> f, data |-> d]]

LEMMA RaiseIs ==
  ASSUME NEW in, NEW f, NEW d, NEW flag
  PROVE  Raise(PairOf(in, f, d), flag) = PairOf(in, f \cup {flag}, d)
<1>. DEFINE e == f \cup {flag}
            s == PairOf(in, f, d)
<1>1. s.info = [flags |-> f, data |-> d] /\ s.info.flags = f
  BY DEF PairOf
<1>2. Raise(s, flag) = [s EXCEPT !.info = [s.info EXCEPT !.flags = e]]
  BY <1>1 DEF Raise, PairOf
<1>. HIDE DEF e
<1>3. [s.info EXCEPT !.flags = e] = [flags |-> e, data |-> d]
  BY <1>1
<1>4. ASSUME NEW i PROVE [s EXCEPT !.info = i] = [input |-> in, info |-> i]
  BY DEF PairOf
<1>. QED
  BY <1>2, <1>3, <1>4 DEF PairOf, e

LEMMA InputReplaced ==
  ASSUME NEW in, NEW f, NEW d, NEW new
  PROVE  [PairOf(in, f, d) EXCEPT !.input = new] = PairOf(new, f, d)
BY DEF PairOf

LEMMA TakeIs ==
  ASSUME NEW in, NEW f, NEW d, NEW new
  PROVE  Take(PairOf(in, f, d), new) = PairOf(new, f, Append(d, new.current))
<1>. DEFINE longer == Append(d, new.current)
            s == PairOf(in, f, d)
            t == [input |-> new, info |-> s.info]
<1>1. s.info = [flags |-> f, data |-> d] /\ s.info.data = d
  BY DEF PairOf
<1>2. Take(s, new) = [s EXCEPT !.input = new, !.info.data = longer]
  BY <1>1 DEF Take
<1>. HIDE DEF longer
<1>3. [s EXCEPT !.input = new] = t
  BY <1>1 DEF PairOf
<1>4. [s EXCEPT !.input = new, !.info.data = longer] = [t EXCEPT !.info = [t.info EXCEPT !.data = longer]]
  BY <1>3 DEF PairOf
<1>5. [t.info EXCEPT !.data = longer] = [flags |-> f, data |-> longer]
  BY <1>1
<1>6. ASSUME NEW i PROVE [t EXCEPT !.info = i] = [input |-> new, info |-> i]
  OBVIOUS
<1>. QED
  BY <1>2, <1>4, <1>5, <1>6 DEF longer, PairOf

LEMMA PairAgain ==
  ASSUME NEW s, NEW b, PairOK(s, b)
  PROVE  s = PairOf(s.input, s.info.flags, s.info.data)
<1>1. s.info = [flags |-> s.info.flags, data |-> s.info.data]
  BY PairFields DEF Infos
<1>. QED
  BY <1>1, PairFields, Zenon DEF PairOf

(* Raising an error whose condition holds.                                 *)
LEMMA RaiseOK ==
  ASSUME NEW s, NEW b, PairOK(s, b), NEW flag,
         \/ flag = "IF_ERROR_END_OF_INPUT" /\ isEndOfInput(s.input) /\ CanRead(s)
         \/ flag = "IF_ERROR_LENGTH" /\ Len(s.info.data) = MaximumLength
  PROVE  /\ PairOK(Raise(s, flag), b)
         /\ Raise(s, flag).info.data = s.info.data
         /\ Raise(s, flag).info.flags # {}
         /\ Raise(s, flag).input = s.input
<1>. DEFINE t == Raise(s, flag)
            i == [flags |-> s.info.flags \cup {flag}, data |-> s.info.data]
<1>2. t = [input |-> s.input, info |-> i]
  <2>1. t = PairOf(s.input, s.info.flags \cup {flag}, s.info.data)
    BY PairAgain, RaiseIs
  <2>. QED
    BY <2>1 DEF PairOf
<1>. HIDE DEF t
<1>3. t.input = s.input /\ t.info = i /\ i.data = s.info.data /\ i.flags = s.info.flags \cup {flag}
  BY <1>2
<1>. HIDE DEF i
<1>4. i \in Infos
  BY PairFields DEF i, Infos, IF_ERROR_MASK
<1>5. InfoOK(t.input, t.info, b)
  BY <1>3, <1>4 DEF PairOK, InfoOK, CanRead
<1>6. t \in Pairs /\ InputOK(t.input)
  BY <1>2, <1>3, <1>4, PairFields DEF PairOK, Pairs
<1>. QED
  BY <1>3, <1>5, <1>6 DEF PairOK, t
-----------------------------------------------------------------------------
(* The same source at another place.                                       *)
LEMMA SameSource ==
  ASSUME NEW in, InputOK(in), NEW new \in Inputs, new.kind = in.kind, new.bytes = in.bytes,
         new.kind = "stream" => new.position <= Len(new.bytes),
         new.kind = "stream" /\ new.eof => new.position >= Len(new.bytes),
         new.kind = "memory" => ~new.eof /\ ~new.fail
  PROVE  InputOK(new)
<1>1. PICK source \in Sources : in.kind = source.kind /\ in.bytes = source.bytes
  BY DEF InputOK
<1>. QED
  BY <1>1 DEF InputOK

(***************************************************************************)
(* One byte.  Where the source is not at its end, peek leaves the position *)
(* alone, and next moves it unless it finds the end of a stream.           *)
(***************************************************************************)
LEMMA ByteRead ==
  ASSUME NEW in, InputOK(in), ~isEndOfInput(in)
  PROVE  LET peeked == internalInputPeek(in)
             next   == internalInputNext(in)
         IN  /\ InputOK(peeked) /\ InputOK(next)
             /\ peeked.kind = in.kind /\ peeked.bytes = in.bytes
             /\ peeked.position = in.position /\ peeked.fail = in.fail
             /\ next.kind = in.kind /\ next.bytes = in.bytes
             /\ in.position + 1 <= Len(ContentsOf(in))
             /\ next.current = ContentsOf(in)[in.position + 1]
             /\ IF AtEnd(in) THEN /\ in.kind = "stream" /\ next.fail
                                  /\ next.position = in.position
                                  /\ in.position = Len(in.bytes)
                ELSE next.position = in.position + 1
<1>. DEFINE at == in.bytes[in.position + 1]
<1>1. /\ in \in Inputs /\ in.kind \in {"memory", "stream"} /\ in.bytes \in Seq(Byte)
      /\ in.position \in Nat /\ in.eof \in BOOLEAN /\ in.fail \in BOOLEAN /\ in.current \in Byte
      /\ in.kind = "stream" => in.position <= Len(in.bytes)
      /\ \E source \in Sources : in.kind = source.kind /\ in.bytes = source.bytes
  BY DEF InputOK, Inputs
<1>2. Len(in.bytes) \in Nat
  <2>. HIDE DEF Byte
  <2>. QED
    BY <1>1
<1>3. 255 \in Byte
  BY DEF Byte
<1>4. CASE AtEnd(in)
  <2>1. in.kind = "stream" /\ in.position = Len(in.bytes)
    BY <1>1, <1>2, <1>4 DEF isEndOfInput, AtEnd
  <2>2. /\ internalInputPeek(in) = [in EXCEPT !.current = 255, !.eof = TRUE]
        /\ internalInputNext(in) = [in EXCEPT !.current = 255, !.eof = TRUE, !.fail = TRUE]
    BY <1>4 DEF internalInputPeek, internalInputNext
  <2>. DEFINE peeked == [in EXCEPT !.current = 255, !.eof = TRUE]
              next   == [in EXCEPT !.current = 255, !.eof = TRUE, !.fail = TRUE]
  <2>3. /\ peeked \in Inputs /\ peeked.kind = in.kind /\ peeked.bytes = in.bytes
        /\ peeked.position = in.position /\ peeked.fail = in.fail
    <3>. HIDE DEF Byte, at
    <3>. DEFINE seen == [in EXCEPT !.current = 255]
    <3>1. /\ seen \in Inputs /\ seen.kind = in.kind /\ seen.bytes = in.bytes
          /\ seen.position = in.position /\ seen.fail = in.fail
      BY <1>1, <1>3 DEF Inputs
    <3>2. peeked = [seen EXCEPT !.eof = TRUE]
      BY <1>1 DEF Inputs
    <3>. HIDE DEF peeked, next, seen
    <3>. QED
      BY <3>1, <3>2 DEF Inputs
  <2>4. /\ next \in Inputs /\ next.kind = in.kind /\ next.bytes = in.bytes
        /\ next.position = in.position /\ next.fail /\ next.current = 255
    <3>. HIDE DEF Byte, at
    <3>1. next = [peeked EXCEPT !.fail = TRUE] /\ next.current = 255
      BY <1>1 DEF Inputs
    <3>. HIDE DEF peeked, next
    <3>. QED
      BY <2>3, <3>1 DEF Inputs
  <2>. HIDE DEF at, peeked, next
  <2>5. ContentsOf(in) = Append(in.bytes, 255)
    BY <2>1 DEF ContentsOf
  <2>6. in.position + 1 <= Len(ContentsOf(in)) /\ ContentsOf(in)[in.position + 1] = 255
    <3>. HIDE DEF Byte
    <3>. QED
      BY <1>1, <1>2, <1>3, <2>1, <2>5
  <2>7. in.position <= Len(in.bytes) /\ in.position >= Len(in.bytes)
    BY <1>2, <2>1
  <2>8. InputOK(peeked)
    BY <2>1, <2>3, <2>7, SameSource
  <2>9. InputOK(next)
    BY <2>1, <2>4, <2>7, SameSource
  <2>10. internalInputPeek(in) = peeked /\ internalInputNext(in) = next
    BY <2>2 DEF peeked, next
  <2>. QED
    BY <1>4, <2>1, <2>3, <2>4, <2>6, <2>8, <2>9, <2>10
<1>5. CASE ~AtEnd(in)
  <2>1. in.position + 1 \in 1 .. Len(in.bytes)
    BY <1>1, <1>2, <1>5 DEF AtEnd
  <2>2. at \in Byte
    <3>. HIDE DEF Byte
    <3>. QED
      BY <1>1, <2>1
  <2>. HIDE DEF at
  <2>3. /\ internalInputPeek(in) = [in EXCEPT !.current = at]
        /\ internalInputNext(in) = [in EXCEPT !.current = at, !.position = in.position + 1]
    BY <1>5 DEF internalInputPeek, internalInputNext, at
  <2>4. LET peeked == internalInputPeek(in)
        IN  /\ peeked \in Inputs /\ peeked.kind = in.kind /\ peeked.bytes = in.bytes
            /\ peeked.position = in.position /\ peeked.fail = in.fail /\ peeked.eof = in.eof
    BY <1>1, <2>2, <2>3 DEF Inputs
  <2>5. LET next == internalInputNext(in)
        IN  /\ next \in Inputs /\ next.kind = in.kind /\ next.bytes = in.bytes
            /\ next.position = in.position + 1 /\ next.fail = in.fail /\ next.eof = in.eof
            /\ next.current = at
    <3>. DEFINE behind == in.position + 1
    <3>1. behind \in Nat
      BY <1>1
    <3>. HIDE DEF behind
    <3>2. internalInputNext(in) = [in EXCEPT !.current = at, !.position = behind]
      BY <2>3 DEF behind
    <3>3. LET next == internalInputNext(in)
          IN  /\ next \in Inputs /\ next.kind = in.kind /\ next.bytes = in.bytes
              /\ next.position = behind /\ next.fail = in.fail /\ next.eof = in.eof
              /\ next.current = at
      BY <1>1, <2>2, <3>1, <3>2 DEF Inputs
    <3>. QED
      BY <3>3 DEF behind
  <2>6. in.position + 1 <= Len(ContentsOf(in)) /\ ContentsOf(in)[in.position + 1] = at
    <3>1. CASE in.kind = "memory"
      BY <2>1, <3>1 DEF ContentsOf, at
    <3>2. CASE in.kind # "memory"
      <4>1. ContentsOf(in) = Append(in.bytes, 255)
        BY <3>2 DEF ContentsOf
      <4>2. /\ Len(ContentsOf(in)) = Len(in.bytes) + 1
            /\ \A k \in 1 .. Len(in.bytes) : ContentsOf(in)[k] = in.bytes[k]
        <5>. HIDE DEF Byte
        <5>. QED
          BY <1>1, <1>2, <1>3, <4>1
      <4>. QED
        BY <1>2, <2>1, <4>2 DEF at
    <3>. QED
      BY <3>1, <3>2
  <2>7. ~in.eof \/ in.kind = "memory"
    BY <1>1 DEF isEndOfInput
  <2>8. InputOK(internalInputPeek(in))
    BY <1>1, <2>4, <2>7 DEF InputOK
  <2>9. InputOK(internalInputNext(in))
    BY <1>1, <1>2, <2>1, <2>5, <2>7 DEF InputOK
  <2>. QED
    BY <1>5, <2>4, <2>5, <2>6, <2>8, <2>9
<1>. QED
  BY <1>4, <1>5

(* With room and bytes left no error has been met.                         *)
LEMMA NoError ==
  ASSUME NEW s, NEW b, PairOK(s, b), CanRead(s), ~isEndOfInput(s.input)
  PROVE  s.info.flags = {} /\ Len(s.info.data) < MaximumLength
         /\ s.input.position = b + Len(s.info.data)
<1>1. Len(s.info.data) <= MaximumLength /\ Len(s.info.data) # MaximumLength
  BY DEF PairOK, InfoOK, CanRead
<1>2. s.info.flags = {}
  BY <1>1 DEF PairOK, InfoOK
<1>3. s.input.position = b + Len(s.info.data)
  BY PairFields DEF PairOK, InfoOK, isEndOfInput
<1>4. Len(s.info.data) \in Nat
  BY PairFields
<1>5. Len(s.info.data) < MaximumLength
  <2>. DEFINE l == Len(s.info.data)
  <2>1. l \in Nat /\ l <= 15 /\ l # 15
    BY <1>1, <1>4 DEF MaximumLength
  <2>. HIDE DEF l
  <2>2. l < 15
    BY <2>1
  <2>. QED
    BY <2>2 DEF l, MaximumLength
<1>. QED
  BY <1>2, <1>3, <1>5

(* From one pair to a later one of the same instruction: of the same       *)
(* source, with no byte given back, and none taken after an error.         *)
Goes(s, t, b) ==
  /\ PairOK(t, b)
  /\ t.input.kind = s.input.kind /\ t.input.bytes = s.input.bytes
  /\ s.info.flags # {} => t.info.data = s.info.data /\ t.info.flags # {}
  /\ s.info.data # << >> => t.info.data # << >>

LEMMA PeekOK ==
  ASSUME NEW s, NEW b, PairOK(s, b)
  PROVE  Goes(s, inputPeek(s), b) /\ inputPeek(s).info.data = s.info.data
<1>1. CASE ~CanRead(s)
  BY <1>1, RaiseOK DEF inputPeek, CanRead, Goes
<1>2. CASE CanRead(s) /\ isEndOfInput(s.input)
  BY <1>2, RaiseOK DEF inputPeek, Goes
<1>3. CASE CanRead(s) /\ ~isEndOfInput(s.input)
  <2>. DEFINE new == internalInputPeek(s.input)
              t == inputPeek(s)
  <2>1. t = PairOf(new, s.info.flags, s.info.data)
    <3>1. t = [s EXCEPT !.input = new]
      BY <1>3 DEF inputPeek
    <3>. QED
      BY <3>1, PairAgain, InputReplaced
  <2>2. /\ InputOK(new) /\ new.kind = s.input.kind /\ new.bytes = s.input.bytes
        /\ new.position = s.input.position /\ new.fail = s.input.fail
    BY <1>3, ByteRead DEF PairOK
  <2>. HIDE DEF new, t
  <2>3. t.input = new /\ t.info = s.info
    BY <2>1, PairFields DEF PairOf, Infos
  <2>4. t \in Pairs
    <3>1. new \in Inputs /\ s.info \in Infos
      BY <2>2, PairFields DEF InputOK
    <3>2. t = [input |-> new, info |-> s.info]
      BY <2>1, <2>3 DEF PairOf
    <3>. QED
      BY <3>1, <3>2 DEF Pairs
  <2>5. InfoOK(new, s.info, b)
    <3>1. ContentsOf(new) = ContentsOf(s.input)
      BY <2>2 DEF ContentsOf
    <3>2. s.info.flags = {}
      BY <1>3, NoError
    <3>. QED
      BY <2>2, <3>1, <3>2 DEF PairOK, InfoOK
  <2>. QED
    BY <2>2, <2>3, <2>4, <2>5 DEF PairOK, Goes, t
<1>. QED
  BY <1>1, <1>2, <1>3

LEMMA NextOK ==
  ASSUME NEW s, NEW b, PairOK(s, b)
  PROVE  /\ Goes(s, inputNext(s), b)
         /\ inputNext(s).info.flags = {} => inputNext(s).info.data # << >>
<1>1. CASE ~CanRead(s)
  BY <1>1, RaiseOK DEF inputNext, CanRead, Goes
<1>2. CASE CanRead(s) /\ isEndOfInput(s.input)
  BY <1>2, RaiseOK DEF inputNext, Goes
<1>3. CASE CanRead(s) /\ ~isEndOfInput(s.input)
  <2>. DEFINE in == s.input
              new == internalInputNext(s.input)
              d == Append(s.info.data, new.current)
              t == inputNext(s)
  <2>1. t = PairOf(new, s.info.flags, d)
    <3>1. t = Take(s, new)
      BY <1>3 DEF inputNext
    <3>. QED
      BY <3>1, PairAgain, TakeIs
  <2>2. /\ InputOK(new) /\ new.kind = in.kind /\ new.bytes = in.bytes
        /\ in.position + 1 <= Len(ContentsOf(in))
        /\ new.current = ContentsOf(in)[in.position + 1]
        /\ IF AtEnd(in) THEN /\ in.kind = "stream" /\ new.fail
                             /\ new.position = in.position
                             /\ in.position = Len(in.bytes)
           ELSE new.position = in.position + 1
    BY <1>3, ByteRead DEF PairOK
  <2>3. new \in Inputs /\ new.current \in Byte
    BY <2>2 DEF InputOK, Inputs
  <2>4. /\ d \in Seq(Byte) /\ Len(d) = Len(s.info.data) + 1
        /\ \A k \in 1 .. Len(s.info.data) : d[k] = s.info.data[k]
        /\ d[Len(s.info.data) + 1] = new.current
    <3>1. s.info.data \in Seq(Byte)
      BY PairFields
    <3>. HIDE DEF Byte, new
    <3>. QED
      BY <2>3, <3>1
  <2>. HIDE DEF new, d, t
  <2>. DEFINE i == [flags |-> s.info.flags, data |-> d]
  <2>5. t.input = new /\ t.info = i /\ t = [input |-> new, info |-> i]
    BY <2>1 DEF PairOf
  <2>6. i \in Infos
    BY <2>4, PairFields DEF Infos
  <2>7. s.info.flags = {} /\ Len(s.info.data) < MaximumLength
        /\ in.position = b + Len(s.info.data)
    BY <1>3, NoError
  <2>8. InfoOK(new, i, b)
    <3>1. ContentsOf(new) = ContentsOf(in)
      BY <2>2 DEF ContentsOf
    <3>2. ASSUME NEW k \in 1 .. Len(d)
          PROVE  b + k <= Len(ContentsOf(in)) /\ d[k] = ContentsOf(in)[b + k]
      <4>1. k \in 1 .. Len(s.info.data) \/ k = Len(s.info.data) + 1
        BY <2>4, PairFields
      <4>2. CASE k \in 1 .. Len(s.info.data)
        BY <2>4, <4>2 DEF PairOK, InfoOK
      <4>3. CASE k = Len(s.info.data) + 1
        <5>1. b + k = in.position + 1
          BY <2>7, <4>3, PairFields
        <5>. QED
          BY <2>2, <2>4, <4>3, <5>1
      <4>. QED
        BY <4>1, <4>2, <4>3
    <3>3. i.flags = {} /\ i.data = d
      BY <2>7
    <3>4. Len(d) <= MaximumLength
      BY <2>4, <2>7, PairFields DEF MaximumLength
    <3>5. /\ new.kind = "memory" => new.position = b + Len(d)
          /\ new.kind = "stream" =>
               \/ new.position = b + Len(d)
               \/ new.fail /\ new.position = Len(new.bytes) /\ b + Len(d) = Len(new.bytes) + 1
      <4>1. b + Len(d) = in.position + 1
        BY <2>4, <2>7, PairFields
      <4>2. CASE AtEnd(in)
        <5>1. /\ new.kind = "stream" /\ new.fail /\ new.position = Len(new.bytes)
              /\ in.position = Len(new.bytes)
          BY <2>2, <4>2
        <5>2. b + Len(d) = Len(new.bytes) + 1
          BY <4>1, <5>1
        <5>. QED
          BY <5>1, <5>2
      <4>3. CASE ~AtEnd(in)
        BY <2>2, <4>1, <4>3
      <4>. QED
        BY <4>2, <4>3
    <3>6. b \in Nat
      BY PairFields
    <3>. HIDE DEF i
    <3>. QED
      BY <2>6, <3>1, <3>2, <3>3, <3>4, <3>5, <3>6 DEF InfoOK
  <2>9. t \in Pairs
    BY <2>3, <2>5, <2>6 DEF Pairs
  <2>10. PairOK(t, b)
    BY <2>2, <2>5, <2>8, <2>9 DEF PairOK
  <2>11. t.info.data # << >>
    <3>1. Len(d) # 0 /\ t.info.data = d
      BY <2>4, <2>5, PairFields
    <3>. QED
      BY <3>1
  <2>12. s.info.flags = {} /\ t.input = new
    BY <2>5, <2>7
  <2>. QED
    BY <2>2, <2>10, <2>11, <2>12 DEF Goes, t
<1>. QED
  BY <1>1, <1>2, <1>3

LEMMA AgainGoes ==
  ASSUME NEW s, NEW t, NEW b, Goes(s, t, b)
  PROVE  Goes(s, Again(t), b)
<1>1. CASE Failed(t)
  BY <1>1 DEF Again, Goes
<1>2. CASE ~Failed(t)
  <2>1. Goes(t, inputNext(t), b) /\ Again(t) = inputNext(t)
    BY <1>2, NextOK DEF Again, Goes
  <2>. QED
    BY <2>1 DEF Goes
<1>. QED
  BY <1>1, <1>2

(* An integer: none of its bytes breaks this, and after an error none is   *)
(* taken.                                                                  *)
LEMMA ReadGoes ==
  ASSUME NEW s, NEW b, PairOK(s, b), NEW n
  PROVE  Goes(s, inputNextBytes(s, n), b)
<1>1. Goes(s, inputNext(s), b)
  BY NextOK
<1>2. Goes(s, NextTwo(s), b)
  BY <1>1, AgainGoes DEF NextTwo
<1>3. Goes(s, NextFour(s), b)
  <2>1. Goes(s, Again(NextTwo(s)), b)
    BY <1>2, AgainGoes
  <2>. QED
    BY <2>1, AgainGoes DEF NextFour
<1>4. Goes(s, Again(Again(Again(Again(NextFour(s))))), b)
  <2>1. Goes(s, Again(NextFour(s)), b)
    BY <1>3, AgainGoes
  <2>2. Goes(s, Again(Again(NextFour(s))), b)
    BY <2>1, AgainGoes
  <2>3. Goes(s, Again(Again(Again(NextFour(s)))), b)
    BY <2>2, AgainGoes
  <2>. QED
    BY <2>3, AgainGoes
<1>. QED
  BY <1>1, <1>2, <1>3, <1>4 DEF inputNextBytes
-----------------------------------------------------------------------------
(***************************************************************************)
(* The inductive invariant of a reader.  DataIsInput alone is not one: it  *)
(* says nothing of where a stream stands once its end was found, and then  *)
(* a next read could take a byte twice.                                    *)
(***************************************************************************)
ReaderInv == PairOK(Pair, begin)

(* An instruction that begins where the source stands has no bytes yet.    *)
LEMMA NewInfoOK ==
  ASSUME NEW in, InputOK(in)
  PROVE  PairOK([input |-> in, info |-> NewInfo], in.position)
<1>1. in \in Inputs /\ in.position \in Nat /\ in.kind \in {"memory", "stream"}
  BY DEF InputOK, Inputs
<1>2. NewInfo.flags = {} /\ NewInfo.data = << >> /\ Len(NewInfo.data) = 0
  BY DEF NewInfo
<1>3. NewInfo \in Infos
  <2>1. << >> \in Seq(Byte)
    OBVIOUS
  <2>. QED
    BY <2>1 DEF NewInfo, Infos
<1>4. InfoOK(in, NewInfo, in.position)
  <2>. HIDE DEF NewInfo
  <2>1. in.position = in.position + Len(NewInfo.data)
    BY <1>1, <1>2
  <2>2. Len(NewInfo.data) <= MaximumLength /\ 1 .. Len(NewInfo.data) = {}
    BY <1>2 DEF MaximumLength
  <2>. QED
    BY <1>1, <1>2, <1>3, <2>1, <2>2 DEF InfoOK
<1>. QED
  BY <1>1, <1>3, <1>4 DEF PairOK, Pairs

(* Wherever a stream is asked to go, it stands on its bytes or behind the  *)
(* last, and has forgotten that its end was found.                         *)
LEMMA SetPositionOK ==
  ASSUME NEW in, InputOK(in), NEW position \in Nat
  PROVE  InputOK(setPosition(in, position))
<1>. DEFINE new == setPosition(in, position)
<1>1. /\ in \in Inputs /\ in.kind \in {"memory", "stream"} /\ in.position \in Nat
      /\ in.bytes \in Seq(Byte)
      /\ \E source \in Sources : in.kind = source.kind /\ in.bytes = source.bytes
  BY DEF InputOK, Inputs
<1>2. CASE in.kind = "memory"
  <2>1. new = [in EXCEPT !.position = position]
    BY <1>2 DEF setPosition
  <2>2. /\ new \in Inputs /\ new.kind = in.kind /\ new.bytes = in.bytes
        /\ new.eof = in.eof /\ new.fail = in.fail
    BY <1>1, <2>1 DEF Inputs
  <2>3. ~in.eof /\ ~in.fail
    BY <1>2 DEF InputOK
  <2>. HIDE DEF new
  <2>4. InputOK(new)
    BY <1>2, <2>2, <2>3, SameSource
  <2>. QED
    BY <2>4 DEF new
<1>3. CASE in.kind # "memory" /\ in.fail
  <2>1. new = [in EXCEPT !.eof = FALSE]
    BY <1>3 DEF setPosition
  <2>2. /\ new \in Inputs /\ new.kind = in.kind /\ new.bytes = in.bytes /\ ~new.eof
        /\ new.position = in.position
    BY <1>1, <2>1 DEF Inputs
  <2>3. in.kind # "memory" /\ in.position <= Len(in.bytes)
    BY <1>1, <1>3 DEF InputOK
  <2>. HIDE DEF new
  <2>4. InputOK(new)
    BY <2>2, <2>3, SameSource
  <2>. QED
    BY <2>4 DEF new
<1>4. CASE in.kind # "memory" /\ ~in.fail /\ position \notin 0 .. Len(in.bytes)
  <2>1. new = [in EXCEPT !.eof = FALSE, !.fail = TRUE]
    BY <1>4 DEF setPosition
  <2>2. /\ new \in Inputs /\ new.kind = in.kind /\ new.bytes = in.bytes /\ ~new.eof
        /\ new.position = in.position
    BY <1>1, <2>1 DEF Inputs
  <2>3. in.kind # "memory" /\ in.position <= Len(in.bytes)
    BY <1>1, <1>4 DEF InputOK
  <2>. HIDE DEF new
  <2>4. InputOK(new)
    BY <2>2, <2>3, SameSource
  <2>. QED
    BY <2>4 DEF new
<1>5. CASE in.kind # "memory" /\ ~in.fail /\ position \in 0 .. Len(in.bytes)
  <2>1. new = [in EXCEPT !.eof = FALSE, !.position = position]
    BY <1>5 DEF setPosition
  <2>2. /\ new \in Inputs /\ new.kind = in.kind /\ new.bytes = in.bytes /\ ~new.eof
        /\ new.position = position
    BY <1>1, <2>1 DEF Inputs
  <2>. QED
    BY <1>1, <1>5, <2>2 DEF InputOK
<1>. QED
  BY <1>2, <1>3, <1>4, <1>5

(* A source just opened stands at its first byte.                          *)
LEMMA ReaderInit == Init => ReaderInv
<1>. SUFFICES ASSUME Init PROVE ReaderInv
  OBVIOUS
<1>1. PICK source \in Sources, garbage \in Uninitialized : input = Open(source, garbage)
  BY DEF Init
<1>2. source.kind \in {"memory", "stream"} /\ source.bytes \in Seq(Byte)
  BY SourcesAssumption
<1>3. garbage \in Byte
  BY DEF Uninitialized, Byte
<1>4. Len(source.bytes) \in Nat
  <2>. HIDE DEF Byte
  <2>. QED
    BY <1>2
<1>5. input \in Inputs
  <2>. HIDE DEF Byte
  <2>. QED
    BY <1>1, <1>2, <1>3 DEF Open, Inputs
<1>6. /\ input.kind = source.kind /\ input.bytes = source.bytes /\ ~input.eof
      /\ input.position = 0 /\ ~input.fail
  BY <1>1 DEF Open
<1>7. InputOK(input)
  BY <1>4, <1>5, <1>6 DEF InputOK
<1>. QED
  BY <1>6, <1>7, NewInfoOK DEF Init, ReaderInv, Pair

(* The two ways of going on, on the variables.                             *)
LEMMA BecomesOK ==
  ASSUME NEW s, PairOK(s, begin), Becomes(s), UNCHANGED begin
  PROVE  ReaderInv'
<1>1. s = [input |-> s.input, info |-> s.info]
  BY PairFields
<1>2. Pair' = s
  BY <1>1 DEF Becomes, Pair
<1>. QED
  BY <1>2 DEF ReaderInv

LEMMA ReaderStep == ReaderInv /\ [Next]_vars => ReaderInv'
<1>. SUFFICES ASSUME ReaderInv, [Next]_vars PROVE ReaderInv'
  OBVIOUS
<1>0. Pair.input = input /\ Pair.info = info /\ PairOK(Pair, begin) /\ InputOK(input)
  BY DEF Pair, ReaderInv, PairOK
<1>1. CASE BeginInstruction
  <2>1. PairOK([input |-> input, info |-> NewInfo], input.position)
    BY <1>0, NewInfoOK
  <2>. QED
    BY <1>1, <2>1 DEF BeginInstruction, ReaderInv, Pair
<1>2. CASE Peek
  BY <1>0, <1>2, PeekOK, BecomesOK DEF Peek, Goes
<1>3. ASSUME NEW n \in {1, 2, 4, 8}, Read(n) PROVE ReaderInv'
  <2>1. PairOK(inputNextBytes(Pair, n), begin)
    BY <1>0, ReadGoes DEF Goes
  <2>. QED
    BY <1>3, <2>1, BecomesOK DEF Read
<1>4. ASSUME NEW position \in 0 .. Len(input.bytes) + 1, SetPosition(position) PROVE ReaderInv'
  <2>1. InputOK(input')
    <3>1. position \in Nat
      BY <1>4
    <3>. QED
      BY <1>0, <1>4, <3>1, SetPositionOK DEF SetPosition
  <2>2. PairOK([input |-> input', info |-> NewInfo], input'.position)
    BY <2>1, NewInfoOK
  <2>. QED
    BY <1>4, <2>2 DEF SetPosition, ReaderInv, Pair
<1>5. CASE UNCHANGED vars
  BY <1>0, <1>5 DEF vars, ReaderInv, Pair
<1>. QED
  BY <1>1, <1>2, <1>3, <1>4, <1>5 DEF Next

LEMMA ReaderInvariant == Spec => []ReaderInv
<1>. QED
  BY ReaderInit, ReaderStep, PTL DEF Spec
-----------------------------------------------------------------------------
(* Position, current byte, flags and bytes have their types whatever is    *)
(* read, after whatever error, and a buffer never takes a sixteenth byte   *)
(* (BaseInput::inputNext, ZydisInstructionDecoder.hpp:150).                *)
THEOREM ReaderTypeCorrect == Spec => []TypeOK
<1>1. ReaderInv => TypeOK
  <2>. SUFFICES ASSUME ReaderInv PROVE TypeOK
    OBVIOUS
  <2>1. Pair.input = input /\ Pair.info = info /\ PairOK(Pair, begin)
    BY DEF Pair, ReaderInv
  <2>2. \E source \in Sources : input.kind = source.kind /\ input.bytes = source.bytes
    BY <2>1 DEF PairOK, InputOK
  <2>3. Len(info.data) <= MaximumLength
    BY <2>1 DEF PairOK, InfoOK
  <2>. QED
    BY <2>1, <2>2, <2>3, PairFields DEF TypeOK
<1>. QED
  BY <1>1, ReaderInvariant, PTL

(* A sequence is the part of another whose elements it has.                *)
LEMMA IsSubSeq ==
  ASSUME NEW S, NEW d \in Seq(S), NEW all \in Seq(S), NEW b \in Nat, d # << >>,
         \A k \in 1 .. Len(d) : b + k <= Len(all) /\ d[k] = all[b + k]
  PROVE  b + Len(d) <= Len(all) /\ d = SubSeq(all, b + 1, b + Len(d))
<1>1. Len(d) \in Nat /\ Len(all) \in Nat /\ Len(d) \in 1 .. Len(d)
  OBVIOUS
<1>2. b + Len(d) <= Len(all)
  BY <1>1
<1>. DEFINE part == SubSeq(all, b + 1, b + Len(d))
<1>3. /\ part \in Seq(S) /\ Len(part) = Len(d)
      /\ \A k \in 1 .. Len(d) : part[k] = all[b + k]
  <2>. DEFINE m == b + 1
              n == b + Len(d)
  <2>1. m \in Int /\ n \in Int /\ m <= n /\ n - m + 1 = Len(d)
    BY <1>1
  <2>2. \A i \in m .. n : all[i] \in S
    BY <1>1, <1>2
  <2>3. \A k \in 1 .. Len(d) : m + k - 1 = b + k
    BY <1>1
  <2>. HIDE DEF m, n
  <2>4. /\ SubSeq(all, m, n) \in Seq(S)
        /\ Len(SubSeq(all, m, n)) = IF m <= n THEN n - m + 1 ELSE 0
        /\ \A i \in 1 .. n - m + 1 : SubSeq(all, m, n)[i] = all[m + i - 1]
    BY <2>1, <2>2, SubSeqProperties, SMTT(60)
  <2>5. part = SubSeq(all, m, n)
    BY DEF m, n
  <2>. HIDE DEF part
  <2>. QED
    BY <2>1, <2>3, <2>4, <2>5
<1>. HIDE DEF part
<1>4. part = d
  BY <1>3, <1>1
<1>. QED
  BY <1>2, <1>4 DEF part

(* Peeked at, read in pieces of one, two, four or eight bytes, cut short   *)
(* by an error: an instruction holds the bytes its source has from where   *)
(* it began (BaseInput::inputPeek, inputNext and inputNext<T>).            *)
THEOREM DataIsInputCorrect == Spec => []DataIsInput
<1>1. ReaderInv => DataIsInput
  <2>. SUFFICES ASSUME ReaderInv PROVE DataIsInput
    OBVIOUS
  <2>1. Pair.input = input /\ Pair.info = info /\ PairOK(Pair, begin)
    BY DEF Pair, ReaderInv
  <2>2. /\ input.bytes \in Seq(Byte) /\ info.data \in Seq(Byte) /\ begin \in Nat
        /\ input.position \in Nat /\ input.kind \in {"memory", "stream"}
        /\ Len(input.bytes) \in Nat /\ Len(info.data) \in Nat
    BY <2>1, PairFields
  <2>3. Contents = ContentsOf(input)
    BY DEF Contents, ContentsOf
  <2>4. Contents \in Seq(Byte)
    <3>1. 255 \in Byte
      BY DEF Byte
    <3>. HIDE DEF Byte
    <3>. QED
      BY <2>2, <3>1 DEF Contents
  <2>5. \A k \in 1 .. Len(info.data) :
           begin + k <= Len(Contents) /\ info.data[k] = Contents[begin + k]
    BY <2>1, <2>3 DEF PairOK, InfoOK
  <2>6. info.data # << >> =>
          /\ begin + Len(info.data) <= Len(Contents)
          /\ info.data = SubSeq(Contents, begin + 1, begin + Len(info.data))
    <3>. HIDE DEF Byte
    <3>. QED
      BY <2>2, <2>4, <2>5, IsSubSeq
  <2>7. input.position = IF input.kind = "stream" /\ begin + Len(info.data) > Len(input.bytes)
                         THEN Len(input.bytes) ELSE begin + Len(info.data)
    <3>1. CASE input.kind = "memory"
      BY <2>1, <3>1 DEF PairOK, InfoOK
    <3>2. CASE input.kind = "stream"
      <4>1. input.position <= Len(input.bytes)
        BY <2>1, <3>2 DEF PairOK, InputOK
      <4>2. \/ input.position = begin + Len(info.data)
            \/ /\ input.position = Len(input.bytes)
               /\ begin + Len(info.data) = Len(input.bytes) + 1
        BY <2>1, <3>2 DEF PairOK, InfoOK
      <4>. QED
        BY <2>2, <3>2, <4>1, <4>2
    <3>. QED
      BY <2>2, <3>1, <3>2
  <2>. QED
    BY <2>6, <2>7 DEF DataIsInput
<1>. QED
  BY <1>1, ReaderInvariant, PTL

(* End of input is raised only behind the last byte or on a failed stream, *)
(* the length error only in a full buffer, and both stay true of the pair  *)
(* however it is read on.                                                  *)
THEOREM ErrorsAreRealCorrect == Spec => []ErrorsAreReal
<1>1. ReaderInv => ErrorsAreReal
  <2>. SUFFICES ASSUME ReaderInv PROVE ErrorsAreReal
    OBVIOUS
  <2>1. Pair.input = input /\ Pair.info = info /\ PairOK(Pair, begin)
    BY DEF Pair, ReaderInv
  <2>2. input.kind \in {"memory", "stream"}
    BY <2>1, PairFields
  <2>3. isEndOfInput(input) => input.position >= Len(input.bytes) \/ input.fail
    BY <2>1, <2>2 DEF PairOK, InputOK, isEndOfInput
  <2>4. /\ "IF_ERROR_END_OF_INPUT" \in info.flags => isEndOfInput(input)
        /\ "IF_ERROR_LENGTH" \in info.flags => Len(info.data) = MaximumLength
    BY <2>1 DEF PairOK, InfoOK
  <2>. QED
    BY <2>3, <2>4 DEF ErrorsAreReal
<1>. QED
  BY <1>1, ReaderInvariant, PTL

(* After an error no step adds a byte to the instruction or drops one: the *)
(* prefix loop may read on after a failed peek.                            *)
THEOREM NoByteAfterErrorCorrect == Spec => NoByteAfterError
<1>1. ReaderInv /\ [Next]_vars =>
        [info.flags # {} /\ info'.flags # {} => info'.data = info.data]_vars
  <2>. SUFFICES ASSUME ReaderInv, Next, info.flags # {}, info'.flags # {}
                PROVE  info'.data = info.data
    BY DEF vars
  <2>1. Pair.input = input /\ Pair.info = info /\ PairOK(Pair, begin)
    BY DEF Pair, ReaderInv
  <2>2. NewInfo.flags = {}
    BY DEF NewInfo
  <2>3. CASE BeginInstruction
    BY <2>2, <2>3 DEF BeginInstruction
  <2>4. CASE Peek
    BY <2>1, <2>4, PeekOK DEF Peek, Becomes
  <2>5. ASSUME NEW n \in {1, 2, 4, 8}, Read(n) PROVE info'.data = info.data
    BY <2>1, <2>5, ReadGoes DEF Read, Becomes, Goes
  <2>6. ASSUME NEW position \in 0 .. Len(input.bytes) + 1, SetPosition(position)
        PROVE  info'.data = info.data
    BY <2>2, <2>6 DEF SetPosition
  <2>. QED
    BY <2>3, <2>4, <2>5, <2>6 DEF Next
<1>. QED
  BY <1>1, ReaderInvariant, PTL DEF Spec, NoByteAfterError
=============================================================================
