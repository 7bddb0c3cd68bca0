--------------------------- MODULE CodegenProofs ---------------------------
(***************************************************************************)
(* What is proved of the generator for every tree the parser may hand over *)
(* and every table of types.  The stack frames are sound: slots do not     *)
(* overlap, and code never touches anything outside the frame it reserved. *)
(* And so is the file: control stays inside a procedure, a procedure has   *)
(* its arguments in its slots, and a file that is written holds all of     *)
(* them.                                                                   *)
(***************************************************************************)
EXTENDS Codegen, TLAPS

Loops == {"label", "entry", "spill", "body"}

(* Where the generator is.  In "entry" index counts the slots assigned; in *)
(* the loops behind it every variable has one.                             *)
PlaceOK ==
  /\ procedure \in Nat /\ index \in Nat
  /\ genpc \in GenFinal \cup Loops \cup {"idle", "end"}
  /\ genpc = "idle" => procedure = 0
  /\ genpc \in Loops => procedure \in 1 .. Len(Procedures)
  /\ genpc = "label" => index = 0
  /\ genpc = "entry" =>
       index = Len(offset[Current]) /\ index <= Len(blocks[Current].variables)
  /\ genpc \in {"spill", "body"} => Len(offset[Current]) = Len(blocks[Current].variables)

(* A block's slots: one after the other for its first variables, whose     *)
(* types are known, and all inside what the block requires.                *)
LayoutOK(b) ==
  /\ memory[b] % 8 = 0
  /\ \A i \in 1 .. Len(offset[b]) :
       /\ i <= Len(blocks[b].variables)
       /\ blocks[b].variables[i].type \in 1 .. Len(Types)
       /\ offset[b][i] % 8 = 0
       /\ offset[b][i] + Size(b, i) <= memory[b]
  /\ \A i, j \in 1 .. Len(offset[b]) : i < j => offset[b][i] + Size(b, i) <= offset[b][j]

SlotsOK ==
  /\ offset \in [DOMAIN blocks -> Seq(Nat)]
  /\ memory \in [DOMAIN blocks -> Nat]
  /\ \A b \in DOMAIN blocks : LayoutOK(b)

(* The procedures the generator has not come to have no slots yet.         *)
LaterUntouched ==
  \A k \in 1 .. Len(Procedures) :
    k > procedure \/ (k = procedure /\ genpc = "label") => offset[Procedures[k]] = << >>

LayoutInv == WellFormed(blocks) /\ PlaceOK /\ SlotsOK /\ LaterUntouched

LEMMA AlignUp ==
  ASSUME NEW n \in Nat
  PROVE  Align(n) \in Nat /\ Align(n) >= n /\ Align(n) % 8 = 0
BY DEF Align

LEMMA SizeIsPositive ==
  ASSUME NEW t \in 1 .. Len(Types)
  PROVE  Types[t].size \in Nat \ {0}
<1>. DEFINE R == [name : STRING, size : Nat \ {0}, kind : {"IntType", "FloatType"}]
<1>1. Types \in Seq(R)
  BY GeneratorTypesAssumption
<1>. HIDE DEF R
<1>2. Types[t] \in R
  BY <1>1
<1>. QED
  BY <1>2 DEF R

(* The procedures are blocks of the tree, and different ones.              *)
LEMMA ProceduresAreBlocks ==
  ASSUME WellFormed(blocks)
  PROVE  /\ Len(Procedures) \in Nat
         /\ \A k \in 1 .. Len(Procedures) : Procedures[k] \in DOMAIN blocks
         /\ \A j, k \in 1 .. Len(Procedures) : Procedures[j] = Procedures[k] => j = k
         /\ genpc \in Loops /\ PlaceOK => Current \in DOMAIN blocks
<1>1. /\ Procedures \in Seq(DOMAIN blocks)
      /\ \A j, k \in DOMAIN Procedures : Procedures[j] = Procedures[k] => j = k
  BY DEF WellFormed, Procedures, IsInjective
<1>2. /\ Len(Procedures) \in Nat /\ DOMAIN Procedures = 1 .. Len(Procedures)
      /\ \A k \in 1 .. Len(Procedures) : Procedures[k] \in DOMAIN blocks
  BY <1>1
<1>. QED
  BY <1>1, <1>2 DEF PlaceOK, Current

(* What stays when only the generator's place and its output change.       *)
LEMMA SlotsStay ==
  ASSUME LayoutInv, UNCHANGED <<blocks, offset, memory>>
  PROVE  WellFormed(blocks)' /\ SlotsOK'
BY DEF LayoutInv, SlotsOK, LayoutOK, Size, WellFormed, WellFormedBlock

(* The generator before it has begun, whatever tree it will be given.      *)
Fresh ==
  /\ genpc = "idle" /\ procedure = 0 /\ index = 0 /\ integers = 0
  /\ offset = [b \in DOMAIN blocks |-> << >>] /\ memory = [b \in DOMAIN blocks |-> 0]
  /\ asm = << >> /\ bufferUsed = 0

LEMMA InitIsFresh == Init => WellFormed(blocks) /\ Fresh
BY ProgramsAssumption DEF Init, Fresh

LEMMA FreshLayout == WellFormed(blocks) /\ Fresh => LayoutInv
<1>. SUFFICES ASSUME WellFormed(blocks), Fresh PROVE LayoutInv
  OBVIOUS
<1>1. PlaceOK
  BY DEF Fresh, PlaceOK, GenFinal, Loops
<1>2. SlotsOK
  <2>1. offset = [b \in DOMAIN blocks |-> << >>] /\ memory = [b \in DOMAIN blocks |-> 0]
    BY DEF Fresh
  <2>2. ASSUME NEW b \in DOMAIN blocks PROVE LayoutOK(b)
    BY <2>1 DEF LayoutOK
  <2>. QED
    BY <2>1, <2>2 DEF SlotsOK
<1>3. LaterUntouched
  BY ProceduresAreBlocks DEF Fresh, LaterUntouched
<1>. QED
  BY <1>1, <1>2, <1>3 DEF LayoutInv

(* A step that leaves the slots alone and moves the generator.             *)
LEMMA StartProcedureLayout == LayoutInv /\ StartProcedure => LayoutInv'
<1>. SUFFICES ASSUME LayoutInv, StartProcedure PROVE LayoutInv'
  OBVIOUS
<1>0. /\ WellFormed(blocks) /\ PlaceOK /\ SlotsOK /\ LaterUntouched
      /\ UNCHANGED <<blocks, procedure, index, offset, memory>>
      /\ genpc = "label" /\ genpc' = "entry"
  BY DEF LayoutInv, StartProcedure
<1>1. WellFormed(blocks)' /\ SlotsOK'
  BY <1>0, SlotsStay
<1>2. Current \in DOMAIN blocks /\ procedure \in 1 .. Len(Procedures)
  BY <1>0, ProceduresAreBlocks DEF PlaceOK, Loops
<1>3. offset[Current] = << >> /\ index = 0
  BY <1>0, <1>2 DEF LaterUntouched, PlaceOK, Current
<1>4. Len(blocks[Current].variables) \in Nat
  BY <1>0, <1>2 DEF WellFormed, WellFormedBlock, IsSequence
<1>5. PlaceOK'
  BY <1>0, <1>3, <1>4 DEF PlaceOK, Current, Procedures, Loops, GenFinal
<1>6. LaterUntouched'
  BY <1>0 DEF LaterUntouched, Procedures
<1>. QED
  BY <1>1, <1>5, <1>6 DEF LayoutInv

LEMMA NextProcedureLayout ==
  ASSUME LayoutInv, NextProcedure, UNCHANGED <<blocks, offset, memory>>,
         genpc = "idle" \/ genpc = "body"
  PROVE  LayoutInv'
<1>0. WellFormed(blocks) /\ PlaceOK /\ SlotsOK /\ LaterUntouched
  BY DEF LayoutInv
<1>1. WellFormed(blocks)' /\ SlotsOK'
  BY SlotsStay
<1>2. /\ Len(Procedures) \in Nat /\ procedure \in 0 .. Len(Procedures)
      /\ procedure' = procedure + 1 /\ index' = 0
      /\ genpc' = IF procedure = Len(Procedures) THEN "end" ELSE "label"
  BY <1>0, ProceduresAreBlocks DEF PlaceOK, Loops, NextProcedure
<1>3. PlaceOK'
  BY <1>2 DEF PlaceOK, Procedures, Loops, GenFinal
<1>4. LaterUntouched'
  BY <1>0, <1>2 DEF LaterUntouched, Procedures
<1>. QED
  BY <1>1, <1>3, <1>4 DEF LayoutInv

(* The loops behind the slots: they may go on, or end the generator.       *)
LEMMA LoopLayout ==
  ASSUME LayoutInv, UNCHANGED <<blocks, procedure, offset, memory>>, index' \in Nat,
         \/ /\ \/ genpc \in {"spill", "body"}
               \/ genpc = "entry" /\ index = Len(blocks[Current].variables)
            /\ genpc' \in {"spill", "body"}
         \/ genpc' \in GenFinal
  PROVE  LayoutInv'
<1>0. WellFormed(blocks) /\ PlaceOK /\ SlotsOK /\ LaterUntouched
  BY DEF LayoutInv
<1>1. WellFormed(blocks)' /\ SlotsOK'
  BY SlotsStay
<1>2. PlaceOK'
  BY <1>0 DEF PlaceOK, Current, Procedures, Loops, GenFinal
<1>3. LaterUntouched'
  BY <1>0 DEF LaterUntouched, Procedures, GenFinal
<1>. QED
  BY <1>1, <1>2, <1>3 DEF LayoutInv

(* A variable gets the slot at the end of the frame, and the frame grows.  *)
LEMMA AssignSlotLayout == LayoutInv /\ AssignSlot => LayoutInv'
<1>. SUFFICES ASSUME LayoutInv, AssignSlot PROVE LayoutInv'
  OBVIOUS
<1>. DEFINE c == Current
            t == blocks[c].variables[index + 1].type
            n == Len(offset[c])
<1>0. WellFormed(blocks) /\ PlaceOK /\ SlotsOK /\ LaterUntouched
  BY DEF LayoutInv
<1>1. /\ genpc = "entry" /\ index < Len(blocks[c].variables)
      /\ UNCHANGED <<blocks, procedure>>
      /\ c \in DOMAIN blocks /\ procedure \in 1 .. Len(Procedures)
      /\ Len(Procedures) \in Nat /\ c' = c
      /\ n = index /\ index \in Nat
  BY <1>0, ProceduresAreBlocks DEF AssignSlot, GenAbort, PlaceOK, Loops, Current, Procedures
<1>2. CASE t = 0
  BY <1>0, <1>1, <1>2, LoopLayout DEF AssignSlot, GenAbort, GenFinal
<1>3. CASE t # 0
  <2>1. /\ offset' = [offset EXCEPT ![c] = Append(@, memory[c])]
        /\ memory' = [memory EXCEPT ![c] = Align(@ + Types[t].size)]
        /\ index' = index + 1 /\ genpc' = genpc
    BY <1>3 DEF AssignSlot
  <2>2. /\ Len(blocks[c].variables) \in Nat
        /\ DOMAIN blocks[c].variables = 1 .. Len(blocks[c].variables)
        /\ t \in 0 .. Len(Types)
    BY <1>0, <1>1 DEF WellFormed, WellFormedBlock, IsSequence
  <2>3. Len(Types) \in Nat
    BY GeneratorTypesAssumption
  <2>4. t \in 1 .. Len(Types) /\ Types[t].size \in Nat \ {0}
    BY <1>3, <2>2, <2>3, SizeIsPositive
  <2>5. /\ offset[c] \in Seq(Nat) /\ memory[c] \in Nat /\ LayoutOK(c)
        /\ offset \in [DOMAIN blocks -> Seq(Nat)] /\ memory \in [DOMAIN blocks -> Nat]
    BY <1>0, <1>1 DEF SlotsOK
  <2>6. /\ memory'[c] \in Nat /\ memory'[c] % 8 = 0
        /\ memory'[c] >= memory[c] + Types[t].size
        /\ memory'[c] >= memory[c]
    <3>. DEFINE m == memory[c]
                s == Types[t].size
    <3>1. memory'[c] = Align(m + s)
      BY <1>1, <2>1, <2>5
    <3>2. m \in Nat /\ s \in Nat
      BY <2>4, <2>5
    <3>. HIDE DEF m, s
    <3>3. m + s \in Nat /\ m + s >= m
      BY <3>2
    <3>4. Align(m + s) \in Nat /\ Align(m + s) >= m + s /\ Align(m + s) % 8 = 0
      BY <3>3, AlignUp
    <3>5. Align(m + s) >= m
      BY <3>2, <3>3, <3>4
    <3>. QED
      BY <3>1, <3>4, <3>5 DEF m, s
  <2>7. /\ offset'[c] \in Seq(Nat) /\ Len(offset'[c]) = n + 1
        /\ offset'[c][n + 1] = memory[c]
        /\ \A i \in 1 .. n : offset'[c][i] = offset[c][i]
    BY <1>1, <2>1, <2>5
  <2>8. \A b \in DOMAIN blocks : b # c => offset'[b] = offset[b] /\ memory'[b] = memory[b]
    BY <2>1, <2>5
  <2>9. /\ offset' \in [DOMAIN blocks' -> Seq(Nat)]
        /\ memory' \in [DOMAIN blocks' -> Nat]
    BY <1>1, <2>1, <2>5, <2>6, <2>7
  <2>10. LayoutOK(c)'
    <3>1. ASSUME NEW i \in 1 .. n + 1
          PROVE  /\ i <= Len(blocks[c].variables)
                 /\ blocks[c].variables[i].type \in 1 .. Len(Types)
                 /\ offset'[c][i] \in Nat /\ offset'[c][i] % 8 = 0
                 /\ Size(c, i) \in Nat /\ offset'[c][i] + Size(c, i) <= memory'[c]
                 /\ i <= n => offset'[c][i] + Size(c, i) <= memory[c]
      <4>1. CASE i = n + 1
        <5>1. i = index + 1 /\ i <= Len(blocks[c].variables)
          BY <1>1, <2>2, <4>1
        <5>2. blocks[c].variables[i].type = t /\ Size(c, i) = Types[t].size
          BY <5>1 DEF Size
        <5>3. offset'[c][i] = memory[c] /\ memory[c] % 8 = 0
          BY <2>5, <2>7, <4>1 DEF LayoutOK
        <5>. HIDE DEF t, c
        <5>. QED
          BY <1>1, <2>4, <2>5, <2>6, <4>1, <5>1, <5>2, <5>3
      <4>2. CASE i # n + 1
        <5>1. i \in 1 .. n /\ offset[c][i] \in Nat
          BY <1>1, <4>2, <2>5
        <5>2. /\ i <= Len(blocks[c].variables)
              /\ blocks[c].variables[i].type \in 1 .. Len(Types)
              /\ offset[c][i] % 8 = 0
              /\ offset[c][i] + Size(c, i) <= memory[c]
          BY <2>5, <5>1 DEF LayoutOK
        <5>3. Size(c, i) \in Nat
          BY <5>2, SizeIsPositive DEF Size
        <5>. QED
          <6>1. offset'[c][i] = offset[c][i]
            BY <2>7, <5>1
          <6>2. offset'[c][i] \in Nat /\ offset'[c][i] % 8 = 0
            BY <5>1, <5>2, <6>1
          <6>3. offset'[c][i] + Size(c, i) <= memory[c]
            BY <5>2, <6>1
          <6>4. memory[c] <= memory'[c]
            BY <2>5, <2>6
          <6>5. memory[c] \in Nat /\ memory'[c] \in Nat
            BY <2>5, <2>6
          <6>6. offset'[c][i] + Size(c, i) <= memory'[c]
            BY <5>3, <6>2, <6>3, <6>4, <6>5
          <6>. QED
            BY <5>2, <5>3, <6>2, <6>3, <6>6
      <4>. QED
        BY <4>1, <4>2
    <3>2. ASSUME NEW i \in 1 .. n + 1, NEW j \in 1 .. n + 1, i < j
          PROVE  offset'[c][i] + Size(c, i) <= offset'[c][j]
      <4>1. i \in 1 .. n
        BY <1>1, <3>2
      <4>2. CASE j = n + 1
        BY <1>1, <2>7, <3>1, <4>1, <4>2
      <4>3. CASE j # n + 1
        <5>1. j \in 1 .. n
          BY <1>1, <4>3
        <5>2. offset'[c][i] = offset[c][i] /\ offset'[c][j] = offset[c][j]
          BY <2>7, <4>1, <5>1
        <5>. QED
          BY <2>5, <3>2, <4>1, <5>1, <5>2 DEF LayoutOK
      <4>. QED
        BY <4>2, <4>3
    <3>3. \A i : Size(c, i)' = Size(c, i)
      BY <1>1 DEF Size
    <3>. QED
      BY <1>1, <2>6, <2>7, <3>1, <3>2, <3>3 DEF LayoutOK
  <2>11. ASSUME NEW b \in DOMAIN blocks, b # c PROVE LayoutOK(b)'
    BY <1>0, <1>1, <2>8, <2>11 DEF SlotsOK, LayoutOK, Size
  <2>12. SlotsOK'
    BY <1>1, <2>9, <2>10, <2>11 DEF SlotsOK
  <2>13. PlaceOK'
    BY <1>0, <1>1, <2>1, <2>2, <2>7 DEF PlaceOK, Procedures, Loops, GenFinal
  <2>14. LaterUntouched'
    <3>1. ASSUME NEW k \in 1 .. Len(Procedures), k > procedure
          PROVE  Procedures[k] \in DOMAIN blocks /\ Procedures[k] # c
      BY <1>0, <1>1, <3>1, ProceduresAreBlocks DEF Current
    <3>. QED
      BY <1>0, <1>1, <2>1, <2>8, <3>1 DEF LaterUntouched, Procedures
  <2>. QED
    BY <1>0, <1>1, <2>12, <2>13, <2>14 DEF LayoutInv
<1>. QED
  BY <1>2, <1>3

LEMMA NextLayout == LayoutInv /\ [Next]_genvars => LayoutInv'
<1>. SUFFICES ASSUME LayoutInv, [Next]_genvars PROVE LayoutInv'
  OBVIOUS
<1>0. PlaceOK /\ index \in Nat /\ index + 1 \in Nat
  BY DEF LayoutInv, PlaceOK
<1>1. CASE CodegenAST
  <2>1. CASE genpc' = "unopened"
    BY <1>0, <1>1, <2>1, LoopLayout DEF CodegenAST, GenAbort, NextProcedure, GenFinal
  <2>2. CASE genpc' # "unopened"
    BY <1>1, <2>2, NextProcedureLayout DEF CodegenAST, GenAbort
  <2>. QED
    BY <2>1, <2>2
<1>2. CASE StartProcedure
  BY <1>2, StartProcedureLayout
<1>3. CASE AssignSlot
  BY <1>3, AssignSlotLayout
<1>4. CASE ReserveFrame
  BY <1>0, <1>4, LoopLayout DEF ReserveFrame, GenAbort, GenFinal
<1>5. CASE SpillArgument
  BY <1>0, <1>5, LoopLayout DEF SpillArgument, GenAbort, GenFinal
<1>6. CASE ArgumentsSpilled
  BY <1>0, <1>6, LoopLayout DEF ArgumentsSpilled
<1>7. CASE CodegenStatement
  BY <1>0, <1>7, LoopLayout DEF CodegenStatement, GenFinal
<1>8. CASE EndProcedure
  BY <1>8, NextProcedureLayout DEF EndProcedure
<1>9. CASE WriteFile
  BY <1>0, <1>9, LoopLayout DEF WriteFile, GenAbort, GenFinal
<1>10. CASE UNCHANGED genvars
  BY <1>10 DEF genvars, LayoutInv, WellFormed, WellFormedBlock, PlaceOK, SlotsOK, LayoutOK,
               LaterUntouched, Size, Current, Procedures
<1>. QED
  BY <1>1, <1>2, <1>3, <1>4, <1>5, <1>6, <1>7, <1>8, <1>9, <1>10
     DEF Next, GenStep, GenTerminated

LEMMA LayoutIsInvariant == Spec => []LayoutInv
<1>. QED
  BY InitIsFresh, FreshLayout, NextLayout, PTL DEF Spec

LEMMA SlotsHold == LayoutInv => SlotsDisjoint
<1>. SUFFICES ASSUME LayoutInv, NEW b \in DOMAIN blocks
              PROVE  \A i \in DOMAIN offset[b] :
                       /\ offset[b][i] % 8 = 0
                       /\ offset[b][i] + Size(b, i) <= memory[b]
                       /\ \A j \in DOMAIN offset[b] :
                            i < j => offset[b][i] + Size(b, i) <= offset[b][j]
  BY DEF SlotsDisjoint
<1>1. LayoutOK(b) /\ DOMAIN offset[b] = 1 .. Len(offset[b])
  BY DEF LayoutInv, SlotsOK
<1>. QED
  BY <1>1 DEF LayoutOK

(***************************************************************************)
(* Whatever the tree and the sizes of the types, the slots of a block are  *)
(* aligned and disjoint and lie inside the memory it requires              *)
(* (CodegenBlockEntry).                                                    *)
(***************************************************************************)
THEOREM SlotsCorrect == Spec => []SlotsDisjoint
<1>. QED
  BY SlotsHold, LayoutIsInvariant, PTL
-----------------------------------------------------------------------------
(***************************************************************************)
(* What the generator has written.  Its lines are about blocks; a "sub"    *)
(* line reserves what its block requires in the end, and belongs to a      *)
(* procedure whose slots are all assigned; an access is to a slot and      *)
(* stands behind the "sub" line of its block.                              *)
(***************************************************************************)
Lines == [op : Ops, arg : Nat, reg : Register \cup {"none"}, of : DOMAIN blocks]

Reserved(p) == p < procedure \/ (p = procedure /\ genpc \notin {"label", "entry"})

FrameLine(line) ==
  /\ line.arg = memory[line.of]
  /\ \E p \in 1 .. Len(Procedures) : line.of = Procedures[p] /\ Reserved(p)

IsSlot(b, place) == \E i \in 1 .. Len(offset[b]) : offset[b][i] = place

IsFrameOf(line, b) == line.op = "sub" /\ line.of = b

OutputInv ==
  /\ asm \in Seq(Lines) /\ integers \in Nat
  /\ \A k \in 1 .. Len(asm) : asm[k].op = "sub" => FrameLine(asm[k])
  /\ \A k \in 1 .. Len(asm) : asm[k].op \in {"store", "load"} =>
       /\ IsSlot(asm[k].of, asm[k].arg)
       /\ \E j \in 1 .. k - 1 : IsFrameOf(asm[j], asm[k].of)
  /\ genpc \in {"spill", "body"} => \E j \in 1 .. Len(asm) : IsFrameOf(asm[j], Current)

LEMMA Appended ==
  ASSUME NEW S, NEW s \in Seq(S), NEW t \in Seq(S)
  PROVE  /\ s \o t \in Seq(S) /\ Len(s \o t) = Len(s) + Len(t)
         /\ \A i \in 1 .. Len(s) : (s \o t)[i] = s[i]
         /\ \A i \in 1 .. Len(s) + Len(t) :
              i > Len(s) => i - Len(s) \in 1 .. Len(t) /\ (s \o t)[i] = t[i - Len(s)]
OBVIOUS

(* Lines appended when the slots stay: the conditions each must meet.      *)
LEMMA LinesAppended ==
  ASSUME LayoutInv, OutputInv, UNCHANGED <<blocks, offset, memory>>, integers' \in Nat,
         NEW lines \in Seq(Lines), asm' = asm \o lines,
         \A p \in 1 .. Len(Procedures) : Reserved(p) => Reserved(p)',
         \A i \in 1 .. Len(lines) : lines[i].op = "sub" =>
           /\ lines[i].arg = memory[lines[i].of]
           /\ \E p \in 1 .. Len(Procedures) : lines[i].of = Procedures[p] /\ Reserved(p)',
         \A i \in 1 .. Len(lines) : lines[i].op \in {"store", "load"} =>
           /\ lines[i].of = Current /\ genpc \in {"spill", "body"}
           /\ IsSlot(Current, lines[i].arg),
         genpc' \in {"spill", "body"} =>
           /\ procedure' = procedure
           /\ \/ genpc \in {"spill", "body"}
              \/ lines # << >> /\ IsFrameOf(lines[1], Current)
  PROVE  OutputInv'
<1>1. asm \in Seq(Lines) /\ Len(asm) \in Nat /\ Len(lines) \in Nat
  BY DEF OutputInv
<1>2. /\ asm' \in Seq(Lines) /\ Len(asm') = Len(asm) + Len(lines)
      /\ \A i \in 1 .. Len(asm) : asm'[i] = asm[i]
      /\ \A i \in 1 .. Len(asm') :
           i > Len(asm) => i - Len(asm) \in 1 .. Len(lines) /\ asm'[i] = lines[i - Len(asm)]
  <2>. HIDE DEF Lines
  <2>. QED
    BY <1>1, Appended
<1>3. Lines' = Lines /\ Procedures' = Procedures
  BY DEF Lines, Procedures
<1>4. ASSUME NEW k \in 1 .. Len(asm'), asm'[k].op = "sub"
      PROVE  /\ asm'[k].arg = memory[asm'[k].of]
             /\ \E p \in 1 .. Len(Procedures) : asm'[k].of = Procedures[p] /\ Reserved(p)'
  <2>1. CASE k <= Len(asm)
    <3>1. k \in 1 .. Len(asm) /\ asm'[k] = asm[k]
      BY <1>1, <1>2, <2>1
    <3>2. FrameLine(asm[k])
      BY <1>4, <3>1 DEF OutputInv
    <3>. QED
      BY <3>1, <3>2 DEF FrameLine
  <2>2. CASE k > Len(asm)
    <3>1. k - Len(asm) \in 1 .. Len(lines) /\ asm'[k] = lines[k - Len(asm)]
      BY <1>2, <2>2
    <3>. QED
      BY <1>4, <3>1
  <2>. QED
    BY <1>1, <1>2, <2>1, <2>2
<1>5. ASSUME NEW k \in 1 .. Len(asm'), asm'[k].op \in {"store", "load"}
      PROVE  /\ IsSlot(asm'[k].of, asm'[k].arg)
             /\ \E j \in 1 .. k - 1 : IsFrameOf(asm'[j], asm'[k].of)
  <2>1. CASE k <= Len(asm)
    <3>1. k \in 1 .. Len(asm) /\ asm'[k] = asm[k]
      BY <1>1, <1>2, <2>1
    <3>2. PICK j \in 1 .. k - 1 : IsFrameOf(asm[j], asm[k].of)
      BY <1>5, <3>1 DEF OutputInv
    <3>3. asm'[j] = asm[j]
      BY <1>1, <1>2, <3>1
    <3>4. IsSlot(asm[k].of, asm[k].arg)
      BY <1>5, <3>1 DEF OutputInv
    <3>. QED
      BY <3>1, <3>2, <3>3, <3>4
  <2>2. CASE k > Len(asm)
    <3>1. asm'[k].of = Current /\ genpc \in {"spill", "body"} /\ IsSlot(Current, asm'[k].arg)
      BY <1>2, <1>5, <2>2
    <3>2. PICK j \in 1 .. Len(asm) : IsFrameOf(asm[j], Current)
      BY <3>1 DEF OutputInv
    <3>3. j \in 1 .. k - 1 /\ asm'[j] = asm[j]
      BY <1>1, <1>2, <2>2
    <3>. QED
      BY <3>1, <3>2, <3>3
  <2>. QED
    BY <1>1, <1>2, <2>1, <2>2
<1>6. ASSUME genpc' \in {"spill", "body"}
      PROVE  \E j \in 1 .. Len(asm') : IsFrameOf(asm'[j], Current')
  <2>1. Current' = Current
    BY <1>3, <1>6 DEF Current
  <2>2. CASE genpc \in {"spill", "body"}
    <3>1. PICK j \in 1 .. Len(asm) : IsFrameOf(asm[j], Current)
      BY <2>2 DEF OutputInv
    <3>2. j \in 1 .. Len(asm') /\ asm'[j] = asm[j]
      BY <1>1, <1>2
    <3>. QED
      BY <2>1, <3>1, <3>2
  <2>3. CASE lines # << >> /\ IsFrameOf(lines[1], Current)
    <3>1. Len(lines) > 0
      BY <1>1, <2>3
    <3>2. Len(asm) + 1 \in 1 .. Len(asm') /\ asm'[Len(asm) + 1] = lines[1]
      BY <1>1, <1>2, <3>1
    <3>. QED
      BY <2>1, <2>3, <3>2
  <2>. QED
    BY <1>6, <2>2, <2>3
<1>7. \A k \in 1 .. Len(asm') : asm'[k].op = "sub" =>
        /\ asm'[k].arg = memory'[asm'[k].of]
        /\ \E p \in 1 .. Len(Procedures)' : asm'[k].of = Procedures'[p] /\ Reserved(p)'
  BY <1>3, <1>4
<1>8. \A k \in 1 .. Len(asm') : asm'[k].op \in {"store", "load"} =>
        /\ \E i \in 1 .. Len(offset'[asm'[k].of]) : offset'[asm'[k].of][i] = asm'[k].arg
        /\ \E j \in 1 .. k - 1 : IsFrameOf(asm'[j], asm'[k].of)
  BY <1>5 DEF IsSlot
<1>. QED
  BY <1>2, <1>3, <1>6, <1>7, <1>8 DEF OutputInv, FrameLine, IsSlot, IsFrameOf

LEMMA NothingWritten ==
  ASSUME LayoutInv, OutputInv, UNCHANGED <<blocks, offset, memory, integers, asm>>,
         \A p \in 1 .. Len(Procedures) : Reserved(p) => Reserved(p)',
         genpc' \in {"spill", "body"} => genpc \in {"spill", "body"} /\ procedure' = procedure
  PROVE  OutputInv'
<1>. DEFINE lines == << >>
<1>1. lines \in Seq(Lines) /\ asm' = asm \o lines
  <2>1. asm \in Seq(Lines)
    BY DEF OutputInv
  <2>. HIDE DEF Lines
  <2>. QED
    BY <2>1
<1>2. integers' \in Nat
  BY DEF OutputInv
<1>3. \A i : i \notin 1 .. Len(lines)
  OBVIOUS
<1>. HIDE DEF lines
<1>. QED
  BY <1>1, <1>2, <1>3, LinesAppended

(* The procedures whose frames are reserved stay so.                       *)
LEMMA ReservedStays ==
  ASSUME LayoutInv,
         \/ NextProcedure
         \/ procedure' = procedure /\ genpc' \notin {"label", "entry"}
         \/ procedure' = procedure /\ genpc \in {"label", "entry"}
  PROVE  \A p \in 1 .. Len(Procedures) : Reserved(p) => Reserved(p)'
<1>1. procedure \in Nat
  BY DEF LayoutInv, PlaceOK
<1>. QED
  BY <1>1 DEF Reserved, NextProcedure

LEMMA PlainLines ==
  ASSUME NEW lines, lines \in Seq(Lines), asm' = asm \o lines,
         \A i \in 1 .. Len(lines) : lines[i].op \notin {"sub", "store", "load"},
         LayoutInv, OutputInv, UNCHANGED <<blocks, offset, memory>>, integers' \in Nat,
         \A p \in 1 .. Len(Procedures) : Reserved(p) => Reserved(p)',
         genpc' \notin {"spill", "body"}
  PROVE  OutputInv'
BY LinesAppended

LEMMA PlainLine ==
  ASSUME LayoutInv, genpc \in Loops, NEW op \in Ops, NEW arg \in Nat
  PROVE  Line(op, arg) \in Lines /\ Line(op, arg).op = op /\ Line(op, arg).arg = arg
         /\ Line(op, arg).of = Current
<1>1. Current \in DOMAIN blocks
  BY ProceduresAreBlocks DEF LayoutInv
<1>. QED
  BY <1>1 DEF Line, Lines, Register

LEMMA SpillOutput == LayoutInv /\ OutputInv /\ SpillArgument => OutputInv'
<1>. SUFFICES ASSUME LayoutInv, OutputInv, SpillArgument PROVE OutputInv'
  OBVIOUS
<1>1. genpc = "spill" /\ index < blocks[Current].inputCount /\ index \in Nat
      /\ integers \in Nat /\ asm \in Seq(Lines)
  BY DEF SpillArgument, LayoutInv, PlaceOK, OutputInv
<1>2. CASE genpc' \in {"assert", "fault"} /\ UNCHANGED <<blocks, procedure, offset, memory, integers, asm>>
  BY <1>2, NothingWritten, ReservedStays
<1>3. CASE \E reg \in Register \cup {"none"} :
             /\ asm' = asm \o <<Store(reg, offset[Current][index + 1])>>
             /\ integers' = integers + 1
             /\ UNCHANGED <<blocks, genpc, procedure, offset, memory>>
  <2>1. PICK reg \in Register \cup {"none"} :
             /\ asm' = asm \o <<Store(reg, offset[Current][index + 1])>>
             /\ integers' = integers + 1
             /\ UNCHANGED <<blocks, genpc, procedure, offset, memory>>
    BY <1>3
  <2>2. Current \in DOMAIN blocks /\ WellFormed(blocks)
    BY <1>1, ProceduresAreBlocks DEF LayoutInv, Loops
  <2>3. offset[Current] \in Seq(Nat) /\ index + 1 \in 1 .. Len(offset[Current])
    BY <1>1, <2>2 DEF LayoutInv, SlotsOK, PlaceOK, WellFormed, WellFormedBlock, IsSequence
  <2>. DEFINE line == Store(reg, offset[Current][index + 1])
  <2>4. /\ line \in Lines /\ line.op = "store" /\ line.of = Current
        /\ IsSlot(Current, line.arg)
    <3>1. offset[Current][index + 1] \in Nat
      BY <2>3
    <3>. QED
      BY <2>2, <2>3, <3>1 DEF Store, Lines, Ops, IsSlot
  <2>. HIDE DEF line
  <2>5. <<line>> \in Seq(Lines) /\ Len(<<line>>) = 1 /\ <<line>>[1] = line
    BY <2>4
  <2>6. \A p \in 1 .. Len(Procedures) : Reserved(p) => Reserved(p)'
    BY <1>1, <2>1, ReservedStays
  <2>7. asm' = asm \o <<line>>
    BY <2>1 DEF line
  <2>. DEFINE lines == <<line>>
  <2>8. \A i \in 1 .. Len(lines) : lines[i] = line
    BY <2>5
  <2>9. lines \in Seq(Lines) /\ asm' = asm \o lines
    BY <2>5, <2>7
  <2>. HIDE DEF lines
  <2>. QED
    BY <1>1, <2>1, <2>4, <2>6, <2>8, <2>9, LinesAppended
<1>4. ArgumentRegisters(integers) \subseteq Register \cup {"none"}
  BY <1>1 DEF ArgumentRegisters, SYSTEMV_CALL_INT_REGISTERS, Register
<1>. QED
  BY <1>1, <1>2, <1>3, <1>4 DEF SpillArgument, GenAbort, Write, CountInteger

LEMMA AssignSlotOutput == LayoutInv /\ OutputInv /\ AssignSlot => OutputInv'
<1>. SUFFICES ASSUME LayoutInv, OutputInv, AssignSlot PROVE OutputInv'
  OBVIOUS
<1>1. CASE genpc' = "fault" /\ UNCHANGED <<blocks, procedure, offset, memory, integers, asm>>
  BY <1>1, NothingWritten, ReservedStays
<1>2. CASE /\ \E place, need : offset' = [offset EXCEPT ![Current] = Append(@, place)]
                               /\ memory' = [memory EXCEPT ![Current] = need]
           /\ UNCHANGED <<blocks, genpc, procedure, integers, asm>>
  <2>1. PICK place, need : /\ offset' = [offset EXCEPT ![Current] = Append(@, place)]
                           /\ memory' = [memory EXCEPT ![Current] = need]
    BY <1>2
  <2>2. /\ genpc = "entry" /\ procedure \in 1 .. Len(Procedures)
        /\ Current \in DOMAIN blocks /\ Current = Procedures[procedure]
        /\ offset \in [DOMAIN blocks -> Seq(Nat)] /\ memory \in [DOMAIN blocks -> Nat]
        /\ asm \in Seq(Lines)
    BY ProceduresAreBlocks DEF AssignSlot, LayoutInv, PlaceOK, SlotsOK, OutputInv, Loops, Current
  <2>3. Lines' = Lines /\ Procedures' = Procedures /\ (\A p : Reserved(p)' <=> Reserved(p))
    BY <1>2 DEF Lines, Procedures, Reserved
  <2>4. ASSUME NEW k \in 1 .. Len(asm), asm[k].op = "sub"
        PROVE  /\ asm[k].arg = memory'[asm[k].of]
               /\ \E p \in 1 .. Len(Procedures) : asm[k].of = Procedures[p] /\ Reserved(p)
    <3>1. PICK p \in 1 .. Len(Procedures) : asm[k].of = Procedures[p] /\ Reserved(p)
      BY <2>4 DEF OutputInv, FrameLine
    <3>2. p # procedure /\ Procedures[p] \in DOMAIN blocks
      BY <2>2, <3>1, ProceduresAreBlocks DEF Reserved, LayoutInv
    <3>3. asm[k].of # Current
      BY <2>2, <3>1, <3>2, ProceduresAreBlocks DEF LayoutInv
    <3>4. memory'[asm[k].of] = memory[asm[k].of]
      BY <2>1, <2>2, <3>1, <3>2, <3>3
    <3>. QED
      BY <2>4, <3>1, <3>4 DEF OutputInv, FrameLine
  <2>5. ASSUME NEW k \in 1 .. Len(asm), asm[k].op \in {"store", "load"}
        PROVE  \E i \in 1 .. Len(offset'[asm[k].of]) : offset'[asm[k].of][i] = asm[k].arg
    <3>1. PICK i \in 1 .. Len(offset[asm[k].of]) : offset[asm[k].of][i] = asm[k].arg
      BY <2>5 DEF OutputInv, IsSlot
    <3>2. asm[k].of \in DOMAIN blocks /\ offset[asm[k].of] \in Seq(Nat)
      <4>1. asm[k] \in Lines
        BY <2>2
      <4>. QED
        BY <2>2, <4>1 DEF Lines
    <3>3. CASE asm[k].of = Current
      <4>1. offset'[Current] = Append(offset[Current], place)
        BY <2>1, <2>2
      <4>2. i \in 1 .. Len(offset'[Current]) /\ offset'[Current][i] = offset[Current][i]
        BY <3>1, <3>2, <3>3, <4>1
      <4>. QED
        BY <3>1, <3>3, <4>2
    <3>4. CASE asm[k].of # Current
      BY <2>1, <2>2, <3>1, <3>2, <3>4
    <3>. QED
      BY <3>3, <3>4
  <2>6. asm' \in Seq(Lines') /\ integers' \in Nat /\ genpc' = "entry" /\ asm' = asm
    BY <1>2, <2>2, <2>3 DEF OutputInv
  <2>7. \A k \in 1 .. Len(asm') : asm'[k].op = "sub" =>
          /\ asm'[k].arg = memory'[asm'[k].of]
          /\ \E p \in 1 .. Len(Procedures)' : asm'[k].of = Procedures'[p] /\ Reserved(p)'
    BY <2>3, <2>4, <2>6
  <2>8. \A k \in 1 .. Len(asm') : asm'[k].op \in {"store", "load"} =>
          /\ \E i \in 1 .. Len(offset'[asm'[k].of]) : offset'[asm'[k].of][i] = asm'[k].arg
          /\ \E j \in 1 .. k - 1 : IsFrameOf(asm'[j], asm'[k].of)
    BY <2>5, <2>6 DEF OutputInv
  <2>. QED
    BY <2>6, <2>7, <2>8 DEF OutputInv, FrameLine, IsSlot, IsFrameOf
<1>. QED
  BY <1>1, <1>2 DEF AssignSlot, GenAbort

LEMMA ReserveFrameOutput == LayoutInv /\ OutputInv /\ ReserveFrame => OutputInv'
<1>. SUFFICES ASSUME LayoutInv, OutputInv, ReserveFrame PROVE OutputInv'
  OBVIOUS
<1>1. CASE genpc' = "assert" /\ UNCHANGED <<blocks, procedure, offset, memory, integers, asm>>
  BY <1>1, NothingWritten, ReservedStays
<1>2. CASE /\ asm' = asm \o <<Line("sub", FrameSize(Current))>>
           /\ genpc' \in {"body", "spill"}
           /\ UNCHANGED <<blocks, procedure, offset, memory, integers>>
  <2>. DEFINE line == Line("sub", memory[Current])
              lines == <<line>>
  <2>1. /\ genpc = "entry" /\ procedure \in 1 .. Len(Procedures)
        /\ Current \in DOMAIN blocks /\ Current = Procedures[procedure]
        /\ memory[Current] \in Nat /\ integers \in Nat
    BY ProceduresAreBlocks DEF ReserveFrame, LayoutInv, PlaceOK, SlotsOK, OutputInv, Loops, Current
  <2>2. line \in Lines /\ line.op = "sub" /\ line.of = Current /\ line.arg = memory[Current]
    BY <2>1, PlainLine DEF Ops, Loops
  <2>3. \A p \in 1 .. Len(Procedures) : Reserved(p) => Reserved(p)'
    BY <1>2, <2>1, ReservedStays
  <2>4. Reserved(procedure)'
    BY <1>2 DEF Reserved
  <2>. HIDE DEF line
  <2>5. lines \in Seq(Lines) /\ lines # << >> /\ lines[1] = line
        /\ \A i \in 1 .. Len(lines) : lines[i] = line
    BY <2>2
  <2>6. asm' = asm \o lines
    BY <1>2 DEF line, FrameSize
  <2>. HIDE DEF lines
  <2>. QED
    BY <1>2, <2>1, <2>2, <2>3, <2>4, <2>5, <2>6, LinesAppended DEF IsFrameOf
<1>. QED
  BY <1>1, <1>2 DEF ReserveFrame, GenAbort, Write

LEMMA StatementOutput == LayoutInv /\ OutputInv /\ CodegenStatement => OutputInv'
<1>. SUFFICES ASSUME LayoutInv, OutputInv, CodegenStatement PROVE OutputInv'
  OBVIOUS
<1>. DEFINE variables == blocks[Current].variables
            s         == blocks[Current].statements[index + 1]
            v         == variables[s]
            operands  == v.init.operands
            n         == Len(operands)
            comment   == Line("comment", CommentLength(v))
            slot      == offset[Current][operands[n - 1]]
            load      == Line("load", slot)
<1>1. /\ genpc = "body" /\ genpc' = "assert" /\ index < Len(blocks[Current].statements)
      /\ UNCHANGED <<blocks, procedure, offset, memory, integers>>
      /\ asm' = asm \o <<comment>> \/
           (n > 1 /\ operands[n - 1] # 0 /\ asm' = asm \o <<comment, load>>)
  BY DEF CodegenStatement, Write
<1>2. /\ Current \in DOMAIN blocks /\ WellFormedBlock(blocks[Current])
      /\ index \in Nat /\ integers \in Nat
      /\ offset[Current] \in Seq(Nat) /\ Len(offset[Current]) = Len(variables)
  BY <1>1, ProceduresAreBlocks
     DEF LayoutInv, PlaceOK, SlotsOK, OutputInv, Loops, WellFormed
<1>3. s \in 1 .. Len(variables) /\ Len(variables) \in Nat
  <2>. DEFINE statements == blocks[Current].statements
  <2>1. /\ Len(statements) \in Nat /\ DOMAIN statements = 1 .. Len(statements)
        /\ Len(variables) \in Nat /\ DOMAIN variables = 1 .. Len(variables)
        /\ \A k \in DOMAIN statements : statements[k] \in DOMAIN variables
    BY <1>2 DEF WellFormedBlock, IsSequence
  <2>2. index < Len(statements)
    BY <1>1
  <2>3. s = statements[index + 1]
    OBVIOUS
  <2>. HIDE DEF statements, variables, s
  <2>. QED
    BY <1>2, <2>1, <2>2, <2>3
<1>4. /\ v.textLength \in Int /\ n \in Nat /\ DOMAIN operands = 1 .. n
      /\ \A k \in DOMAIN operands : operands[k] \in 0 .. s - 1
  BY <1>2, <1>3 DEF WellFormedBlock, IsSequence
<1>5. comment \in Lines /\ comment.op = "comment"
  <2>1. CommentLength(v) \in Nat
    <3>. HIDE DEF v
    <3>. QED
      BY <1>4, RestOfFileAssumption DEF CommentLength
  <2>. QED
    BY <1>1, <2>1, PlainLine DEF Ops, Loops
<1>6. \A p \in 1 .. Len(Procedures) : Reserved(p) => Reserved(p)'
  BY <1>1, ReservedStays
<1>. HIDE DEF comment
<1>7. CASE asm' = asm \o <<comment>>
  <2>. DEFINE lines == <<comment>>
  <2>1. lines \in Seq(Lines) /\ \A i \in 1 .. Len(lines) : lines[i] = comment
    BY <1>5
  <2>2. asm' = asm \o lines
    BY <1>7
  <2>. HIDE DEF lines
  <2>. QED
    BY <1>1, <1>2, <1>5, <1>6, <2>1, <2>2, PlainLines
<1>8. CASE n > 1 /\ operands[n - 1] # 0 /\ asm' = asm \o <<comment, load>>
  <2>1. operands[n - 1] \in 1 .. Len(offset[Current])
    <3>1. n - 1 \in DOMAIN operands
      <4>. HIDE DEF operands
      <4>. QED
        BY <1>4, <1>8
    <3>2. operands[n - 1] \in 0 .. s - 1
      BY <1>4, <3>1
    <3>. HIDE DEF operands, s
    <3>. QED
      BY <1>2, <1>3, <1>8, <3>2
  <2>2. slot \in Nat /\ IsSlot(Current, slot)
    <3>. HIDE DEF operands
    <3>. QED
      BY <1>2, <2>1 DEF IsSlot
  <2>. HIDE DEF slot
  <2>3. load \in Lines /\ load.op = "load" /\ load.of = Current /\ load.arg = slot
    BY <1>1, <2>2, PlainLine DEF Ops, Loops
  <2>. HIDE DEF load
  <2>. DEFINE lines == <<comment, load>>
  <2>4. lines \in Seq(Lines) /\ \A i \in 1 .. Len(lines) : lines[i] \in {comment, load}
    BY <1>5, <2>3
  <2>5. asm' = asm \o lines
    BY <1>8
  <2>. HIDE DEF lines
  <2>. QED
    BY <1>1, <1>2, <1>5, <1>6, <2>2, <2>3, <2>4, <2>5, LinesAppended
<1>. QED
  BY <1>1, <1>7, <1>8

LEMMA PrologueOutput == LayoutInv /\ OutputInv /\ CodegenAST => OutputInv'
<1>. SUFFICES ASSUME LayoutInv, OutputInv, CodegenAST PROVE OutputInv'
  OBVIOUS
<1>1. genpc = "idle" /\ UNCHANGED <<blocks, offset, memory>>
  BY DEF CodegenAST, GenAbort
<1>2. CASE genpc' = "unopened" /\ UNCHANGED <<procedure, integers, asm>>
  BY <1>1, <1>2, NothingWritten, ReservedStays
<1>. DEFINE section == [op |-> "section", arg |-> 0, reg |-> "RSP", of |-> 1]
            include == [op |-> "include", arg |-> 0, reg |-> "RSP", of |-> 1]
            lines   == <<section, include>>
<1>3. CASE asm' = asm \o lines /\ NextProcedure
  <2>1. 1 \in DOMAIN blocks
    BY DEF LayoutInv, WellFormed, IsSequence
  <2>2. section \in Lines /\ include \in Lines
    BY <2>1 DEF Lines, Ops, Register
  <2>3. lines \in Seq(Lines)
    <3>. HIDE DEF section, include
    <3>. QED
      BY <2>2
  <2>4. \A i \in 1 .. Len(lines) : lines[i].op \notin {"sub", "store", "load"}
    OBVIOUS
  <2>5. integers' \in Nat /\ genpc' \notin {"spill", "body"}
    BY <1>3 DEF NextProcedure
  <2>6. asm' = asm \o lines
    BY <1>3
  <2>. HIDE DEF lines
  <2>. QED
    BY <1>1, <1>3, <2>3, <2>4, <2>5, <2>6, ReservedStays, PlainLines
<1>. QED
  BY <1>2, <1>3 DEF CodegenAST, GenAbort, Write

LEMMA StartOutput == LayoutInv /\ OutputInv /\ StartProcedure => OutputInv'
<1>. SUFFICES ASSUME LayoutInv, OutputInv, StartProcedure PROVE OutputInv'
  OBVIOUS
<1>1. /\ genpc = "label" /\ genpc' = "entry" /\ integers' \in Nat
      /\ UNCHANGED <<blocks, procedure, offset, memory>>
  BY DEF StartProcedure, OutputInv
<1>. DEFINE first  == Line("global", 0)
            second == Line("label", 0)
            lines  == <<first, second>>
<1>2. /\ first \in Lines /\ first.op = "global"
      /\ second \in Lines /\ second.op = "label"
  BY <1>1, PlainLine DEF Ops, Loops
<1>. HIDE DEF first, second
<1>3. lines \in Seq(Lines) /\ \A i \in 1 .. Len(lines) : lines[i] \in {first, second}
  BY <1>2
<1>4. asm' = asm \o lines
  BY DEF StartProcedure, Write, first, second
<1>. HIDE DEF lines
<1>. QED
  BY <1>1, <1>2, <1>3, <1>4, ReservedStays, PlainLines

LEMMA EndOutput == LayoutInv /\ OutputInv /\ EndProcedure => OutputInv'
<1>. SUFFICES ASSUME LayoutInv, OutputInv, EndProcedure PROVE OutputInv'
  OBVIOUS
<1>1. /\ genpc = "body" /\ genpc' \notin {"spill", "body"} /\ integers' \in Nat
      /\ NextProcedure /\ UNCHANGED <<blocks, offset, memory>>
  BY DEF EndProcedure, NextProcedure
<1>2. PICK op \in {"exit", "ret"} : asm' = asm \o <<Line(op, 0)>>
  BY DEF EndProcedure, Write, Return
<1>. DEFINE line  == Line(op, 0)
            lines == <<line>>
<1>3. line \in Lines /\ line.op = op
  BY <1>1, PlainLine DEF Ops, Loops
<1>. HIDE DEF line
<1>4. lines \in Seq(Lines) /\ \A i \in 1 .. Len(lines) : lines[i] = line
  BY <1>3
<1>5. asm' = asm \o lines
  BY <1>2 DEF line
<1>. HIDE DEF lines
<1>. QED
  BY <1>1, <1>2, <1>3, <1>4, <1>5, ReservedStays, PlainLines

LEMMA NextOutput == LayoutInv /\ OutputInv /\ [Next]_genvars => OutputInv'
<1>. SUFFICES ASSUME LayoutInv, OutputInv, [Next]_genvars PROVE OutputInv'
  OBVIOUS
<1>1. CASE ArgumentsSpilled
  BY <1>1, NothingWritten, ReservedStays DEF ArgumentsSpilled
<1>2. CASE WriteFile
  BY <1>2, NothingWritten, ReservedStays DEF WriteFile, GenAbort
<1>3. CASE UNCHANGED genvars
  <2>1. \A p : Reserved(p) => Reserved(p)'
    BY <1>3 DEF genvars, Reserved
  <2>. QED
    BY <1>3, <2>1, NothingWritten DEF genvars
<1>. QED
  BY <1>1, <1>2, <1>3, PrologueOutput, StartOutput, AssignSlotOutput, ReserveFrameOutput,
     SpillOutput, StatementOutput, EndOutput
     DEF Next, GenStep, GenTerminated

LEMMA FreshOutput == Fresh => OutputInv
BY DEF Fresh, OutputInv

LEMMA FrameInvariant == Spec => [](LayoutInv /\ OutputInv)
<1>. QED
  BY InitIsFresh, FreshLayout, FreshOutput, NextLayout, NextOutput, PTL DEF Spec

LEMMA AccessesHold == LayoutInv /\ OutputInv => AccessesInsideFrame
<1>. SUFFICES ASSUME LayoutInv, OutputInv, NEW k \in DOMAIN asm,
                     asm[k].op \in {"store", "load"}
              PROVE  LET b == asm[k].of
                     IN  /\ \E j \in 1 .. k - 1 : asm[j].op = "sub" /\ asm[j].of = b
                                                    /\ asm[k].arg + 8 <= asm[j].arg
                         /\ \E i \in DOMAIN offset[b] : offset[b][i] = asm[k].arg
                         /\ \A i \in DOMAIN offset[b] :
                              \/ offset[b][i] = asm[k].arg
                              \/ offset[b][i] + Size(b, i) <= asm[k].arg
                              \/ asm[k].arg + 8 <= offset[b][i]
  BY DEF AccessesInsideFrame
<1>. DEFINE b == asm[k].of
            a == asm[k].arg
<1>1. asm \in Seq(Lines) /\ k \in 1 .. Len(asm) /\ asm[k] \in Lines
  BY DEF OutputInv
<1>2. b \in DOMAIN blocks
  BY <1>1 DEF Lines
<1>3. /\ offset[b] \in Seq(Nat) /\ memory[b] \in Nat /\ memory[b] % 8 = 0
      /\ LayoutOK(b) /\ DOMAIN offset[b] = 1 .. Len(offset[b])
  BY <1>2 DEF LayoutInv, SlotsOK, LayoutOK
<1>4. PICK i \in 1 .. Len(offset[b]) : offset[b][i] = a
  BY <1>1 DEF OutputInv, IsSlot
<1>5. PICK j \in 1 .. k - 1 : asm[j].op = "sub" /\ asm[j].of = b
  BY <1>1 DEF OutputInv, IsFrameOf
<1>6. asm[j].arg = memory[b]
  BY <1>1, <1>5 DEF OutputInv, FrameLine
<1>7. ASSUME NEW h \in 1 .. Len(offset[b])
      PROVE  /\ Size(b, h) \in Nat \ {0} /\ offset[b][h] \in Nat
             /\ offset[b][h] % 8 = 0
  <2>1. blocks[b].variables[h].type \in 1 .. Len(Types)
    BY <1>3, <1>7 DEF LayoutOK
  <2>2. Size(b, h) \in Nat \ {0}
    BY <2>1, SizeIsPositive DEF Size
  <2>3. offset[b][h] \in Nat /\ offset[b][h] % 8 = 0
    BY <1>3, <1>7 DEF LayoutOK
  <2>. QED
    BY <2>2, <2>3
<1>8. ASSUME NEW m \in Nat, m % 8 = 0, a + Size(b, i) <= m PROVE a + 8 <= m
  <2>1. a \in Nat /\ a % 8 = 0 /\ Size(b, i) \in Nat \ {0}
    BY <1>4, <1>7
  <2>2. a < m
    <3>. HIDE DEF a
    <3>. QED
      BY <2>1, <1>8
  <2>. HIDE DEF a
  <2>. QED
    BY <2>1, <2>2, <1>8
<1>9. a + 8 <= memory[b]
  BY <1>3, <1>4, <1>8 DEF LayoutOK
<1>10. ASSUME NEW h \in 1 .. Len(offset[b]), h # i
       PROVE  offset[b][h] + Size(b, h) <= a \/ a + 8 <= offset[b][h]
  <2>1. CASE h < i
    BY <1>3, <1>4, <2>1 DEF LayoutOK
  <2>2. CASE i < h
    BY <1>3, <1>4, <1>7, <1>8, <2>2 DEF LayoutOK
  <2>. QED
    BY <1>10, <2>1, <2>2
<1>. QED
  BY <1>3, <1>4, <1>5, <1>6, <1>9, <1>10

(***************************************************************************)
(* Whatever the tree, each argument copied to the frame and each variable  *)
(* loaded from it (CodegenProcedure, CodegenBinop) is eight bytes inside   *)
(* the frame its procedure reserved before, and no other variable's.       *)
(***************************************************************************)
THEOREM AccessesCorrect == Spec => []AccessesInsideFrame
<1>. QED
  BY AccessesHold, FrameInvariant, PTL
-----------------------------------------------------------------------------
(***************************************************************************)
(* Control.  A procedure's first line comes behind the prologue or the     *)
(* last line of the one before, for that is where the generator is when it *)
(* comes to a procedure.                                                   *)
(***************************************************************************)
Ends == {"include", "ret", "exit"}

ControlInv ==
  /\ \A k \in 1 .. Len(asm) : asm[k].op = "global" => k > 1 /\ asm[k - 1].op \in Ends
  /\ genpc = "label" => Len(asm) > 0 /\ asm[Len(asm)].op \in Ends

LEMMA ControlAppended ==
  ASSUME OutputInv, ControlInv, NEW T, NEW lines \in Seq(T), asm' = asm \o lines,
         \A i \in 1 .. Len(lines) : lines[i].op = "global" => i = 1 /\ genpc = "label",
         genpc' = "label" => Len(lines) > 0 /\ lines[Len(lines)].op \in Ends
  PROVE  ControlInv'
<1>. DEFINE S == Lines \cup T
<1>1. asm \in Seq(S) /\ lines \in Seq(S)
  <2>1. asm \in Seq(Lines)
    BY DEF OutputInv
  <2>. HIDE DEF Lines
  <2>. QED
    BY <2>1
<1>. HIDE DEF S
<1>2. /\ Len(asm') = Len(asm) + Len(lines)
      /\ \A i \in 1 .. Len(asm) : asm'[i] = asm[i]
      /\ \A i \in 1 .. Len(asm') :
           i > Len(asm) => i - Len(asm) \in 1 .. Len(lines) /\ asm'[i] = lines[i - Len(asm)]
      /\ Len(asm) \in Nat /\ Len(lines) \in Nat
  BY <1>1, Appended
<1>3. ASSUME NEW k \in 1 .. Len(asm'), asm'[k].op = "global"
      PROVE  k > 1 /\ asm'[k - 1].op \in Ends
  <2>1. CASE k <= Len(asm)
    <3>1. k \in 1 .. Len(asm) /\ asm'[k] = asm[k]
      BY <1>2, <2>1
    <3>2. k > 1 /\ asm[k - 1].op \in Ends
      BY <1>3, <3>1 DEF ControlInv
    <3>. QED
      BY <1>2, <3>1, <3>2
  <2>2. CASE k > Len(asm)
    <3>1. k - Len(asm) = 1 /\ genpc = "label"
      BY <1>2, <1>3, <2>2
    <3>2. Len(asm) > 0 /\ asm[Len(asm)].op \in Ends
      BY <3>1 DEF ControlInv
    <3>. QED
      BY <1>2, <3>1, <3>2
  <2>. QED
    BY <1>2, <2>1, <2>2
<1>4. genpc' = "label" => Len(asm') > 0 /\ asm'[Len(asm')].op \in Ends
  <2>. SUFFICES ASSUME genpc' = "label" PROVE Len(asm') > 0 /\ asm'[Len(asm')].op \in Ends
    OBVIOUS
  <2>1. Len(lines) > 0 /\ lines[Len(lines)].op \in Ends
    OBVIOUS
  <2>2. Len(asm') \in 1 .. Len(asm') /\ Len(asm') > Len(asm) /\ Len(asm') - Len(asm) = Len(lines)
    BY <1>2, <2>1
  <2>. QED
    BY <1>2, <2>1, <2>2
<1>. QED
  BY <1>3, <1>4 DEF ControlInv

LEMMA NextControl == OutputInv /\ ControlInv /\ [Next]_genvars => ControlInv'
<1>. SUFFICES ASSUME OutputInv, ControlInv, [Next]_genvars PROVE ControlInv'
  OBVIOUS
<1>. DEFINE Kept == UNCHANGED asm /\ (genpc' = "label" => genpc = "label")
<1>1. ASSUME Kept PROVE ControlInv'
  BY <1>1 DEF ControlInv
<1>2. ASSUME NEW x, NEW y, asm' = asm \o <<x, y>>, y.op # "global",
             x.op = "global" => genpc = "label",
             genpc' = "label" => y.op \in Ends
      PROVE  ControlInv'
  <2>. DEFINE lines == <<x, y>>
  <2>1. /\ lines \in Seq({x, y}) /\ Len(lines) = 2 /\ lines[1] = x /\ lines[2] = y
        /\ asm' = asm \o lines
    BY <1>2
  <2>. HIDE DEF lines
  <2>2. \A i \in 1 .. Len(lines) : lines[i].op = "global" => i = 1 /\ genpc = "label"
    BY <1>2, <2>1
  <2>3. genpc' = "label" => Len(lines) > 0 /\ lines[Len(lines)].op \in Ends
    BY <1>2, <2>1
  <2>. QED
    BY <2>1, <2>2, <2>3, ControlAppended
<1>3. ASSUME NEW x, asm' = asm \o <<x>>, x.op # "global", genpc' = "label" => x.op \in Ends
      PROVE  ControlInv'
  <2>. DEFINE lines == <<x>>
  <2>1. lines \in Seq({x}) /\ Len(lines) = 1 /\ lines[1] = x /\ asm' = asm \o lines
    BY <1>3
  <2>. HIDE DEF lines
  <2>2. \A i \in 1 .. Len(lines) : lines[i].op = "global" => i = 1 /\ genpc = "label"
    BY <1>3, <2>1
  <2>. QED
    BY <1>3, <2>1, <2>2, ControlAppended
<1>4. CASE CodegenAST
  <2>1. CASE genpc' = "unopened" /\ UNCHANGED asm
    BY <1>1, <2>1
  <2>2. CASE asm' = asm \o <<[op |-> "section", arg |-> 0, reg |-> "RSP", of |-> 1],
                             [op |-> "include", arg |-> 0, reg |-> "RSP", of |-> 1]>>
    BY <1>2, <2>2 DEF Ends
  <2>. QED
    BY <1>4, <2>1, <2>2 DEF CodegenAST, GenAbort, Write
<1>5. CASE StartProcedure
  <2>. DEFINE x == Line("global", 0)
              y == Line("label", 0)
  <2>1. x.op = "global" /\ y.op = "label"
    BY DEF Line
  <2>2. asm' = asm \o <<x, y>> /\ genpc = "label" /\ genpc' = "entry"
    BY <1>5 DEF StartProcedure, Write
  <2>. HIDE DEF x, y
  <2>. QED
    BY <1>2, <2>1, <2>2
<1>6. CASE AssignSlot
  BY <1>1, <1>6 DEF AssignSlot, GenAbort
<1>7. CASE ReserveFrame
  <2>1. CASE UNCHANGED asm
    BY <1>1, <1>7, <2>1 DEF ReserveFrame, GenAbort
  <2>2. CASE asm' = asm \o <<Line("sub", FrameSize(Current))>>
    BY <1>3, <1>7, <2>2 DEF ReserveFrame, GenAbort, Line
  <2>. QED
    BY <1>7, <2>1, <2>2 DEF ReserveFrame, GenAbort, Write
<1>8. CASE SpillArgument
  <2>1. CASE UNCHANGED asm /\ genpc' \in {"assert", "fault"}
    BY <1>1, <2>1
  <2>2. CASE /\ \E reg : asm' = asm \o <<Store(reg, offset[Current][index + 1])>>
             /\ genpc' = genpc /\ genpc = "spill"
    BY <1>3, <2>2 DEF Store
  <2>. QED
    BY <1>8, <2>1, <2>2 DEF SpillArgument, GenAbort, Write
<1>9. CASE ArgumentsSpilled
  BY <1>1, <1>9 DEF ArgumentsSpilled
<1>10. CASE CodegenStatement
  <2>1. genpc' = "assert"
    BY <1>10 DEF CodegenStatement
  <2>2. \/ \E n : asm' = asm \o <<Line("comment", n)>>
        \/ \E n, slot : asm' = asm \o <<Line("comment", n), Line("load", slot)>>
    BY <1>10 DEF CodegenStatement, Write
  <2>3. \A n : Line("comment", n).op = "comment" /\ Line("load", n).op = "load"
    BY DEF Line
  <2>4. CASE \E n : asm' = asm \o <<Line("comment", n)>>
    BY <1>3, <2>1, <2>3, <2>4
  <2>5. CASE \E n, slot : asm' = asm \o <<Line("comment", n), Line("load", slot)>>
    BY <1>2, <2>1, <2>3, <2>5
  <2>. QED
    BY <2>2, <2>4, <2>5
<1>11. CASE EndProcedure
  <2>1. PICK op \in {"exit", "ret"} : asm' = asm \o <<Line(op, 0)>>
    BY <1>11 DEF EndProcedure, Write, Return
  <2>. QED
    BY <1>3, <2>1 DEF Line, Ends
<1>12. CASE WriteFile
  BY <1>1, <1>12 DEF WriteFile, GenAbort
<1>13. CASE UNCHANGED genvars
  BY <1>1, <1>13 DEF genvars
<1>. QED
  BY <1>4, <1>5, <1>6, <1>7, <1>8, <1>9, <1>10, <1>11, <1>12, <1>13
     DEF Next, GenStep, GenTerminated

(***************************************************************************)
(* Whatever the tree and however the generator ends, no procedure runs on  *)
(* into the next: each label follows a return or an exit, or the prologue  *)
(* (CodegenProcedure).                                                     *)
(***************************************************************************)
THEOREM ControlStaysInside == Spec => []NoFallThrough
<1>1. Fresh => ControlInv
  BY DEF Fresh, ControlInv
<1>2. OutputInv /\ ControlInv => NoFallThrough
  BY DEF OutputInv, ControlInv, NoFallThrough, Ends
<1>. QED
  BY <1>1, <1>2, InitIsFresh, FreshLayout, FreshOutput, NextLayout, NextOutput, NextControl,
     PTL DEF Spec
-----------------------------------------------------------------------------
(***************************************************************************)
(* Arguments.  While a procedure's arguments are copied, the lines since   *)
(* its frame was reserved are the stores of those counted so far; no other *)
(* procedure adds to them, and what was stored of a procedure that has     *)
(* returned stays.                                                         *)
(***************************************************************************)
StoredIn(text, places, b, n, j) ==
  /\ j \in 1 .. Len(text) /\ IsFrameOf(text[j], b) /\ j + n <= Len(text)
  /\ \A i \in 1 .. n :
       text[j + i] = [op |-> "store", arg |-> places[b][i],
                      reg |-> SYSTEMV_CALL_INT_REGISTERS[i], of |-> b]
  /\ \A k \in 1 .. Len(text) : IsStoreOf(text[k], b) => k \in j + 1 .. j + n

Inputs(b) == blocks[b].inputCount

SpillInv ==
  /\ genpc \in {"label", "entry"} => integers = 0
  /\ genpc = "spill" =>
       /\ integers = index /\ index <= Inputs(Current) /\ ~IsMain
       /\ Inputs(Current) <= 6 => StoredIn(asm, offset, Current, index, Len(asm) - index)
  /\ genpc = "body" /\ ~IsMain /\ Inputs(Current) <= 6 =>
       \E j \in Nat : StoredIn(asm, offset, Current, Inputs(Current), j)

ReturnInv ==
  \A k \in 1 .. Len(asm) : asm[k].op = "ret" =>
    \E p \in 1 .. Len(Procedures) :
      /\ p < procedure /\ asm[k].of = Procedures[p]
      /\ Inputs(asm[k].of) <= 6 =>
           \E j \in Nat : StoredIn(asm, offset, asm[k].of, Inputs(asm[k].of), j)

LEMMA StoredKept ==
  ASSUME NEW S, NEW text \in Seq(S), NEW lines \in Seq(S), NEW places, NEW later,
         NEW b, NEW n \in Nat, NEW j \in Nat, later[b] = places[b],
         \A i \in 1 .. Len(lines) : ~IsStoreOf(lines[i], b),
         StoredIn(text, places, b, n, j)
  PROVE  StoredIn(text \o lines, later, b, n, j)
<1>. DEFINE new == text \o lines
<1>1. /\ Len(new) = Len(text) + Len(lines) /\ Len(text) \in Nat /\ Len(lines) \in Nat
      /\ \A i \in 1 .. Len(text) : new[i] = text[i]
      /\ \A i \in 1 .. Len(new) :
           i > Len(text) => i - Len(text) \in 1 .. Len(lines) /\ new[i] = lines[i - Len(text)]
  BY Appended
<1>. HIDE DEF new
<1>2. j \in 1 .. Len(text) /\ IsFrameOf(text[j], b) /\ j + n <= Len(text)
  BY DEF StoredIn
<1>3. j \in 1 .. Len(new) /\ IsFrameOf(new[j], b) /\ j + n <= Len(new)
  BY <1>1, <1>2
<1>4. ASSUME NEW i \in 1 .. n
      PROVE  new[j + i] = [op |-> "store", arg |-> later[b][i],
                           reg |-> SYSTEMV_CALL_INT_REGISTERS[i], of |-> b]
  <2>1. j + i \in 1 .. Len(text)
    BY <1>1, <1>2
  <2>. QED
    BY <1>1, <2>1 DEF StoredIn
<1>5. ASSUME NEW k \in 1 .. Len(new), IsStoreOf(new[k], b) PROVE k \in j + 1 .. j + n
  <2>1. CASE k <= Len(text)
    <3>1. k \in 1 .. Len(text) /\ new[k] = text[k]
      BY <1>1, <2>1
    <3>. QED
      BY <1>5, <3>1 DEF StoredIn
  <2>2. CASE k > Len(text)
    BY <1>1, <1>5, <2>2
  <2>. QED
    BY <1>1, <2>1, <2>2
<1>6. StoredIn(new, later, b, n, j)
  BY <1>3, <1>4, <1>5 DEF StoredIn
<1>. QED
  BY <1>6 DEF new

LEMMA StoredFirst ==
  ASSUME NEW S, NEW text \in Seq(S), NEW line \in S, NEW places, NEW b,
         \A k \in 1 .. Len(text) : ~IsStoreOf(text[k], b), IsFrameOf(line, b)
  PROVE  StoredIn(text \o <<line>>, places, b, 0, Len(text) + 1)
<1>. DEFINE new == text \o <<line>>
<1>1. /\ Len(new) = Len(text) + 1 /\ Len(text) \in Nat
      /\ \A i \in 1 .. Len(text) : new[i] = text[i]
      /\ new[Len(text) + 1] = line
  OBVIOUS
<1>. HIDE DEF new
<1>2. ASSUME NEW k \in 1 .. Len(new) PROVE ~IsStoreOf(new[k], b)
  <2>1. CASE k \in 1 .. Len(text)
    BY <1>1, <2>1
  <2>2. CASE k = Len(text) + 1
    BY <1>1, <2>2 DEF IsStoreOf, IsFrameOf
  <2>. QED
    BY <1>1, <2>1, <2>2
<1>3. StoredIn(new, places, b, 0, Len(text) + 1)
  BY <1>1, <1>2 DEF StoredIn
<1>. QED
  BY <1>3 DEF new

LEMMA StoredNext ==
  ASSUME NEW S, NEW text \in Seq(S), NEW line \in S, NEW places, NEW b, NEW n \in Nat,
         StoredIn(text, places, b, n, Len(text) - n),
         line = [op |-> "store", arg |-> places[b][n + 1],
                 reg |-> SYSTEMV_CALL_INT_REGISTERS[n + 1], of |-> b]
  PROVE  StoredIn(text \o <<line>>, places, b, n + 1, Len(text) - n)
<1>. DEFINE new == text \o <<line>>
            j   == Len(text) - n
<1>1. /\ Len(new) = Len(text) + 1 /\ Len(text) \in Nat
      /\ \A i \in 1 .. Len(text) : new[i] = text[i]
      /\ new[Len(text) + 1] = line
  OBVIOUS
<1>2. j \in 1 .. Len(text) /\ IsFrameOf(text[j], b)
  BY DEF StoredIn
<1>. HIDE DEF new
<1>3. j \in 1 .. Len(new) /\ IsFrameOf(new[j], b) /\ j + (n + 1) <= Len(new)
  BY <1>1, <1>2
<1>4. ASSUME NEW i \in 1 .. n + 1
      PROVE  new[j + i] = [op |-> "store", arg |-> places[b][i],
                           reg |-> SYSTEMV_CALL_INT_REGISTERS[i], of |-> b]
  <2>1. CASE i = n + 1
    <3>1. j + i = Len(text) + 1
      BY <1>1, <2>1
    <3>. QED
      BY <1>1, <2>1, <3>1
  <2>2. CASE i \in 1 .. n
    <3>1. j + i \in 1 .. Len(text)
      BY <1>1, <1>2, <2>2
    <3>2. new[j + i] = text[j + i]
      BY <1>1, <3>1
    <3>. QED
      BY <2>2, <3>2 DEF StoredIn
  <2>. QED
    BY <2>1, <2>2
<1>5. ASSUME NEW k \in 1 .. Len(new), IsStoreOf(new[k], b) PROVE k \in j + 1 .. j + (n + 1)
  <2>1. CASE k \in 1 .. Len(text)
    <3>1. k \in j + 1 .. j + n
      BY <1>1, <1>5, <2>1 DEF StoredIn
    <3>. QED
      BY <1>1, <3>1
  <2>2. CASE k = Len(text) + 1
    BY <1>1, <1>2, <2>2
  <2>. QED
    BY <1>1, <2>1, <2>2
<1>6. StoredIn(new, places, b, n + 1, j)
  BY <1>3, <1>4, <1>5 DEF StoredIn
<1>. QED
  BY <1>6 DEF new

(* The stores of a procedure begin after its frame has been reserved.      *)
LEMMA NoStoreBefore ==
  ASSUME LayoutInv, OutputInv, genpc \in {"label", "entry"}
  PROVE  \A k \in 1 .. Len(asm) : ~IsStoreOf(asm[k], Current)
<1>. SUFFICES ASSUME NEW k \in 1 .. Len(asm), IsStoreOf(asm[k], Current) PROVE FALSE
  OBVIOUS
<1>1. PICK j \in 1 .. k - 1 : IsFrameOf(asm[j], Current)
  BY DEF OutputInv, IsStoreOf
<1>2. j \in 1 .. Len(asm)
  BY DEF OutputInv
<1>3. PICK p \in 1 .. Len(Procedures) : asm[j].of = Procedures[p] /\ Reserved(p)
  BY <1>1, <1>2 DEF OutputInv, FrameLine, IsFrameOf
<1>4. procedure \in 1 .. Len(Procedures) /\ Current = Procedures[procedure]
  BY DEF LayoutInv, PlaceOK, Loops, Current
<1>5. p = procedure
  BY <1>1, <1>3, <1>4, ProceduresAreBlocks DEF LayoutInv, IsFrameOf
<1>. QED
  BY <1>3, <1>4, <1>5 DEF Reserved

LEMMA ReturnAppended ==
  ASSUME LayoutInv, OutputInv, ReturnInv, UNCHANGED blocks,
         NEW T, NEW lines \in Seq(T), asm' = asm \o lines, procedure' >= procedure,
         procedure' \in Nat,
         \A p \in 1 .. Len(Procedures) :
           p < procedure => offset'[Procedures[p]] = offset[Procedures[p]],
         \A i \in 1 .. Len(lines) :
           lines[i].op = "store" => genpc \in Loops /\ lines[i].of = Current,
         \A i \in 1 .. Len(lines) : lines[i].op = "ret" =>
           /\ genpc \in Loops /\ procedure' = procedure + 1 /\ lines[i].of = Current
           /\ UNCHANGED offset
           /\ \A h \in 1 .. Len(lines) : lines[h].op # "store"
           /\ Inputs(Current) <= 6 =>
                \E j \in Nat : StoredIn(asm, offset, Current, Inputs(Current), j)
  PROVE  ReturnInv'
<1>. DEFINE S == Lines \cup T
<1>1. asm \in Seq(S) /\ lines \in Seq(S) /\ Len(asm) \in Nat /\ Len(lines) \in Nat
  <2>1. asm \in Seq(Lines)
    BY DEF OutputInv
  <2>. HIDE DEF Lines
  <2>. QED
    BY <2>1
<1>. HIDE DEF S
<1>2. /\ Len(asm') = Len(asm) + Len(lines)
      /\ \A i \in 1 .. Len(asm) : asm'[i] = asm[i]
      /\ \A i \in 1 .. Len(asm') :
           i > Len(asm) => i - Len(asm) \in 1 .. Len(lines) /\ asm'[i] = lines[i - Len(asm)]
  BY <1>1, Appended
<1>3. /\ procedure \in Nat /\ Len(Procedures) \in Nat
      /\ genpc \in Loops => procedure \in 1 .. Len(Procedures) /\ Current = Procedures[procedure]
      /\ \A p \in 1 .. Len(Procedures) : Inputs(Procedures[p]) \in Nat
  <2>1. ASSUME NEW p \in 1 .. Len(Procedures) PROVE Inputs(Procedures[p]) \in Nat
    <3>1. Procedures[p] \in DOMAIN blocks
      BY ProceduresAreBlocks DEF LayoutInv
    <3>. QED
      BY <3>1 DEF LayoutInv, WellFormed, WellFormedBlock, IsSequence, Inputs
  <2>. QED
    BY <2>1, ProceduresAreBlocks DEF LayoutInv, PlaceOK, Current
(* A procedure that has returned, or returns, keeps its stores.            *)
<1>4. ASSUME NEW p \in 1 .. Len(Procedures), p < procedure \/ \A h \in 1 .. Len(lines) : lines[h].op # "store",
             offset'[Procedures[p]] = offset[Procedures[p]],
             \E j \in Nat : StoredIn(asm, offset, Procedures[p], Inputs(Procedures[p]), j)
      PROVE  \E j \in Nat : StoredIn(asm', offset', Procedures[p], Inputs(Procedures[p]), j)
  <2>1. PICK j \in Nat : StoredIn(asm, offset, Procedures[p], Inputs(Procedures[p]), j)
    BY <1>4
  <2>2. ASSUME NEW i \in 1 .. Len(lines) PROVE ~IsStoreOf(lines[i], Procedures[p])
    BY <1>3, <1>4, ProceduresAreBlocks DEF IsStoreOf, LayoutInv
  <2>. QED
    BY <1>1, <1>3, <1>4, <2>1, <2>2, StoredKept
<1>5. ASSUME NEW k \in 1 .. Len(asm'), asm'[k].op = "ret"
      PROVE  \E p \in 1 .. Len(Procedures) :
               /\ p < procedure' /\ asm'[k].of = Procedures[p]
               /\ Inputs(asm'[k].of) <= 6 =>
                    \E j \in Nat : StoredIn(asm', offset', asm'[k].of, Inputs(asm'[k].of), j)
  <2>1. CASE k <= Len(asm)
    <3>1. k \in 1 .. Len(asm) /\ asm'[k] = asm[k]
      BY <1>1, <1>2, <2>1
    <3>2. PICK p \in 1 .. Len(Procedures) :
            /\ p < procedure /\ asm[k].of = Procedures[p]
            /\ Inputs(asm[k].of) <= 6 =>
                 \E j \in Nat : StoredIn(asm, offset, asm[k].of, Inputs(asm[k].of), j)
      BY <1>5, <3>1 DEF ReturnInv
    <3>3. p < procedure'
      BY <1>3, <3>2
    <3>. QED
      BY <1>4, <3>1, <3>2, <3>3
  <2>2. CASE k > Len(asm)
    <3>1. k - Len(asm) \in 1 .. Len(lines) /\ asm'[k] = lines[k - Len(asm)]
      BY <1>2, <2>2
    <3>2. /\ genpc \in Loops /\ procedure' = procedure + 1 /\ asm'[k].of = Current
          /\ UNCHANGED offset
          /\ \A h \in 1 .. Len(lines) : lines[h].op # "store"
          /\ Inputs(Current) <= 6 =>
               \E j \in Nat : StoredIn(asm, offset, Current, Inputs(Current), j)
      BY <1>5, <3>1
    <3>3. procedure \in 1 .. Len(Procedures) /\ Current = Procedures[procedure]
          /\ procedure < procedure'
      BY <1>3, <3>2
    <3>. QED
      BY <1>4, <3>2, <3>3
  <2>. QED
    BY <1>1, <1>2, <2>1, <2>2
<1>6. Procedures' = Procedures /\ \A b : Inputs(b)' = Inputs(b)
  BY DEF Procedures, Inputs
<1>. QED
  BY <1>5, <1>6 DEF ReturnInv

LEMMA NothingReturned ==
  ASSUME LayoutInv, OutputInv, ReturnInv, UNCHANGED <<blocks, asm>>,
         procedure' >= procedure, procedure' \in Nat,
         \A p \in 1 .. Len(Procedures) :
           p < procedure => offset'[Procedures[p]] = offset[Procedures[p]]
  PROVE  ReturnInv'
<1>. DEFINE lines == << >>
<1>1. lines \in Seq({1}) /\ Len(lines) = 0
  OBVIOUS
<1>2. asm' = asm \o lines
  <2>1. asm \in Seq(Lines)
    BY DEF OutputInv
  <2>. HIDE DEF Lines
  <2>. QED
    BY <2>1
<1>. HIDE DEF lines
<1>3. \A i : i \notin 1 .. Len(lines)
  BY <1>1
<1>. QED
  BY <1>1, <1>2, <1>3, ReturnAppended

LEMMA LineReturned ==
  ASSUME LayoutInv, OutputInv, ReturnInv, UNCHANGED <<blocks, offset>>,
         NEW x, asm' = asm \o <<x>>, procedure' >= procedure, procedure' \in Nat,
         x.op = "store" => genpc \in Loops /\ x.of = Current,
         x.op = "ret" =>
           /\ genpc \in Loops /\ procedure' = procedure + 1 /\ x.of = Current
           /\ Inputs(Current) <= 6 =>
                \E j \in Nat : StoredIn(asm, offset, Current, Inputs(Current), j)
  PROVE  ReturnInv'
<1>. DEFINE lines == <<x>>
<1>1. lines \in Seq({x}) /\ Len(lines) = 1 /\ lines[1] = x /\ asm' = asm \o lines
  OBVIOUS
<1>. HIDE DEF lines
<1>2. \A i \in 1 .. Len(lines) : lines[i] = x
  BY <1>1
<1>. QED
  BY <1>1, <1>2, ReturnAppended

LEMMA LinesReturned ==
  ASSUME LayoutInv, OutputInv, ReturnInv, UNCHANGED <<blocks, offset>>,
         NEW x, NEW y, asm' = asm \o <<x, y>>, procedure' >= procedure, procedure' \in Nat,
         {x.op, y.op} \cap {"store", "ret"} = {}
  PROVE  ReturnInv'
<1>. DEFINE lines == <<x, y>>
<1>1. lines \in Seq({x, y}) /\ Len(lines) = 2 /\ lines[1] = x /\ lines[2] = y
      /\ asm' = asm \o lines
  OBVIOUS
<1>. HIDE DEF lines
<1>2. \A i \in 1 .. Len(lines) : lines[i] \in {x, y}
  BY <1>1
<1>. QED
  BY <1>1, <1>2, ReturnAppended

LEMMA SpillArguments ==
  LayoutInv /\ OutputInv /\ SpillInv /\ ReturnInv /\ SpillArgument => SpillInv' /\ ReturnInv'
<1>. SUFFICES ASSUME LayoutInv, OutputInv, SpillInv, ReturnInv, SpillArgument
              PROVE  SpillInv' /\ ReturnInv'
  OBVIOUS
<1>. DEFINE c == Current
<1>1. /\ genpc = "spill" /\ index \in Nat /\ index < Inputs(c) /\ integers = index /\ ~IsMain
      /\ procedure \in Nat /\ asm \in Seq(Lines)
      /\ Inputs(c) <= 6 => StoredIn(asm, offset, c, index, Len(asm) - index)
      /\ UNCHANGED <<blocks, procedure, offset>>
  BY DEF SpillArgument, GenAbort, SpillInv, LayoutInv, PlaceOK, OutputInv, Inputs
<1>2. c \in DOMAIN blocks /\ Inputs(c) \in Nat /\ genpc \in Loops
  <2>1. c \in DOMAIN blocks
    BY <1>1, ProceduresAreBlocks DEF LayoutInv, Loops
  <2>. QED
    BY <1>1, <2>1 DEF LayoutInv, WellFormed, WellFormedBlock, IsSequence, Inputs, Loops
<1>3. CASE genpc' \in {"assert", "fault"} /\ UNCHANGED asm
  <2>1. SpillInv'
    BY <1>3 DEF SpillInv
  <2>. QED
    BY <1>1, <1>3, <2>1, NothingReturned
<1>4. CASE \E reg \in ArgumentRegisters(integers) :
             /\ asm' = asm \o <<Store(reg, offset[c][index + 1])>>
             /\ integers' = integers + 1 /\ index' = index + 1 /\ UNCHANGED genpc
  <2>1. PICK reg \in ArgumentRegisters(integers) :
             /\ asm' = asm \o <<Store(reg, offset[c][index + 1])>>
             /\ integers' = integers + 1 /\ index' = index + 1 /\ UNCHANGED genpc
    BY <1>4
  <2>. DEFINE x == Store(reg, offset[c][index + 1])
  <2>2. x = [op |-> "store", arg |-> offset[c][index + 1], reg |-> reg, of |-> c]
    BY DEF Store
  <2>3. ReturnInv'
    <3>1. x.op = "store" /\ x.of = c /\ asm' = asm \o <<x>>
      BY <2>1, <2>2
    <3>. HIDE DEF x
    <3>. QED
      BY <1>1, <1>2, <3>1, LineReturned
  <2>4. ASSUME Inputs(c) <= 6
        PROVE  StoredIn(asm', offset, c, index + 1, Len(asm) - index) /\ Len(asm') = Len(asm) + 1
    <3>1. reg = SYSTEMV_CALL_INT_REGISTERS[index + 1]
      BY <1>1, <1>2, <2>1, <2>4 DEF ArgumentRegisters, SYSTEMV_CALL_INT_REGISTERS
    <3>. DEFINE S == Lines \cup {x}
    <3>2. asm \in Seq(S) /\ x \in S /\ asm' = asm \o <<x>>
      <4>. HIDE DEF Lines, x
      <4>1. asm \in Seq(S) /\ x \in S
        BY <1>1
      <4>2. asm' = asm \o <<x>>
        BY <2>1 DEF x
      <4>. QED
        BY <4>1, <4>2
    <3>. HIDE DEF S
    <3>3. x = [op |-> "store", arg |-> offset[c][index + 1],
               reg |-> SYSTEMV_CALL_INT_REGISTERS[index + 1], of |-> c]
      BY <2>2, <3>1
    <3>. HIDE DEF x
    <3>4. StoredIn(asm \o <<x>>, offset, c, index + 1, Len(asm) - index)
      BY <1>1, <2>4, <3>2, <3>3, StoredNext
    <3>. QED
      BY <3>2, <3>4
  <2>5. Len(asm') - index' = Len(asm) - index \/ Inputs(c) > 6
    BY <1>1, <1>2, <2>1, <2>4
  <2>6. /\ Current' = c /\ IsMain' = IsMain /\ Inputs(c)' = Inputs(c) /\ Inputs(Current)' = Inputs(c)
    BY <1>1 DEF Current, Procedures, IsMain, Inputs
  <2>. QED
    BY <1>1, <1>2, <2>1, <2>3, <2>4, <2>5, <2>6 DEF SpillInv
<1>. QED
  BY <1>1, <1>3, <1>4 DEF SpillArgument, GenAbort, Write, CountInteger

LEMMA ReserveFrameArguments ==
  LayoutInv /\ OutputInv /\ SpillInv /\ ReturnInv /\ ReserveFrame => SpillInv' /\ ReturnInv'
<1>. SUFFICES ASSUME LayoutInv, OutputInv, SpillInv, ReturnInv, ReserveFrame
              PROVE  SpillInv' /\ ReturnInv'
  OBVIOUS
<1>. DEFINE c == Current
<1>1. /\ genpc = "entry" /\ genpc \in Loops /\ integers = 0
      /\ procedure \in Nat /\ asm \in Seq(Lines)
      /\ UNCHANGED <<blocks, procedure, offset, integers>>
  BY DEF ReserveFrame, GenAbort, SpillInv, LayoutInv, PlaceOK, OutputInv, Loops
<1>2. CASE genpc' = "assert" /\ UNCHANGED asm
  <2>1. SpillInv'
    BY <1>2 DEF SpillInv
  <2>. QED
    BY <1>1, <1>2, <2>1, NothingReturned
<1>3. CASE /\ asm' = asm \o <<Line("sub", FrameSize(c))>>
           /\ index' = 0 /\ genpc' = IF IsMain THEN "body" ELSE "spill"
  <2>. DEFINE x == Line("sub", FrameSize(c))
  <2>1. x.op = "sub" /\ IsFrameOf(x, c)
    BY DEF Line, IsFrameOf
  <2>2. asm' = asm \o <<x>>
    BY <1>3
  <2>. HIDE DEF x
  <2>3. ReturnInv'
    BY <1>1, <2>1, <2>2, LineReturned
  <2>4. StoredIn(asm', offset, c, 0, Len(asm) + 1) /\ Len(asm') = Len(asm) + 1
    <3>. DEFINE S == Lines \cup {x}
    <3>1. asm \in Seq(S) /\ x \in S
      <4>. HIDE DEF Lines
      <4>. QED
        BY <1>1
    <3>. HIDE DEF S
    <3>2. StoredIn(asm \o <<x>>, offset, c, 0, Len(asm) + 1)
      BY <1>1, <2>1, <3>1, NoStoreBefore, StoredFirst
    <3>. QED
      BY <2>2, <3>1, <3>2
  <2>5. /\ Current' = c /\ IsMain' = IsMain /\ Inputs(c)' = Inputs(c)
        /\ Inputs(Current)' = Inputs(c)
    BY <1>1 DEF Current, Procedures, IsMain, Inputs
  <2>6. Inputs(c) \in Nat
    <3>1. c \in DOMAIN blocks
      BY <1>1, ProceduresAreBlocks DEF LayoutInv
    <3>. QED
      BY <3>1 DEF LayoutInv, WellFormed, WellFormedBlock, IsSequence, Inputs
  <2>7. Len(asm) + 1 = Len(asm') - index'
    <3>1. Len(asm) \in Nat
      BY <1>1
    <3>. QED
      BY <1>3, <2>4, <3>1
  <2>. QED
    BY <1>1, <1>3, <2>3, <2>4, <2>5, <2>6, <2>7 DEF SpillInv
<1>. QED
  BY <1>1, <1>2, <1>3 DEF ReserveFrame, GenAbort, Write

LEMMA NextArguments ==
  LayoutInv /\ OutputInv /\ SpillInv /\ ReturnInv /\ [Next]_genvars => SpillInv' /\ ReturnInv'
<1>. SUFFICES ASSUME LayoutInv, OutputInv, SpillInv, ReturnInv, [Next]_genvars
              PROVE  SpillInv' /\ ReturnInv'
  OBVIOUS
<1>0. procedure \in Nat /\ PlaceOK
  BY DEF LayoutInv, PlaceOK
<1>1. CASE CodegenAST
  <2>1. SpillInv'
    BY <1>1 DEF CodegenAST, GenAbort, NextProcedure, SpillInv
  <2>2. CASE UNCHANGED <<blocks, asm, procedure, offset>>
    BY <1>0, <2>1, <2>2, NothingReturned
  <2>. DEFINE x == [op |-> "section", arg |-> 0, reg |-> "RSP", of |-> 1]
              y == [op |-> "include", arg |-> 0, reg |-> "RSP", of |-> 1]
  <2>3. CASE asm' = asm \o <<x, y>> /\ NextProcedure /\ UNCHANGED <<blocks, offset>>
    <3>1. {x.op, y.op} \cap {"store", "ret"} = {}
      OBVIOUS
    <3>2. procedure' \in Nat /\ procedure' >= procedure
      BY <1>0, <2>3 DEF NextProcedure
    <3>. HIDE DEF x, y
    <3>. QED
      BY <2>1, <2>3, <3>1, <3>2, LinesReturned
  <2>. QED
    BY <1>1, <2>1, <2>2, <2>3 DEF CodegenAST, GenAbort, Write
<1>2. CASE StartProcedure
  <2>1. /\ genpc = "label" /\ genpc' = "entry" /\ asm' = asm \o <<Line("global", 0), Line("label", 0)>>
        /\ UNCHANGED <<blocks, procedure, offset, integers>>
    BY <1>2 DEF StartProcedure, Write
  <2>2. {Line("global", 0).op, Line("label", 0).op} \cap {"store", "ret"} = {}
    BY DEF Line
  <2>3. SpillInv'
    BY <2>1 DEF SpillInv
  <2>. QED
    BY <1>0, <2>1, <2>2, <2>3, LinesReturned
<1>3. CASE AssignSlot
  <2>1. /\ genpc = "entry" /\ genpc' \in {"entry", "fault"}
        /\ UNCHANGED <<blocks, asm, procedure, integers>>
        /\ \A b \in DOMAIN blocks : b # Current => offset'[b] = offset[b]
    BY <1>3 DEF AssignSlot, GenAbort, LayoutInv, SlotsOK
  <2>2. SpillInv'
    BY <2>1 DEF SpillInv
  <2>3. \A p \in 1 .. Len(Procedures) :
          p < procedure => offset'[Procedures[p]] = offset[Procedures[p]]
    <3>1. procedure \in 1 .. Len(Procedures) /\ Current = Procedures[procedure]
      BY <1>0, <2>1 DEF PlaceOK, Loops, Current
    <3>. QED
      BY <2>1, <3>1, ProceduresAreBlocks DEF LayoutInv
  <2>. QED
    BY <1>0, <2>1, <2>2, <2>3, NothingReturned
<1>4. CASE ArgumentsSpilled
  <2>1. /\ genpc = "spill" /\ index = Inputs(Current) /\ genpc' = "body"
        /\ UNCHANGED <<blocks, asm, procedure, offset, integers>>
        /\ Inputs(Current)' = Inputs(Current) /\ Current' = Current
    BY <1>4 DEF ArgumentsSpilled, Inputs, Current, Procedures
  <2>2. ASSUME Inputs(Current) <= 6
        PROVE  \E j \in Nat : StoredIn(asm, offset, Current, Inputs(Current), j)
    <3>1. StoredIn(asm, offset, Current, Inputs(Current), Len(asm) - index)
      BY <2>1, <2>2 DEF SpillInv
    <3>2. Len(asm) - index \in Nat
      BY <3>1 DEF StoredIn
    <3>. QED
      BY <3>1, <3>2
  <2>3. SpillInv'
    BY <2>1, <2>2 DEF SpillInv
  <2>. QED
    BY <1>0, <2>1, <2>3, NothingReturned
<1>5. CASE CodegenStatement
  <2>1. genpc' = "assert" /\ UNCHANGED <<blocks, procedure, offset>>
    BY <1>5 DEF CodegenStatement
  <2>2. \/ \E n : asm' = asm \o <<Line("comment", n)>>
        \/ \E n, slot : asm' = asm \o <<Line("comment", n), Line("load", slot)>>
    BY <1>5 DEF CodegenStatement, Write
  <2>3. \A n : Line("comment", n).op = "comment" /\ Line("load", n).op = "load"
    BY DEF Line
  <2>4. SpillInv'
    BY <2>1 DEF SpillInv
  <2>5. CASE \E n : asm' = asm \o <<Line("comment", n)>>
    <3>1. PICK n : asm' = asm \o <<Line("comment", n)>>
      BY <2>5
    <3>. QED
      BY <1>0, <2>1, <2>3, <2>4, <3>1, LineReturned
  <2>6. CASE \E n, slot : asm' = asm \o <<Line("comment", n), Line("load", slot)>>
    <3>1. PICK n, slot : asm' = asm \o <<Line("comment", n), Line("load", slot)>>
      BY <2>6
    <3>2. {Line("comment", n).op, Line("load", slot).op} \cap {"store", "ret"} = {}
      BY <2>3
    <3>. QED
      BY <1>0, <2>1, <2>4, <3>1, <3>2, LinesReturned
  <2>. QED
    BY <2>2, <2>5, <2>6
<1>6. CASE EndProcedure
  <2>1. /\ genpc = "body" /\ genpc \in Loops /\ NextProcedure /\ UNCHANGED <<blocks, offset>>
        /\ procedure' = procedure + 1
        /\ asm' = asm \o Return
    BY <1>6 DEF EndProcedure, Write, NextProcedure, Loops
  <2>2. SpillInv'
    BY <2>1 DEF NextProcedure, SpillInv
  <2>. DEFINE x == IF IsMain THEN Line("exit", 0) ELSE Line("ret", 0)
  <2>3. /\ asm' = asm \o <<x>> /\ x.of = Current /\ x.op # "store"
        /\ x.op = "ret" => ~IsMain
    BY <2>1 DEF Return, Line
  <2>. HIDE DEF x
  <2>. QED
    BY <1>0, <2>1, <2>2, <2>3, LineReturned DEF SpillInv
<1>7. CASE WriteFile \/ UNCHANGED genvars
  <2>1. /\ UNCHANGED <<blocks, asm, procedure, offset, index, integers>>
        /\ genpc' = "written" \/ genpc' = genpc
    BY <1>7 DEF WriteFile, GenAbort, genvars
  <2>2. SpillInv'
    BY <2>1 DEF SpillInv, Inputs, Current, Procedures, IsMain
  <2>. QED
    BY <1>0, <2>1, <2>2, NothingReturned
<1>. QED
  BY <1>1, <1>2, <1>3, <1>4, <1>5, <1>6, <1>7, ReserveFrameArguments, SpillArguments
     DEF Next, GenStep, GenTerminated

LEMMA FreshArguments == Fresh => SpillInv /\ ReturnInv
BY DEF Fresh, SpillInv, ReturnInv

LEMMA ArgumentsStay == LayoutInv /\ OutputInv /\ ReturnInv => ArgumentsInSlots
<1>. SUFFICES ASSUME LayoutInv, OutputInv, ReturnInv, NEW k \in DOMAIN asm, asm[k].op = "ret",
                     Inputs(asm[k].of) <= 6
              PROVE  ArgumentsStored(asm[k].of, Inputs(asm[k].of))
  BY DEF ArgumentsInSlots, Inputs
<1>1. asm \in Seq(Lines) /\ DOMAIN asm = 1 .. Len(asm)
  BY DEF OutputInv
<1>2. PICK j \in Nat : StoredIn(asm, offset, asm[k].of, Inputs(asm[k].of), j)
  BY <1>1 DEF ReturnInv
<1>. QED
  BY <1>1, <1>2 DEF StoredIn, ArgumentsStored, ArgumentStore, IsFrameOf

(***************************************************************************)
(* A procedure of up to six integers returns with each in its own slot,    *)
(* out of the register the caller put it in, and nothing else was copied   *)
(* to its frame (CodegenProcedure).                                        *)
(***************************************************************************)
THEOREM ArgumentsCorrect == Spec => []ArgumentsInSlots
<1>. QED
  BY InitIsFresh, FreshLayout, FreshOutput, FreshArguments, NextLayout, NextOutput,
     NextArguments, ArgumentsStay, PTL DEF Spec
-----------------------------------------------------------------------------
(***************************************************************************)
(* What the generator can make code of, and what it ends with otherwise.   *)
(***************************************************************************)
Generable(b) ==
  /\ \A i \in DOMAIN blocks[b].variables : blocks[b].variables[i].type # 0
  /\ Len(blocks[b].statements) = 0
  /\ blocks[b].name = MainName \/
       \A i \in 1 .. Inputs(b) : Types[blocks[b].variables[i].type].kind = "IntType"

FewInputs(b) == blocks[b].name = MainName \/ Inputs(b) <= 6

(* A procedure that is finished was of that kind; so is the current one as *)
(* far as the generator has come.                                          *)
GenerableInv ==
  /\ \A p \in 1 .. Len(Procedures) : p < procedure => Generable(Procedures[p])
  /\ genpc = "spill" =>
       \A i \in 1 .. index : Types[blocks[Current].variables[i].type].kind = "IntType"
  /\ genpc = "body" =>
       /\ index = 0
       /\ IsMain \/ \A i \in 1 .. Inputs(Current) :
                      Types[blocks[Current].variables[i].type].kind = "IntType"
  /\ genpc \in {"end", "written"} => procedure = Len(Procedures) + 1
  /\ genpc \in {"assert", "fault"} =>
       BufferFull \/ \E p \in 1 .. Len(Procedures) :
                       ~(Generable(Procedures[p]) /\ FewInputs(Procedures[p]))

(* Past the slots the types are known: each variable has its slot.         *)
LEMMA TypesKnown ==
  ASSUME LayoutInv, \/ genpc \in {"spill", "body"}
                    \/ genpc = "entry" /\ index = Len(blocks[Current].variables)
  PROVE  /\ DOMAIN blocks[Current].variables = 1 .. Len(blocks[Current].variables)
         /\ Inputs(Current) \in 0 .. Len(blocks[Current].variables)
         /\ \A i \in DOMAIN blocks[Current].variables :
              /\ blocks[Current].variables[i].type # 0
              /\ Types[blocks[Current].variables[i].type].kind \in {"IntType", "FloatType"}
<1>1. Current \in DOMAIN blocks
  BY ProceduresAreBlocks DEF LayoutInv, Loops
<1>2. /\ DOMAIN blocks[Current].variables = 1 .. Len(blocks[Current].variables)
      /\ Inputs(Current) \in 0 .. Len(blocks[Current].variables)
  BY <1>1 DEF LayoutInv, WellFormed, WellFormedBlock, IsSequence, Inputs
<1>3. Len(offset[Current]) = Len(blocks[Current].variables) /\ LayoutOK(Current)
  BY <1>1 DEF LayoutInv, PlaceOK, SlotsOK
<1>4. ASSUME NEW i \in DOMAIN blocks[Current].variables
      PROVE  blocks[Current].variables[i].type \in 1 .. Len(Types)
  BY <1>2, <1>3 DEF LayoutOK
<1>5. ASSUME NEW t \in 1 .. Len(Types) PROVE Types[t].kind \in {"IntType", "FloatType"} /\ t # 0
  <2>. DEFINE R == [name : STRING, size : Nat \ {0}, kind : {"IntType", "FloatType"}]
  <2>1. Types \in Seq(R)
    BY GeneratorTypesAssumption
  <2>. HIDE DEF R
  <2>2. Types[t] \in R
    BY <2>1
  <2>. QED
    BY <2>2 DEF R
<1>. QED
  BY <1>2, <1>4, <1>5

LEMMA NextGenerable ==
  LayoutInv /\ SpillInv /\ GenerableInv /\ [Next]_genvars => GenerableInv'
<1>. SUFFICES ASSUME LayoutInv, SpillInv, GenerableInv, [Next]_genvars PROVE GenerableInv'
  OBVIOUS
<1>. DEFINE c == Current
            AllGenerable == \A p \in 1 .. Len(Procedures) : p < procedure => Generable(Procedures[p])
            Kinds(n) == \A i \in 1 .. n : Types[blocks[c].variables[i].type].kind = "IntType"
            Trouble == \E p \in 1 .. Len(Procedures) :
                         ~(Generable(Procedures[p]) /\ FewInputs(Procedures[p]))
<1>0. /\ procedure \in Nat /\ index \in Nat /\ Len(Procedures) \in Nat /\ AllGenerable
      /\ genpc = "idle" => procedure = 0
      /\ genpc \in Loops => procedure \in 1 .. Len(Procedures) /\ c = Procedures[procedure]
  BY ProceduresAreBlocks DEF LayoutInv, PlaceOK, GenerableInv, Current
<1>1. UNCHANGED blocks
  BY DEF Next, GenStep, GenTerminated, genvars, CodegenAST, StartProcedure, AssignSlot, ReserveFrame,
         SpillArgument, ArgumentsSpilled, CodegenStatement, EndProcedure, WriteFile, GenAbort
<1>2. /\ Procedures' = Procedures /\ (\A b : Generable(b)' = Generable(b))
      /\ (\A b : FewInputs(b)' = FewInputs(b)) /\ (\A b : Inputs(b)' = Inputs(b))
      /\ UNCHANGED procedure => c' = c /\ IsMain' = IsMain /\ Inputs(Current)' = Inputs(c)
      /\ UNCHANGED bufferUsed => BufferFull' = BufferFull
  BY <1>1 DEF Procedures, Generable, FewInputs, Inputs, Current, IsMain, BufferFull
<1>. HIDE DEF c
(* What it takes for the generator to go on, to stop, and to end.          *)
<1>3. ASSUME UNCHANGED procedure, genpc' \in {"assert", "fault"}, BufferFull' \/ Trouble
      PROVE  GenerableInv'
  BY <1>0, <1>1, <1>2, <1>3 DEF GenerableInv
<1>4. ASSUME UNCHANGED procedure, genpc' \in {"label", "entry", "unopened"} PROVE GenerableInv'
  BY <1>0, <1>1, <1>2, <1>4 DEF GenerableInv
<1>5. ASSUME NextProcedure, procedure = 0 \/ (Generable(c) /\ genpc \in Loops) PROVE GenerableInv'
  <2>1. /\ procedure' = procedure + 1
        /\ genpc' = IF procedure = Len(Procedures) THEN "end" ELSE "label"
    BY <1>5 DEF NextProcedure
  <2>2. \A p \in 1 .. Len(Procedures) : p < procedure + 1 => Generable(Procedures[p])
    BY <1>0, <1>5
  <2>. QED
    BY <1>0, <1>2, <2>1, <2>2 DEF GenerableInv
<1>6. CASE CodegenAST
  <2>1. CASE genpc' = "unopened" /\ UNCHANGED procedure
    BY <1>4, <2>1
  <2>2. CASE NextProcedure
    <3>1. procedure = 0
      BY <1>0, <1>6 DEF CodegenAST
    <3>. QED
      BY <1>5, <2>2, <3>1
  <2>. QED
    BY <1>6, <2>1, <2>2 DEF CodegenAST, GenAbort
<1>7. CASE StartProcedure
  BY <1>4, <1>7 DEF StartProcedure
<1>8. CASE AssignSlot
  <2>1. genpc = "entry" /\ UNCHANGED <<procedure, bufferUsed>>
    BY <1>8 DEF AssignSlot, GenAbort
  <2>2. CASE genpc' = "entry"
    BY <1>4, <2>1, <2>2
  <2>3. CASE genpc' = "fault" /\ blocks[c].variables[index + 1].type = 0
    <3>1. index < Len(blocks[c].variables)
      BY <1>8 DEF AssignSlot, c
    <3>2. c \in DOMAIN blocks
      BY <2>1, ProceduresAreBlocks DEF LayoutInv, Loops, c
    <3>3. index + 1 \in DOMAIN blocks[c].variables
      BY <1>0, <3>1, <3>2 DEF LayoutInv, WellFormed, WellFormedBlock, IsSequence
    <3>4. ~Generable(c)
      BY <2>3, <3>3 DEF Generable
    <3>5. Trouble
      BY <1>0, <2>1, <3>4 DEF Loops
    <3>. QED
      BY <1>3, <2>1, <2>3, <3>5
  <2>. QED
    BY <1>8, <2>1, <2>2, <2>3 DEF AssignSlot, GenAbort, c
<1>9. CASE ReserveFrame
  <2>1. genpc = "entry" /\ UNCHANGED procedure
    BY <1>9 DEF ReserveFrame, GenAbort
  <2>2. CASE genpc' = "assert" /\ BufferFull /\ UNCHANGED bufferUsed
    BY <1>2, <1>3, <2>1, <2>2
  <2>3. CASE index' = 0 /\ genpc' = IF IsMain THEN "body" ELSE "spill"
    BY <1>0, <1>1, <1>2, <2>1, <2>3 DEF GenerableInv, c
  <2>. QED
    BY <1>9, <2>1, <2>2, <2>3 DEF ReserveFrame, GenAbort
<1>10. CASE SpillArgument
  <2>. DEFINE t == blocks[c].variables[index + 1].type
  <2>1. /\ genpc = "spill" /\ UNCHANGED procedure /\ index < Inputs(c) /\ integers = index
        /\ ~IsMain /\ Kinds(index) /\ blocks[c].name # MainName
    BY <1>10 DEF SpillArgument, GenAbort, SpillInv, GenerableInv, Inputs, IsMain, c
  <2>2. Types[t].kind \in {"IntType", "FloatType"} /\ Inputs(c) \in Nat /\ index + 1 \in 1 .. Inputs(c)
    <3>1. /\ DOMAIN blocks[c].variables = 1 .. Len(blocks[c].variables)
          /\ Inputs(c) \in 0 .. Len(blocks[c].variables)
          /\ \A i \in DOMAIN blocks[c].variables :
               Types[blocks[c].variables[i].type].kind \in {"IntType", "FloatType"}
      BY <2>1, TypesKnown DEF c
    <3>2. index + 1 \in 1 .. Inputs(c) /\ index + 1 \in DOMAIN blocks[c].variables
      BY <1>0, <2>1, <3>1
    <3>. QED
      BY <3>1, <3>2
  <2>3. CASE genpc' \in {"assert", "fault"} /\ UNCHANGED bufferUsed
             /\ (Types[t].kind = "FloatType" \/ BufferFull \/ "none" \in ArgumentRegisters(integers))
    <3>1. CASE BufferFull
      BY <1>2, <1>3, <2>1, <2>3, <3>1
    <3>2. CASE Types[t].kind = "FloatType"
      <4>1. ~Generable(c)
        BY <2>1, <2>2, <3>2 DEF Generable
      <4>. QED
        BY <1>0, <1>3, <2>1, <2>3, <4>1 DEF Loops
    <3>3. CASE "none" \in ArgumentRegisters(integers)
      <4>1. integers >= 6
        BY <1>0, <2>1, <3>3 DEF ArgumentRegisters, SYSTEMV_CALL_INT_REGISTERS
      <4>2. ~FewInputs(c)
        BY <1>0, <2>1, <2>2, <4>1 DEF FewInputs
      <4>. QED
        BY <1>0, <1>3, <2>1, <2>3, <4>2 DEF Loops
    <3>. QED
      BY <2>3, <3>1, <3>2, <3>3
  <2>4. CASE genpc' = genpc /\ index' = index + 1 /\ Types[t].kind # "FloatType"
    <3>1. ASSUME NEW i \in 1 .. index + 1
          PROVE  Types[blocks[c].variables[i].type].kind = "IntType"
      <4>1. i \in 1 .. index \/ i = index + 1
        BY <1>0
      <4>. QED
        BY <2>1, <2>2, <2>4, <4>1
    <3>. QED
      BY <1>0, <1>1, <1>2, <2>1, <2>4, <3>1 DEF GenerableInv, c
  <2>. QED
    BY <1>10, <2>3, <2>4 DEF SpillArgument, GenAbort, c
<1>11. CASE ArgumentsSpilled
  <2>1. /\ genpc = "spill" /\ UNCHANGED procedure /\ index = Inputs(c) /\ index' = 0
        /\ genpc' = "body" /\ Kinds(index)
    BY <1>11 DEF ArgumentsSpilled, GenerableInv, Inputs, c
  <2>. QED
    BY <1>0, <1>1, <1>2, <2>1 DEF GenerableInv, c
<1>12. CASE CodegenStatement
  <2>1. genpc = "body" /\ genpc' = "assert" /\ UNCHANGED procedure /\ index = 0
        /\ index < Len(blocks[c].statements)
    BY <1>12 DEF CodegenStatement, GenerableInv, c
  <2>2. ~Generable(c)
    BY <2>1 DEF Generable
  <2>. QED
    BY <1>0, <1>3, <2>1, <2>2 DEF Loops
<1>13. CASE EndProcedure
  <2>1. genpc = "body" /\ NextProcedure /\ index = 0 /\ index = Len(blocks[c].statements)
        /\ (blocks[c].name = MainName \/ Kinds(Inputs(c)))
    BY <1>13 DEF EndProcedure, GenerableInv, IsMain, c
  <2>2. \A i \in DOMAIN blocks[c].variables : blocks[c].variables[i].type # 0
    BY <2>1, TypesKnown DEF c
  <2>3. Generable(c)
    BY <2>1, <2>2 DEF Generable
  <2>. QED
    BY <1>5, <2>1, <2>3 DEF Loops
<1>14. CASE WriteFile
  BY <1>0, <1>2, <1>14 DEF WriteFile, GenAbort, GenerableInv
<1>15. CASE UNCHANGED genvars
  BY <1>0, <1>1, <1>2, <1>15 DEF genvars, GenerableInv, c
<1>. QED
  BY <1>6, <1>7, <1>8, <1>9, <1>10, <1>11, <1>12, <1>13, <1>14, <1>15
     DEF Next, GenStep, GenTerminated

LEMMA FreshGenerable == Fresh => GenerableInv
BY DEF Fresh, GenerableInv
-----------------------------------------------------------------------------
(***************************************************************************)
(* The file.  The procedures begun have a label, in their order, and those *)
(* that are finished their last line behind it.                            *)
(***************************************************************************)
IsLabel(line) == line.op = "label"

WholeIn(text, b) ==
  \E k, e \in 1 .. Len(text) :
    k < e /\ IsLabel(text[k]) /\ text[e].op \in {"exit", "ret"} /\ text[k].of = b /\ text[e].of = b

Begun(p) == p < procedure \/ (p = procedure /\ genpc # "label")

LabelInv ==
  /\ \A k \in 1 .. Len(asm) : IsLabel(asm[k]) =>
       \E p \in 1 .. Len(Procedures) : asm[k].of = Procedures[p] /\ Begun(p)
  /\ \A j, k \in 1 .. Len(asm) : IsLabel(asm[j]) /\ IsLabel(asm[k]) /\ j < k =>
       \E p, q \in 1 .. Len(Procedures) :
         asm[j].of = Procedures[p] /\ asm[k].of = Procedures[q] /\ p < q
  /\ \A p \in 1 .. Len(Procedures) : p < procedure => WholeIn(asm, Procedures[p])
  /\ genpc \in {"entry", "spill", "body"} =>
       \E k \in 1 .. Len(asm) : IsLabel(asm[k]) /\ asm[k].of = Current

LEMMA LabelsAppended ==
  ASSUME LayoutInv, OutputInv, LabelInv, UNCHANGED blocks,
         NEW T, NEW lines \in Seq(T), asm' = asm \o lines, procedure' \in Nat,
         \A p \in 1 .. Len(Procedures) : Begun(p) => Begun(p)',
         \A i \in 1 .. Len(lines) : IsLabel(lines[i]) =>
           /\ i = Len(lines) /\ lines[i].of = Current
           /\ genpc = "label" /\ genpc' = "entry" /\ UNCHANGED procedure,
         \A p \in 1 .. Len(Procedures) : p < procedure' =>
           \/ p < procedure
           \/ /\ p = procedure /\ genpc = "body"
              /\ Len(lines) = 1 /\ lines[1].op \in {"exit", "ret"} /\ lines[1].of = Current,
         genpc' \in {"entry", "spill", "body"} =>
           /\ UNCHANGED procedure
           /\ \/ genpc \in {"entry", "spill", "body"}
              \/ \E i \in 1 .. Len(lines) : IsLabel(lines[i])
  PROVE  LabelInv'
<1>. DEFINE S == Lines \cup T
<1>1. asm \in Seq(S) /\ lines \in Seq(S) /\ Len(asm) \in Nat /\ Len(lines) \in Nat
  <2>1. asm \in Seq(Lines)
    BY DEF OutputInv
  <2>. HIDE DEF Lines
  <2>. QED
    BY <2>1
<1>. HIDE DEF S
<1>2. /\ Len(asm') = Len(asm) + Len(lines)
      /\ \A i \in 1 .. Len(asm) : asm'[i] = asm[i]
      /\ \A i \in 1 .. Len(lines) : asm'[Len(asm) + i] = lines[i]
      /\ \A i \in 1 .. Len(asm') :
           i > Len(asm) => i - Len(asm) \in 1 .. Len(lines) /\ asm'[i] = lines[i - Len(asm)]
  BY <1>1, Appended
<1>3. /\ procedure \in Nat /\ Len(Procedures) \in Nat /\ Procedures' = Procedures
      /\ genpc \in Loops => procedure \in 1 .. Len(Procedures) /\ Current = Procedures[procedure]
  BY ProceduresAreBlocks DEF LayoutInv, PlaceOK, Current, Procedures
(* A line is old, or the label of the procedure the generator begins.      *)
<1>4. ASSUME NEW k \in 1 .. Len(asm'), IsLabel(asm'[k])
      PROVE  \/ k \in 1 .. Len(asm) /\ asm'[k] = asm[k]
             \/ /\ k = Len(asm') /\ k > Len(asm) /\ asm'[k].of = Procedures[procedure]
                /\ procedure \in 1 .. Len(Procedures)
                /\ genpc = "label" /\ genpc' = "entry" /\ UNCHANGED procedure
  <2>1. CASE k <= Len(asm)
    BY <1>1, <1>2, <2>1
  <2>2. CASE k > Len(asm)
    <3>1. k - Len(asm) \in 1 .. Len(lines) /\ asm'[k] = lines[k - Len(asm)]
      BY <1>2, <2>2
    <3>2. /\ k - Len(asm) = Len(lines) /\ asm'[k].of = Current
          /\ genpc = "label" /\ genpc' = "entry" /\ UNCHANGED procedure
      BY <1>4, <3>1
    <3>. QED
      BY <1>1, <1>2, <1>3, <2>2, <3>2 DEF Loops
  <2>. QED
    BY <1>1, <1>2, <2>1, <2>2
<1>5. ASSUME NEW k \in 1 .. Len(asm'), IsLabel(asm'[k])
      PROVE  \E p \in 1 .. Len(Procedures) : asm'[k].of = Procedures[p] /\ Begun(p)'
  <2>1. CASE k \in 1 .. Len(asm) /\ asm'[k] = asm[k]
    BY <1>5, <2>1 DEF LabelInv
  <2>2. CASE /\ asm'[k].of = Procedures[procedure] /\ procedure \in 1 .. Len(Procedures)
             /\ genpc' = "entry" /\ UNCHANGED procedure
    <3>1. Begun(procedure)'
      BY <2>2 DEF Begun
    <3>. QED
      BY <2>2, <3>1
  <2>. QED
    BY <1>4, <1>5, <2>1, <2>2
<1>6. ASSUME NEW j \in 1 .. Len(asm'), NEW k \in 1 .. Len(asm'),
             IsLabel(asm'[j]), IsLabel(asm'[k]), j < k
      PROVE  \E p, q \in 1 .. Len(Procedures) :
               asm'[j].of = Procedures[p] /\ asm'[k].of = Procedures[q] /\ p < q
  <2>1. j \in 1 .. Len(asm) /\ asm'[j] = asm[j]
    BY <1>1, <1>2, <1>4, <1>6
  <2>2. CASE k \in 1 .. Len(asm) /\ asm'[k] = asm[k]
    BY <1>6, <2>1, <2>2 DEF LabelInv
  <2>3. CASE /\ asm'[k].of = Procedures[procedure] /\ procedure \in 1 .. Len(Procedures)
             /\ genpc = "label"
    <3>1. PICK p \in 1 .. Len(Procedures) : asm[j].of = Procedures[p] /\ Begun(p)
      BY <1>6, <2>1 DEF LabelInv
    <3>2. p < procedure
      BY <2>3, <3>1 DEF Begun
    <3>. QED
      BY <2>1, <2>3, <3>1, <3>2
  <2>. QED
    BY <1>4, <1>6, <2>2, <2>3
<1>7. ASSUME NEW p \in 1 .. Len(Procedures), p < procedure' PROVE WholeIn(asm', Procedures[p])
  <2>1. CASE p < procedure
    <3>1. PICK k, e \in 1 .. Len(asm) :
            /\ k < e /\ IsLabel(asm[k]) /\ asm[e].op \in {"exit", "ret"}
            /\ asm[k].of = Procedures[p] /\ asm[e].of = Procedures[p]
      BY <2>1 DEF LabelInv, WholeIn
    <3>2. k \in 1 .. Len(asm') /\ e \in 1 .. Len(asm') /\ asm'[k] = asm[k] /\ asm'[e] = asm[e]
      BY <1>1, <1>2
    <3>. QED
      BY <3>1, <3>2 DEF WholeIn
  <2>2. CASE /\ p = procedure /\ genpc = "body"
             /\ Len(lines) = 1 /\ lines[1].op \in {"exit", "ret"} /\ lines[1].of = Current
    <3>1. PICK k \in 1 .. Len(asm) : IsLabel(asm[k]) /\ asm[k].of = Procedures[p]
      BY <1>3, <2>2 DEF LabelInv, Loops
    <3>2. /\ k \in 1 .. Len(asm') /\ asm'[k] = asm[k]
          /\ Len(asm') \in 1 .. Len(asm') /\ k < Len(asm') /\ asm'[Len(asm')] = lines[1]
      BY <1>1, <1>2, <2>2
    <3>. QED
      BY <1>3, <2>2, <3>1, <3>2 DEF WholeIn, Loops
  <2>. QED
    BY <1>7, <2>1, <2>2
<1>8. ASSUME genpc' \in {"entry", "spill", "body"}
      PROVE  \E k \in 1 .. Len(asm') : IsLabel(asm'[k]) /\ asm'[k].of = Current'
  <2>1. Current' = Current
    BY <1>3, <1>8 DEF Current
  <2>2. CASE genpc \in {"entry", "spill", "body"}
    <3>1. PICK k \in 1 .. Len(asm) : IsLabel(asm[k]) /\ asm[k].of = Current
      BY <2>2 DEF LabelInv
    <3>2. k \in 1 .. Len(asm') /\ asm'[k] = asm[k]
      BY <1>1, <1>2
    <3>. QED
      BY <2>1, <3>1, <3>2
  <2>3. CASE \E i \in 1 .. Len(lines) : IsLabel(lines[i])
    <3>1. PICK i \in 1 .. Len(lines) : IsLabel(lines[i]) /\ lines[i].of = Current
      BY <2>3
    <3>2. Len(asm) + i \in 1 .. Len(asm') /\ asm'[Len(asm) + i] = lines[i]
      BY <1>1, <1>2
    <3>. QED
      BY <2>1, <3>1, <3>2
  <2>. QED
    BY <1>8, <2>2, <2>3
<1>9. \A k \in 1 .. Len(asm') : IsLabel(asm'[k]) =>
        \E p \in 1 .. Len(Procedures') : asm'[k].of = Procedures'[p] /\ Begun(p)'
  BY <1>3, <1>5
<1>10. \A j, k \in 1 .. Len(asm') : IsLabel(asm'[j]) /\ IsLabel(asm'[k]) /\ j < k =>
         \E p, q \in 1 .. Len(Procedures') :
           asm'[j].of = Procedures'[p] /\ asm'[k].of = Procedures'[q] /\ p < q
  BY <1>3, <1>6
<1>. QED
  BY <1>3, <1>7, <1>8, <1>9, <1>10 DEF LabelInv

(* Steps that write no label and end no procedure.                         *)
LEMMA LabelsStay ==
  ASSUME LayoutInv, OutputInv, LabelInv, UNCHANGED <<blocks, procedure>>,
         NEW T, NEW lines \in Seq(T), asm' = asm \o lines,
         \A i \in 1 .. Len(lines) : ~IsLabel(lines[i]),
         (genpc # "label" /\ genpc' # "label") \/ UNCHANGED genpc,
         genpc' \in {"entry", "spill", "body"} => genpc \in {"entry", "spill", "body"}
  PROVE  LabelInv'
<1>1. procedure \in Nat
  BY DEF LayoutInv, PlaceOK
<1>2. \A p \in 1 .. Len(Procedures) : Begun(p) => Begun(p)'
  BY <1>1 DEF Begun
<1>. QED
  BY <1>1, <1>2, LabelsAppended

LEMMA LabelsUntouched ==
  ASSUME LayoutInv, OutputInv, LabelInv, UNCHANGED <<blocks, procedure, asm>>,
         (genpc # "label" /\ genpc' # "label") \/ UNCHANGED genpc,
         genpc' \in {"entry", "spill", "body"} => genpc \in {"entry", "spill", "body"}
  PROVE  LabelInv'
<1>. DEFINE lines == << >>
<1>1. lines \in Seq({1}) /\ Len(lines) = 0
  OBVIOUS
<1>2. asm' = asm \o lines
  <2>1. asm \in Seq(Lines)
    BY DEF OutputInv
  <2>. HIDE DEF Lines
  <2>. QED
    BY <2>1
<1>. HIDE DEF lines
<1>3. \A i \in 1 .. Len(lines) : ~IsLabel(lines[i])
  BY <1>1
<1>. QED
  BY <1>1, <1>2, <1>3, LabelsStay

LEMMA NextLabels == LayoutInv /\ OutputInv /\ LabelInv /\ [Next]_genvars => LabelInv'
<1>. SUFFICES ASSUME LayoutInv, OutputInv, LabelInv, [Next]_genvars PROVE LabelInv'
  OBVIOUS
<1>0. /\ procedure \in Nat /\ Len(Procedures) \in Nat
      /\ genpc = "idle" => procedure = 0
  BY ProceduresAreBlocks DEF LayoutInv, PlaceOK
<1>1. ASSUME NEW x, asm' = asm \o <<x>>, ~IsLabel(x), UNCHANGED <<blocks, procedure>>,
             genpc # "label", genpc' # "label",
             genpc' \in {"entry", "spill", "body"} => genpc \in {"entry", "spill", "body"}
      PROVE  LabelInv'
  <2>. DEFINE lines == <<x>>
  <2>1. lines \in Seq({x}) /\ (\A i \in 1 .. Len(lines) : lines[i] = x) /\ asm' = asm \o lines
    BY <1>1
  <2>. HIDE DEF lines
  <2>2. \A i \in 1 .. Len(lines) : ~IsLabel(lines[i])
    BY <1>1, <2>1
  <2>. QED
    BY <1>1, <2>1, <2>2, LabelsStay
<1>2. ASSUME NEW x, NEW y, asm' = asm \o <<x, y>>, ~IsLabel(x), ~IsLabel(y),
             UNCHANGED <<blocks, procedure>>, genpc # "label", genpc' = "assert"
      PROVE  LabelInv'
  <2>. DEFINE lines == <<x, y>>
  <2>1. /\ lines \in Seq({x, y}) /\ (\A i \in 1 .. Len(lines) : lines[i] \in {x, y})
        /\ asm' = asm \o lines
    BY <1>2
  <2>. HIDE DEF lines
  <2>2. \A i \in 1 .. Len(lines) : ~IsLabel(lines[i])
    BY <1>2, <2>1
  <2>. QED
    BY <1>2, <2>1, <2>2, LabelsStay
<1>3. CASE CodegenAST
  <2>1. CASE genpc' = "unopened" /\ UNCHANGED <<blocks, procedure, asm>>
    BY <1>3, <2>1, LabelsUntouched DEF CodegenAST
  <2>. DEFINE lines == <<[op |-> "section", arg |-> 0, reg |-> "RSP", of |-> 1],
                         [op |-> "include", arg |-> 0, reg |-> "RSP", of |-> 1]>>
  <2>2. CASE asm' = asm \o lines /\ NextProcedure /\ UNCHANGED blocks
    <3>1. /\ genpc = "idle" /\ procedure = 0 /\ procedure' = 1
          /\ genpc' \notin {"entry", "spill", "body"}
      BY <1>0, <1>3, <2>2 DEF CodegenAST, NextProcedure
    <3>. DEFINE T == [op : {"section", "include"}, arg : {0}, reg : {"RSP"}, of : {1}]
    <3>2. lines \in Seq(T) /\ asm' = asm \o lines
      BY <2>2
    <3>. HIDE DEF lines
    <3>3. \A i \in 1 .. Len(lines) : ~IsLabel(lines[i])
      <4>1. \A i \in 1 .. Len(lines) : lines[i] \in T
        <5>. HIDE DEF T
        <5>. QED
          BY <3>2
      <4>. QED
        BY <4>1 DEF IsLabel
    <3>. HIDE DEF T
    <3>4. \A p \in 1 .. Len(Procedures) : ~(p < procedure') /\ ~Begun(p)
      BY <3>1 DEF Begun
    <3>. QED
      BY <2>2, <3>1, <3>2, <3>3, <3>4, LabelsAppended
  <2>. QED
    BY <1>3, <2>1, <2>2 DEF CodegenAST, GenAbort, Write
<1>4. CASE StartProcedure
  <2>. DEFINE x == Line("global", 0)
              y == Line("label", 0)
  <2>1. ~IsLabel(x) /\ IsLabel(y) /\ y.of = Current
    BY DEF Line, IsLabel
  <2>2. /\ asm' = asm \o <<x, y>> /\ genpc = "label" /\ genpc' = "entry"
        /\ UNCHANGED <<blocks, procedure>>
    BY <1>4 DEF StartProcedure, Write
  <2>. HIDE DEF x, y
  <2>. DEFINE lines == <<x, y>>
  <2>3. /\ lines \in Seq({x, y}) /\ Len(lines) = 2 /\ lines[1] = x /\ lines[2] = y
        /\ asm' = asm \o lines
    BY <2>2
  <2>. HIDE DEF lines
  <2>4. \A p \in 1 .. Len(Procedures) : Begun(p) => Begun(p)'
    BY <1>0, <2>2 DEF Begun
  <2>5. \A i \in 1 .. Len(lines) :
          IsLabel(lines[i]) => i = Len(lines) /\ lines[i].of = Current
    BY <2>1, <2>3
  <2>6. \E i \in 1 .. Len(lines) : IsLabel(lines[i])
    BY <2>1, <2>3
  <2>. QED
    BY <1>0, <2>2, <2>3, <2>4, <2>5, <2>6, LabelsAppended
<1>5. CASE AssignSlot \/ ArgumentsSpilled \/ WriteFile \/ UNCHANGED genvars
  <2>1. /\ UNCHANGED <<blocks, procedure, asm>>
        /\ (genpc # "label" /\ genpc' # "label") \/ UNCHANGED genpc
        /\ genpc' \in {"entry", "spill", "body"} => genpc \in {"entry", "spill", "body"}
    BY <1>5 DEF AssignSlot, ArgumentsSpilled, WriteFile, GenAbort, genvars
  <2>. QED
    BY <2>1, LabelsUntouched
<1>6. CASE ReserveFrame
  <2>1. /\ genpc = "entry" /\ genpc' \in {"assert", "body", "spill"}
        /\ UNCHANGED <<blocks, procedure>>
        /\ UNCHANGED asm \/ asm' = asm \o <<Line("sub", FrameSize(Current))>>
    BY <1>6 DEF ReserveFrame, GenAbort, Write
  <2>2. ~IsLabel(Line("sub", FrameSize(Current)))
    BY DEF Line, IsLabel
  <2>. QED
    BY <1>1, <2>1, <2>2, LabelsUntouched
<1>7. CASE SpillArgument
  <2>1. /\ genpc = "spill" /\ genpc' \in {"assert", "fault", "spill"}
        /\ UNCHANGED <<blocks, procedure>>
        /\ UNCHANGED asm \/ \E reg : asm' = asm \o <<Store(reg, offset[Current][index + 1])>>
    BY <1>7 DEF SpillArgument, GenAbort, Write
  <2>2. \A reg : ~IsLabel(Store(reg, offset[Current][index + 1]))
    BY DEF Store, IsLabel
  <2>. QED
    BY <1>1, <2>1, <2>2, LabelsUntouched
<1>8. CASE CodegenStatement
  <2>1. genpc = "body" /\ genpc' = "assert" /\ UNCHANGED <<blocks, procedure>>
    BY <1>8 DEF CodegenStatement
  <2>2. \/ \E n : asm' = asm \o <<Line("comment", n)>>
        \/ \E n, slot : asm' = asm \o <<Line("comment", n), Line("load", slot)>>
    BY <1>8 DEF CodegenStatement, Write
  <2>3. \A n : ~IsLabel(Line("comment", n)) /\ ~IsLabel(Line("load", n))
    BY DEF Line, IsLabel
  <2>4. CASE \E n : asm' = asm \o <<Line("comment", n)>>
    BY <1>1, <2>1, <2>3, <2>4
  <2>5. CASE \E n, slot : asm' = asm \o <<Line("comment", n), Line("load", slot)>>
    BY <1>2, <2>1, <2>3, <2>5
  <2>. QED
    BY <2>2, <2>4, <2>5
<1>9. CASE EndProcedure
  <2>1. PICK op \in {"exit", "ret"} : asm' = asm \o <<Line(op, 0)>>
    BY <1>9 DEF EndProcedure, Write, Return
  <2>2. /\ genpc = "body" /\ genpc' \in {"label", "end"} /\ procedure' = procedure + 1
        /\ UNCHANGED blocks
    BY <1>9 DEF EndProcedure, NextProcedure
  <2>. DEFINE x     == Line(op, 0)
              lines == <<x>>
  <2>3. x.op \in {"exit", "ret"} /\ x.of = Current /\ ~IsLabel(x)
    BY DEF Line, IsLabel
  <2>4. asm' = asm \o <<x>>
    BY <2>1
  <2>. HIDE DEF x
  <2>5. lines \in Seq({x}) /\ Len(lines) = 1 /\ lines[1] = x /\ asm' = asm \o lines
    BY <2>4
  <2>. HIDE DEF lines
  <2>6. \A p \in 1 .. Len(Procedures) : Begun(p) => Begun(p)'
    BY <1>0, <2>2 DEF Begun
  <2>7. procedure' \in Nat /\ \A p \in 1 .. Len(Procedures) : p < procedure' => p < procedure \/ p = procedure
    BY <1>0, <2>2
  <2>8. \A i \in 1 .. Len(lines) : ~IsLabel(lines[i])
    BY <2>3, <2>5
  <2>. QED
    BY <2>2, <2>3, <2>5, <2>6, <2>7, <2>8, LabelsAppended
<1>. QED
  BY <1>3, <1>4, <1>5, <1>6, <1>7, <1>8, <1>9 DEF Next, GenStep, GenTerminated

LEMMA FreshLabels == Fresh => LabelInv
<1>. SUFFICES ASSUME Fresh PROVE LabelInv
  OBVIOUS
<1>1. asm = << >> /\ genpc = "idle" /\ procedure = 0
  BY DEF Fresh
<1>. QED
  BY <1>1 DEF LabelInv

LEMMA FileIsComplete ==
  LayoutInv /\ OutputInv /\ GenerableInv /\ LabelInv => CompleteWhenWritten
<1>. SUFFICES ASSUME LayoutInv, OutputInv, GenerableInv, LabelInv, genpc = "written"
              PROVE  /\ \A p \in DOMAIN Procedures :
                          /\ Whole(Procedures[p])
                          /\ Len(blocks[Procedures[p]].statements) = 0
                     /\ \A j, k \in Labels : \E p, q \in DOMAIN Procedures :
                          /\ asm[j].of = Procedures[p] /\ asm[k].of = Procedures[q]
                          /\ j < k <=> p < q
  BY DEF CompleteWhenWritten
<1>1. /\ DOMAIN asm = 1 .. Len(asm) /\ Len(asm) \in Nat
      /\ DOMAIN Procedures = 1 .. Len(Procedures) /\ Len(Procedures) \in Nat
      /\ procedure = Len(Procedures) + 1
  BY DEF OutputInv, GenerableInv, LayoutInv, WellFormed, Procedures
<1>2. ASSUME NEW p \in DOMAIN Procedures
      PROVE  Whole(Procedures[p]) /\ Len(blocks[Procedures[p]].statements) = 0
  <2>1. WholeIn(asm, Procedures[p]) /\ Generable(Procedures[p])
    BY <1>1 DEF LabelInv, GenerableInv
  <2>. QED
    BY <1>1, <2>1 DEF WholeIn, Whole, Labels, IsLabel, Generable
<1>3. ASSUME NEW j \in Labels, NEW k \in Labels
      PROVE  \E p, q \in DOMAIN Procedures :
               asm[j].of = Procedures[p] /\ asm[k].of = Procedures[q] /\ (j < k <=> p < q)
  <2>1. /\ j \in 1 .. Len(asm) /\ k \in 1 .. Len(asm) /\ IsLabel(asm[j]) /\ IsLabel(asm[k])
    BY <1>1 DEF Labels, IsLabel
  <2>2. CASE j = k
    BY <1>1, <2>1, <2>2 DEF LabelInv
  <2>3. CASE j < k
    BY <1>1, <2>1, <2>3 DEF LabelInv
  <2>4. CASE k < j
    <3>1. PICK p, q \in 1 .. Len(Procedures) :
            asm[k].of = Procedures[p] /\ asm[j].of = Procedures[q] /\ p < q
      BY <2>1, <2>4 DEF LabelInv
    <3>2. ~(j < k) /\ ~(q < p)
      BY <1>1, <2>1, <2>4, <3>1
    <3>. QED
      BY <1>1, <3>1, <3>2
  <2>. QED
    BY <2>1, <2>2, <2>3, <2>4
<1>. QED
  BY <1>2, <1>3

-----------------------------------------------------------------------------
(* Every line is the prologue's or belongs to one of root's procedures.    *)
Owner(b) == b = 1 \/ \E p \in 1 .. Len(Procedures) : b = Procedures[p]

OwnerInv == \A k \in 1 .. Len(asm) : Owner(asm[k].of)

LEMMA OwnersAppended ==
  ASSUME OutputInv, OwnerInv, UNCHANGED blocks, NEW T, NEW lines \in Seq(T), asm' = asm \o lines,
         \A i \in 1 .. Len(lines) : Owner(lines[i].of)
  PROVE  OwnerInv'
<1>. DEFINE S == Lines \cup T
<1>1. asm \in Seq(S) /\ lines \in Seq(S)
  <2>1. asm \in Seq(Lines)
    BY DEF OutputInv
  <2>. HIDE DEF Lines
  <2>. QED
    BY <2>1
<1>. HIDE DEF S
<1>2. /\ Len(asm') = Len(asm) + Len(lines)
      /\ \A i \in 1 .. Len(asm) : asm'[i] = asm[i]
      /\ \A i \in 1 .. Len(asm') :
           i > Len(asm) => i - Len(asm) \in 1 .. Len(lines) /\ asm'[i] = lines[i - Len(asm)]
      /\ Len(asm) \in Nat /\ Len(lines) \in Nat
  BY <1>1, Appended
<1>3. ASSUME NEW k \in 1 .. Len(asm') PROVE Owner(asm'[k].of)
  <2>1. CASE k \in 1 .. Len(asm)
    BY <1>2, <2>1 DEF OwnerInv
  <2>2. CASE k > Len(asm)
    BY <1>2, <2>2
  <2>. QED
    BY <1>2, <2>1, <2>2
<1>4. \A b : Owner(b) => Owner(b)'
  BY DEF Owner, Procedures
<1>. QED
  BY <1>3, <1>4 DEF OwnerInv

LEMMA NextOwners == LayoutInv /\ OutputInv /\ OwnerInv /\ [Next]_genvars => OwnerInv'
<1>. SUFFICES ASSUME LayoutInv, OutputInv, OwnerInv, [Next]_genvars PROVE OwnerInv'
  OBVIOUS
<1>1. genpc \in Loops => Owner(Current)
  BY DEF LayoutInv, PlaceOK, Owner, Current
<1>2. ASSUME UNCHANGED <<blocks, asm>> PROVE OwnerInv'
  BY <1>2 DEF OwnerInv, Owner, Procedures
<1>3. ASSUME NEW x, UNCHANGED blocks, asm' = asm \o <<x>>, Owner(x.of) PROVE OwnerInv'
  <2>. DEFINE lines == <<x>>
  <2>1. lines \in Seq({x}) /\ asm' = asm \o lines /\ \A i \in 1 .. Len(lines) : lines[i] = x
    BY <1>3
  <2>. HIDE DEF lines
  <2>. QED
    BY <1>3, <2>1, OwnersAppended
<1>4. ASSUME NEW x, NEW y, UNCHANGED blocks, asm' = asm \o <<x, y>>, Owner(x.of), Owner(y.of)
      PROVE  OwnerInv'
  <2>. DEFINE lines == <<x, y>>
  <2>1. /\ lines \in Seq({x, y}) /\ asm' = asm \o lines
        /\ \A i \in 1 .. Len(lines) : lines[i] = x \/ lines[i] = y
    BY <1>4
  <2>. HIDE DEF lines
  <2>. QED
    BY <1>4, <2>1, OwnersAppended
<1>5. \A op, arg : Line(op, arg).of = Current /\ Store(op, arg).of = Current
  BY DEF Line, Store
<1>6. CASE CodegenAST
  <2>. DEFINE x == [op |-> "section", arg |-> 0, reg |-> "RSP", of |-> 1]
              y == [op |-> "include", arg |-> 0, reg |-> "RSP", of |-> 1]
  <2>1. x.of = 1 /\ y.of = 1
    OBVIOUS
  <2>2. UNCHANGED blocks /\ (UNCHANGED asm \/ asm' = asm \o <<x, y>>)
    BY <1>6 DEF CodegenAST, GenAbort, Write
  <2>. HIDE DEF x, y
  <2>. QED
    BY <1>2, <1>4, <2>1, <2>2 DEF Owner
<1>7. CASE StartProcedure
  <2>1. /\ genpc \in Loops /\ UNCHANGED blocks
        /\ asm' = asm \o <<Line("global", 0), Line("label", 0)>>
    BY <1>7 DEF StartProcedure, Write, Loops
  <2>. QED
    BY <1>1, <1>4, <1>5, <2>1
<1>8. CASE ReserveFrame
  <2>1. /\ genpc \in Loops /\ UNCHANGED blocks
        /\ UNCHANGED asm \/ asm' = asm \o <<Line("sub", FrameSize(Current))>>
    BY <1>8 DEF ReserveFrame, GenAbort, Write, Loops
  <2>. QED
    BY <1>1, <1>2, <1>3, <1>5, <2>1
<1>9. CASE SpillArgument
  <2>1. /\ genpc \in Loops /\ UNCHANGED blocks
        /\ UNCHANGED asm \/ \E reg : asm' = asm \o <<Store(reg, offset[Current][index + 1])>>
    BY <1>9 DEF SpillArgument, GenAbort, Write, Loops
  <2>. QED
    BY <1>1, <1>2, <1>3, <1>5, <2>1
<1>10. CASE CodegenStatement
  <2>1. /\ genpc \in Loops /\ UNCHANGED blocks
        /\ \/ \E n : asm' = asm \o <<Line("comment", n)>>
           \/ \E n, slot : asm' = asm \o <<Line("comment", n), Line("load", slot)>>
    BY <1>10 DEF CodegenStatement, Write, Loops
  <2>. QED
    BY <1>1, <1>3, <1>4, <1>5, <2>1
<1>11. CASE EndProcedure
  <2>1. /\ genpc \in Loops /\ UNCHANGED blocks
        /\ \E op \in {"exit", "ret"} : asm' = asm \o <<Line(op, 0)>>
    BY <1>11 DEF EndProcedure, Write, Return, Loops
  <2>. QED
    BY <1>1, <1>3, <1>5, <2>1
<1>12. CASE AssignSlot \/ ArgumentsSpilled \/ WriteFile \/ UNCHANGED genvars
  BY <1>2, <1>12 DEF AssignSlot, ArgumentsSpilled, WriteFile, GenAbort, genvars
<1>. QED
  BY <1>6, <1>7, <1>8, <1>9, <1>10, <1>11, <1>12 DEF Next, GenStep, GenTerminated

LEMMA FreshOwners == Fresh => OwnerInv
BY DEF Fresh, OwnerInv

(***************************************************************************)
(* All of it together: it holds of a generator that has not begun on a     *)
(* tree like the parser's, its steps keep it, and it is what is promised.  *)
(***************************************************************************)
GeneratorInv ==
  LayoutInv /\ OutputInv /\ SpillInv /\ ReturnInv /\ GenerableInv /\ LabelInv /\ OwnerInv

LEMMA FreshGenerator == WellFormed(blocks) /\ Fresh => GeneratorInv
BY FreshLayout, FreshOutput, FreshArguments, FreshGenerable, FreshLabels, FreshOwners DEF GeneratorInv

LEMMA NextGenerator == GeneratorInv /\ [Next]_genvars => GeneratorInv'
BY NextLayout, NextOutput, NextArguments, NextGenerable, NextLabels, NextOwners DEF GeneratorInv

LEMMA GeneratorPromises ==
  GeneratorInv => /\ SlotsDisjoint /\ AccessesInsideFrame /\ ArgumentsInSlots
                  /\ CompleteWhenWritten
BY SlotsHold, AccessesHold, ArgumentsStay, FileIsComplete DEF GeneratorInv

(***************************************************************************)
(* A file is only written when it holds the code of all of root's          *)
(* procedures, once each and in order (CodegenNASMFile, CodegenBlock).     *)
(***************************************************************************)
THEOREM FileCorrect == Spec => []CompleteWhenWritten
<1>. QED
  BY InitIsFresh, FreshGenerator, NextGenerator, GeneratorPromises, PTL DEF Spec
-----------------------------------------------------------------------------
(***************************************************************************)
(* Types.  What is not in the invariants yet: the loop over the procedures *)
(* does not run past their end, and the text only grows.                   *)
(***************************************************************************)
CountInv == procedure <= Len(Procedures) + 1 /\ bufferUsed \in Nat

LEMMA LineLengthIsNat ==
  ASSUME NEW line \in Lines
  PROVE  LineLength(line) \in Nat
<1>1. line.op \in Ops /\ line.arg \in Nat
  BY DEF Lines
<1>2. NameLength(line.reg) \in 0 .. 3
  BY DEF NameLength
<1>3. LineLength(line) \in {14, 26, 9, 8, 3, 15, 26 + NameLength(line.reg), 23, line.arg + 2, 24, 6}
  BY <1>1 DEF LineLength, Ops
<1>. QED
  BY <1>1, <1>2, <1>3

LEMMA WriteGrows ==
  ASSUME OutputInv, OutputInv', UNCHANGED blocks, bufferUsed \in Nat,
         NEW T, NEW lines \in Seq(T), Write(lines)
  PROVE  bufferUsed' \in Nat
<1>. DEFINE S == Lines \cup T
<1>1. asm \in Seq(S) /\ lines \in Seq(S) /\ Len(asm) \in Nat /\ Len(lines) \in Nat
      /\ asm' \in Seq(Lines)
  <2>1. asm \in Seq(Lines) /\ asm' \in Seq(Lines)
    BY DEF OutputInv, Lines
  <2>. HIDE DEF Lines
  <2>. QED
    BY <2>1
<1>. HIDE DEF S
<1>2. ASSUME NEW i \in 1 .. Len(lines) PROVE LineLength(lines[i]) \in Nat
  <2>1. /\ Len(asm') = Len(asm) + Len(lines)
        /\ \A k \in 1 .. Len(asm') :
             k > Len(asm) => k - Len(asm) \in 1 .. Len(lines) /\ asm'[k] = lines[k - Len(asm)]
    BY <1>1, Appended DEF Write
  <2>2. Len(asm) + i \in 1 .. Len(asm') /\ asm'[Len(asm) + i] = lines[i]
    BY <1>1, <2>1
  <2>3. lines[i] \in Lines
    <3>. HIDE DEF Lines
    <3>. QED
      BY <1>1, <2>2
  <2>. QED
    BY <2>3, LineLengthIsNat
<1>3. TextLength(lines) \in Nat
  BY <1>1, <1>2 DEF TextLength
<1>. QED
  BY <1>3 DEF Write

LEMMA NextCount ==
  LayoutInv /\ OutputInv /\ OutputInv' /\ CountInv /\ [Next]_genvars => CountInv'
<1>. SUFFICES ASSUME LayoutInv, OutputInv, OutputInv', CountInv, [Next]_genvars PROVE CountInv'
  OBVIOUS
<1>0. /\ procedure \in Nat /\ Len(Procedures) \in Nat /\ bufferUsed \in Nat
      /\ procedure <= Len(Procedures) + 1
      /\ genpc \in Loops \cup {"idle"} => procedure <= Len(Procedures)
  BY ProceduresAreBlocks DEF LayoutInv, PlaceOK, CountInv, Loops
<1>1. UNCHANGED blocks /\ Procedures' = Procedures
  BY DEF Next, GenStep, GenTerminated, genvars, CodegenAST, StartProcedure, AssignSlot, ReserveFrame,
         SpillArgument, ArgumentsSpilled, CodegenStatement, EndProcedure, WriteFile, GenAbort, Procedures
<1>2. procedure' <= Len(Procedures) + 1
  <2>1. UNCHANGED procedure \/ (procedure' = procedure + 1 /\ genpc \in Loops \cup {"idle"})
    BY DEF Next, GenStep, GenTerminated, genvars, CodegenAST, StartProcedure, AssignSlot, ReserveFrame,
           SpillArgument, ArgumentsSpilled, CodegenStatement, EndProcedure, WriteFile, GenAbort,
           NextProcedure, Loops
  <2>. QED
    BY <1>0, <2>1
<1>3. bufferUsed' \in Nat
  <2>1. ASSUME NEW x, Write(<<x>>) PROVE bufferUsed' \in Nat
    <3>. DEFINE lines == <<x>>
    <3>1. lines \in Seq({x}) /\ Write(lines)
      BY <2>1
    <3>. HIDE DEF lines
    <3>. QED
      BY <1>0, <1>1, <3>1, WriteGrows
  <2>2. ASSUME NEW x, NEW y, Write(<<x, y>>) PROVE bufferUsed' \in Nat
    <3>. DEFINE lines == <<x, y>>
    <3>1. lines \in Seq({x, y}) /\ Write(lines)
      BY <2>2
    <3>. HIDE DEF lines
    <3>. QED
      BY <1>0, <1>1, <3>1, WriteGrows
  <2>3. CASE UNCHANGED bufferUsed
    BY <1>0, <2>3
  <2>4. CASE CodegenAST
    BY <2>2, <2>3, <2>4 DEF CodegenAST, GenAbort
  <2>5. CASE StartProcedure
    BY <2>2, <2>5 DEF StartProcedure
  <2>6. CASE ReserveFrame
    BY <2>1, <2>3, <2>6 DEF ReserveFrame, GenAbort
  <2>7. CASE SpillArgument
    BY <2>1, <2>3, <2>7 DEF SpillArgument, GenAbort
  <2>8. CASE CodegenStatement
    BY <2>1, <2>2, <2>8 DEF CodegenStatement
  <2>9. CASE EndProcedure
    BY <2>1, <2>9 DEF EndProcedure, Return
  <2>10. CASE AssignSlot \/ ArgumentsSpilled \/ WriteFile \/ UNCHANGED genvars
    BY <2>3, <2>10 DEF AssignSlot, ArgumentsSpilled, WriteFile, GenAbort, genvars
  <2>. QED
    BY <2>4, <2>5, <2>6, <2>7, <2>8, <2>9, <2>10 DEF Next, GenStep, GenTerminated
<1>. QED
  BY <1>1, <1>2, <1>3 DEF CountInv

(* The generator's state is of the type it should be, whatever the tree.   *)
THEOREM GeneratorTypeCorrect == Spec => []TypeOK
<1>1. WellFormed(blocks) /\ Fresh => CountInv
  BY ProceduresAreBlocks DEF Fresh, CountInv
<1>2. LayoutInv /\ OutputInv /\ CountInv => TypeOK
  <2>. SUFFICES ASSUME LayoutInv, OutputInv, CountInv PROVE TypeOK
    OBVIOUS
  <2>1. Len(Procedures) \in Nat
    BY ProceduresAreBlocks DEF LayoutInv
  <2>. QED
    BY <2>1 DEF LayoutInv, PlaceOK, SlotsOK, OutputInv, CountInv, TypeOK, Lines, Loops
<1>. QED
  BY <1>1, <1>2, InitIsFresh, FreshLayout, FreshOutput, NextLayout, NextOutput, NextCount, PTL
     DEF Spec
=============================================================================
