------------------------- MODULE DynamicArrayProofs -------------------------
(***************************************************************************)
(* An array is the append-only sequence its callers take it for, however   *)
(* many arrays share the heap, wherever malloc puts them and by however    *)
(* much they grow.                                                         *)
(***************************************************************************)
EXTENDS DynamicArray, Sequences, TLAPS

(* The state TypeOK leaves out: heap is a function.                        *)
HeapOK == heap = [p \in Live |-> heap[p]]

Inv == TypeOK /\ HeapOK /\ StorageHoldsElements /\ StorageOwned

LEMMA InitInv == Init => Inv
<1>1. SUFFICES ASSUME Init PROVE Inv
  OBVIOUS
<1>2. Live = {}
  BY <1>1 DEF Init, Live
<1>3. TypeOK /\ HeapOK
  BY <1>1, <1>2 DEF Init, Zeroed, TypeOK, HeapOK, Live
<1>4. StorageHoldsElements
  BY <1>1 DEF Init, Zeroed, StorageHoldsElements, Cells
<1>5. StorageOwned
  BY <1>1, <1>2 DEF Init, Zeroed, StorageOwned
<1>. QED
  BY <1>3, <1>4, <1>5 DEF Inv

(* Storage of different arrays is different, and lives.                    *)
LEMMA DataIsOwned ==
  ASSUME Inv, NEW a \in Array, NEW b \in Array
  PROVE  /\ arrays[a].data = Null \/ arrays[a].data \in Live
         /\ a # b => arrays[a].data # arrays[b].data \/ arrays[a].data = Null
BY DEF Inv, StorageOwned

LEMMA FullWhenNull ==
  ASSUME Inv, ~crashed, NEW a \in Array, arrays[a].data = Null
  PROVE  arrays[a].capacity = 0 /\ arrays[a].count = 0
<1>1. DOMAIN Cells(arrays[a]) = 1 .. arrays[a].capacity
  BY DEF Inv, StorageHoldsElements
<1>2. DOMAIN Cells(arrays[a]) = {}
  BY DEF Cells
<1>3. arrays[a].capacity \in Nat /\ arrays[a].count \in Nat
  BY DEF Inv, TypeOK
<1>. QED
  BY <1>1, <1>2, <1>3 DEF Inv, StorageHoldsElements

-----------------------------------------------------------------------------
(* What both ways of adding do: the cells of the array that grew are those *)
(* it had with the element behind them, the others keep theirs.            *)
Adds(a, element) ==
  /\ arrays'[a].count = arrays[a].count + 1
  /\ arrays'[a].count <= arrays'[a].capacity
  /\ DOMAIN Cells(arrays[a])' = 1 .. arrays'[a].capacity
  /\ \A i \in 1 .. arrays[a].count : Cells(arrays[a])'[i] = Cells(arrays[a])[i]
  /\ Cells(arrays[a])'[arrays[a].count + 1] = element
  /\ \A b \in Array \ {a} :
       arrays'[b] = arrays[b] /\ Cells(arrays[b])' = Cells(arrays[b])

LEMMA AddInPlaceAdds ==
  ASSUME Inv, NEW a \in Array, NEW element \in Element, AddInPlace(a, element)
  PROVE  /\ TypeOK' /\ HeapOK' /\ StorageOwned'
         /\ Adds(a, element)
<1>. DEFINE p == arrays[a].data
            n == arrays[a].count
<1>1. /\ arrays[a].capacity \in Nat /\ n \in Nat /\ n + 1 <= arrays[a].capacity
      /\ arrays[a] = [capacity |-> arrays[a].capacity, count |-> n, data |-> p]
  BY DEF Inv, TypeOK, AddInPlace, IsFull
<1>2. p # Null /\ p \in Live
  BY <1>1, FullWhenNull, DataIsOwned DEF AddInPlace
<1>3. DOMAIN heap[p] = 1 .. arrays[a].capacity
  BY <1>2 DEF Inv, StorageHoldsElements, Cells, AddInPlace
<1>4. /\ arrays' = [arrays EXCEPT ![a].count = @ + 1]
      /\ heap' = [heap EXCEPT ![p] = Write(@, n + 1, element)]
      /\ crashed' = crashed
  BY DEF AddInPlace
<1>5. /\ Live' = Live /\ HeapOK'
      /\ heap'[p] = Write(heap[p], n + 1, element)
      /\ \A q \in Live \ {p} : heap'[q] = heap[q]
  BY <1>2, <1>4 DEF Live, HeapOK
<1>6. /\ arrays'[a] = [arrays[a] EXCEPT !.count = n + 1]
      /\ \A b \in Array \ {a} : arrays'[b] = arrays[b]
      /\ arrays' \in [Array -> [capacity : Nat, count : Nat, data : Address \cup {Null}]]
  BY <1>1, <1>4 DEF Inv, TypeOK
<1>7. TypeOK'
  BY <1>4, <1>5, <1>6 DEF Inv, TypeOK
<1>8. \A b \in Array : arrays'[b].data = arrays[b].data
  BY <1>6, <1>1
<1>9. StorageOwned'
  BY <1>5, <1>8 DEF Inv, StorageOwned
<1>10. Cells(arrays[a])' = Write(heap[p], n + 1, element)
  BY <1>2, <1>5, <1>8 DEF Cells
<1>11. Cells(arrays[a]) = heap[p]
  BY <1>2 DEF Cells
<1>12. \A b \in Array \ {a} : Cells(arrays[b])' = Cells(arrays[b])
  BY <1>5, <1>8, DataIsOwned DEF Cells
<1>13. /\ DOMAIN Cells(arrays[a])' = 1 .. arrays[a].capacity
       /\ \A i \in 1 .. n : Cells(arrays[a])'[i] = Cells(arrays[a])[i]
       /\ Cells(arrays[a])'[n + 1] = element
  BY <1>1, <1>3, <1>10, <1>11 DEF Write
<1>. QED
  BY <1>1, <1>5, <1>6, <1>7, <1>9, <1>12, <1>13 DEF Adds

LEMMA AddAfterGrowingAdds ==
  ASSUME Inv, NEW a \in Array, NEW element \in Element, AddAfterGrowing(a, element)
  PROVE  /\ TypeOK' /\ HeapOK' /\ StorageOwned'
         /\ Adds(a, element)
<1>. DEFINE old == arrays[a].data
            n   == arrays[a].count
            capacity == arrays[a].capacity + Growth
            newData  == Memcpy(Malloc(capacity), Cells(arrays[a]), n)
<1>1. PICK p \in Address \ Live :
        /\ heap' = [q \in Free(old) \cup {p} |->
                      IF q = p THEN Write(newData, n + 1, element) ELSE heap[q]]
        /\ arrays' = [arrays EXCEPT ![a] = [capacity |-> capacity,
                                            count |-> n + 1, data |-> p]]
  BY DEF AddAfterGrowing
<1>2. /\ arrays[a].capacity \in Nat /\ n \in Nat /\ n <= arrays[a].capacity
      /\ capacity \in Nat /\ n + 1 <= capacity
  BY GrowthAssumption DEF Inv, TypeOK, StorageHoldsElements
<1>3. /\ arrays'[a] = [capacity |-> capacity, count |-> n + 1, data |-> p]
      /\ \A b \in Array \ {a} : arrays'[b] = arrays[b]
      /\ arrays' \in [Array -> [capacity : Nat, count : Nat, data : Address \cup {Null}]]
  BY <1>1, <1>2 DEF Inv, TypeOK
<1>4. /\ Live' = (Live \ {old}) \cup {p} /\ HeapOK'
      /\ heap'[p] = Write(newData, n + 1, element)
      /\ \A q \in Live \ {old} : heap'[q] = heap[q]
  BY <1>1 DEF Live, HeapOK, Free
<1>5. TypeOK'
  BY <1>3, <1>4 DEF Inv, TypeOK, AddAfterGrowing
<1>6. p # Null
  BY NullAssumption
<1>7. \A b \in Array \ {a} : arrays[b].data = Null \/ arrays[b].data \in Live \ {old, p}
  <2>. SUFFICES ASSUME NEW b \in Array \ {a}, arrays[b].data # Null
                PROVE  arrays[b].data \in Live \ {old, p}
    OBVIOUS
  <2>1. arrays[b].data \in Live /\ arrays[b].data # old
    BY DataIsOwned
  <2>. QED
    BY <2>1
<1>8. StorageOwned'
  <2>1. Live' = {arrays'[b].data : b \in Array} \ {Null}
    <3>1. Live = {arrays[b].data : b \in Array} \ {Null}
      BY DEF Inv, StorageOwned
    <3>2. \A b \in Array \ {a} : arrays'[b].data = arrays[b].data
      BY <1>3
    <3>3. arrays'[a].data = p
      BY <1>3
    <3>. QED
      BY <1>4, <1>6, <1>7, <3>1, <3>2, <3>3
  <2>2. ASSUME NEW b \in Array, NEW c \in Array, arrays'[b].data = arrays'[c].data
        PROVE  b = c \/ arrays'[b].data = Null
    BY <1>3, <1>6, <1>7, <2>2 DEF Inv, StorageOwned
  <2>. QED
    BY <2>1, <2>2 DEF StorageOwned
<1>9. Cells(arrays[a])' = Write(newData, n + 1, element)
  BY <1>3, <1>4, <1>6 DEF Cells
<1>10. /\ DOMAIN newData = 1 .. capacity
       /\ \A i \in 1 .. n : newData[i] = Cells(arrays[a])[i]
  BY <1>2 DEF Memcpy, Malloc
<1>11. /\ DOMAIN Cells(arrays[a])' = 1 .. capacity
       /\ \A i \in 1 .. n : Cells(arrays[a])'[i] = Cells(arrays[a])[i]
       /\ Cells(arrays[a])'[n + 1] = element
  BY <1>2, <1>9, <1>10 DEF Write
<1>12. \A b \in Array \ {a} : Cells(arrays[b])' = Cells(arrays[b])
  BY <1>3, <1>4, <1>7 DEF Cells
<1>13. Adds(a, element)
  <2>1. arrays'[a].count = n + 1 /\ arrays'[a].capacity = capacity
    BY <1>3
  <2>2. \A b \in Array \ {a} : arrays'[b] = arrays[b] /\ Cells(arrays[b])' = Cells(arrays[b])
    BY <1>3, <1>12
  <2>. QED
    BY <1>2, <1>11, <2>1, <2>2 DEF Adds
<1>. QED
  BY <1>4, <1>5, <1>8, <1>13

LEMMA AddsStorage ==
  ASSUME Inv, TypeOK', ~crashed, NEW a \in Array, NEW element \in Element, Adds(a, element)
  PROVE  StorageHoldsElements'
<1>. SUFFICES ASSUME NEW b \in Array
              PROVE  /\ arrays'[b].count <= arrays'[b].capacity
                     /\ DOMAIN Cells(arrays[b])' = 1 .. arrays'[b].capacity
                     /\ \A i \in 1 .. arrays'[b].count :
                          i \in DOMAIN Cells(arrays[b])' /\ Cells(arrays[b])'[i] \in Element
  BY DEF StorageHoldsElements
<1>1. /\ arrays[a].count \in Nat /\ arrays'[b].count \in Nat /\ arrays'[b].capacity \in Nat
      /\ DOMAIN Cells(arrays[b]) = 1 .. arrays[b].capacity
  BY DEF Inv, TypeOK, StorageHoldsElements
<1>2. CASE b = a
  BY <1>1, <1>2 DEF Adds, Inv, StorageHoldsElements
<1>3. CASE b # a
  BY <1>1, <1>3 DEF Adds, Inv, StorageHoldsElements
<1>. QED
  BY <1>2, <1>3

(* What the failed malloc leaves is still there and still owned.           *)
LEMMA OutOfMemoryKeeps ==
  ASSUME Inv, NEW a \in Array, OutOfMemory(a)
  PROVE  /\ Inv'
         /\ \A b \in Array : /\ arrays'[b].count = arrays[b].count
                            /\ arrays'[b].data = arrays[b].data
                            /\ Cells(arrays[b])' = Cells(arrays[b])
<1>1. /\ arrays' = [arrays EXCEPT ![a].capacity = @ + Growth]
      /\ heap' = heap /\ crashed' = TRUE
  BY DEF OutOfMemory
<1>2. ASSUME NEW b \in Array
      PROVE  /\ arrays'[b].count = arrays[b].count /\ arrays'[b].data = arrays[b].data
             /\ arrays'[b].capacity \in Nat /\ arrays'[b].capacity >= arrays[b].capacity
             /\ arrays[b].count \in Nat /\ arrays[b].capacity \in Nat
             /\ arrays[b].count <= arrays[b].capacity
  BY <1>1, GrowthAssumption DEF Inv, TypeOK, StorageHoldsElements
<1>3. TypeOK' /\ HeapOK'
  BY <1>1, GrowthAssumption DEF Inv, TypeOK, HeapOK, Live
<1>4. \A b \in Array : Cells(arrays[b])' = Cells(arrays[b])
  BY <1>1, <1>2 DEF Cells
<1>5. StorageHoldsElements'
  BY <1>1, <1>2, <1>4 DEF Inv, StorageHoldsElements
<1>6. StorageOwned'
  BY <1>1, <1>2 DEF Inv, StorageOwned, Live
<1>. QED
  BY <1>2, <1>3, <1>4, <1>5, <1>6 DEF Inv

LEMMA NextInv == Inv /\ [Next]_vars => Inv'
<1>. SUFFICES ASSUME Inv, [Next]_vars PROVE Inv'
  OBVIOUS
<1>1. ASSUME NEW a \in Array, NEW element \in Element, AddInPlace(a, element)
      PROVE  Inv'
  BY <1>1, AddInPlaceAdds, AddsStorage DEF Inv, AddInPlace
<1>2. ASSUME NEW a \in Array, NEW element \in Element, AddAfterGrowing(a, element)
      PROVE  Inv'
  BY <1>2, AddAfterGrowingAdds, AddsStorage DEF Inv, AddAfterGrowing
<1>3. ASSUME NEW a \in Array, OutOfMemory(a)
      PROVE  Inv'
  BY <1>3, OutOfMemoryKeeps
<1>4. CASE UNCHANGED vars
  BY <1>4 DEF vars, Inv, TypeOK, HeapOK, Live, StorageHoldsElements, StorageOwned, Cells
<1>. QED
  BY <1>1, <1>2, <1>3, <1>4 DEF Next

(* The state is always of its type.                                        *)
THEOREM TypeCorrect == Spec => []TypeOK
<1>1. Inv => TypeOK
  BY DEF Inv
<1>. QED
  BY InitInv, NextInv, <1>1, PTL DEF Spec

(* ArrayAdd never writes behind the end of an array, and an array that     *)
(* moves takes every element along.                                        *)
THEOREM StorageHolds == Spec => []StorageHoldsElements
<1>1. Inv => StorageHoldsElements
  BY DEF Inv
<1>. QED
  BY InitInv, NextInv, <1>1, PTL DEF Spec

(* Arrays never share storage, use freed storage or lose storage.          *)
THEOREM StorageIsOwned == Spec => []StorageOwned
<1>1. Inv => StorageOwned
  BY DEF Inv
<1>. QED
  BY InitInv, NextInv, <1>1, PTL DEF Spec
-----------------------------------------------------------------------------
LEMMA ContentsGrow ==
  ASSUME Inv, NEW a \in Array, NEW element \in Element, Adds(a, element)
  PROVE  Abstract!Next
<1>. DEFINE n == arrays[a].count
<1>1. n \in Nat /\ arrays'[a].count = n + 1
  BY DEF Inv, TypeOK, Adds
<1>2. \A b \in Array \ {a} : Contents'[b] = Contents[b]
  BY DEF Contents, Adds
<1>3. Contents'[a] = Append(Contents[a], element)
  <2>1. Contents[a] = [i \in 1 .. n |-> Cells(arrays[a])[i]]
    BY DEF Contents
  <2>2. Contents'[a] = [i \in 1 .. n + 1 |-> Cells(arrays[a])'[i]]
    BY <1>1 DEF Contents
  <2>3. \A i \in 1 .. n : Cells(arrays[a])[i] \in Element
    BY DEF Inv, StorageHoldsElements
  <2>4. Contents[a] \in Seq(Element) /\ Len(Contents[a]) = n
    BY <1>1, <2>1, <2>3
  <2>5. \A i \in 1 .. n + 1 :
          Contents'[a][i] = IF i <= n THEN Contents[a][i] ELSE element
    BY <1>1, <2>1, <2>2 DEF Adds
  <2>6. /\ Append(Contents[a], element) = [i \in 1 .. n + 1 |->
                                            IF i <= n THEN Contents[a][i] ELSE element]
    BY <1>1, <2>4
  <2>7. Contents'[a] = [i \in 1 .. n + 1 |-> Contents'[a][i]]
    BY <2>2
  <2>. QED
    BY <2>5, <2>6, <2>7
<1>4. Contents' = [Contents EXCEPT ![a] = Append(@, element)]
  BY <1>2, <1>3 DEF Contents
<1>. QED
  BY <1>4 DEF Abstract!Next, Abstract!ArrayAdd

LEMMA StepImplements == Inv /\ [Next]_vars => [Abstract!Next]_Contents
<1>. SUFFICES ASSUME Inv, [Next]_vars PROVE Abstract!Next \/ UNCHANGED Contents
  OBVIOUS
<1>1. ASSUME NEW a \in Array, NEW element \in Element,
             AddInPlace(a, element) \/ AddAfterGrowing(a, element)
      PROVE  Abstract!Next
  BY <1>1, AddInPlaceAdds, AddAfterGrowingAdds, ContentsGrow
<1>2. ASSUME NEW a \in Array, OutOfMemory(a)
      PROVE  UNCHANGED Contents
  BY <1>2, OutOfMemoryKeeps DEF Contents
<1>3. CASE UNCHANGED vars
  BY <1>3 DEF vars, Contents, Cells
<1>. QED
  BY <1>1, <1>2, <1>3 DEF Next

(* The arrays implement the append-only sequences their callers assume.    *)
THEOREM Implements == Spec => ImplementsAppendOnly
<1>1. Init => Abstract!Init
  BY DEF Init, Zeroed, Abstract!Init, Contents, Cells
<1>2. Inv /\ [Next]_vars => [Abstract!Next]_Contents
  BY StepImplements
<1>. QED
  BY InitInv, NextInv, <1>1, <1>2, PTL DEF Spec, ImplementsAppendOnly, Abstract!Spec
=============================================================================
