---------------------------- MODULE DynamicArray ----------------------------
(***************************************************************************)
(* DynamicArray and ArrayAdd of AST.cpp, several arrays on one heap.  An   *)
(* allocation is a function from 1 .. n to its cells; a cell never written *)
(* holds Garbage.  malloc returns any address that is free, one freed a    *)
(* moment ago included, or null, which nobody checks.                      *)
(***************************************************************************)
EXTENDS Naturals, FiniteSets

CONSTANTS
  Array,     \* the arrays of a program
  Element,   \* what may be put into one
  Garbage,   \* what malloc leaves in a cell
  Address,   \* the addresses malloc may return
  Null,      \* the null pointer
  Growth,    \* by how much an array that is full grows; 10 in the code
  MaxCount   \* bound: no array holds more elements than this

ASSUME GarbageAssumption  == Garbage \notin Element
ASSUME NullAssumption     == Null \notin Address
ASSUME GrowthAssumption   == Growth \in Nat \ {0}
ASSUME MaxCountAssumption == MaxCount \in Nat

VARIABLES
  arrays,    \* per array its capacity, its count and its data pointer
  heap,      \* the allocations that live, by address
  crashed    \* a null pointer was written through

vars == <<arrays, heap, crashed>>

Live == DOMAIN heap

(* The nodes that hold the arrays are allocated zeroed.                    *)
NotZeroed == [capacity |-> 0, count |-> 0, data |-> Garbage]   \* mutant: no memset
Zeroed    == [capacity |-> 0, count |-> 0, data |-> Null]

Init ==
  /\ arrays = [a \in Array |-> Zeroed]
  /\ heap = [p \in {} |-> << >>]
  /\ crashed = FALSE

Malloc(n) == [i \in 1 .. n |-> Garbage]

(* A write behind the end of an allocation lands there all the same.       *)
Write(cells, index, element) ==
  [i \in DOMAIN cells \cup {index} |-> IF i = index THEN element ELSE cells[i]]

MemcpyShort(to, from, n) == [i \in DOMAIN to |-> IF i < n THEN from[i] ELSE to[i]] \* mutant
Memcpy(to, from, n) == [i \in DOMAIN to |-> IF i <= n THEN from[i] ELSE to[i]]

IsFullTooLate(array) == array.count > array.capacity      \* mutant: off by one
IsFull(array)        == array.count + 1 > array.capacity

Cells(array) == IF array.data = Null THEN << >> ELSE heap[array.data]

FreeNothing(p) == Live                 \* mutant: the old storage is not freed
Free(p)        == Live \ {p}           \* free(nullptr) does nothing

AddInPlace(a, element) ==
  /\ ~crashed /\ arrays[a].count < MaxCount
  /\ ~IsFull(arrays[a])
  /\ arrays' = [arrays EXCEPT ![a].count = @ + 1]
  /\ heap' = [heap EXCEPT ![arrays[a].data] = Write(@, arrays[a].count + 1, element)]
  /\ UNCHANGED crashed

(* A full array moves: the new storage is malloced while the old one still *)
(* lives, and the old one is freed once it has been copied.                *)
AddAfterGrowing(a, element) ==
  LET array    == arrays[a]
      capacity == array.capacity + Growth
      newData  == Memcpy(Malloc(capacity), Cells(array), array.count)
  IN  /\ ~crashed /\ array.count < MaxCount
      /\ IsFull(array)
      /\ \E p \in Address \ Live :
           /\ heap' = [q \in Free(array.data) \cup {p} |->
                         IF q = p THEN Write(newData, array.count + 1, element)
                         ELSE heap[q]]
           /\ arrays' = [arrays EXCEPT ![a] = [capacity |-> capacity,
                                               count |-> array.count + 1, data |-> p]]
      /\ UNCHANGED crashed

(* malloc fails: memcpy writes through null, or in an array still empty    *)
(* the store of the element does.  The capacity has been raised by then,   *)
(* the old storage has not been freed; whether the count of an empty array *)
(* moved before the store is the compiler's choice, and here it did not.   *)
OutOfMemory(a) ==
  /\ ~crashed /\ IsFull(arrays[a])
  /\ crashed' = TRUE
  /\ arrays' = [arrays EXCEPT ![a].capacity = @ + Growth]
  /\ UNCHANGED heap

Next ==
  \E a \in Array :
    \/ OutOfMemory(a)
    \/ \E element \in Element : AddInPlace(a, element) \/ AddAfterGrowing(a, element)

Spec == Init /\ [][Next]_vars
-----------------------------------------------------------------------------
TypeOK ==
  /\ arrays \in [Array -> [capacity : Nat, count : Nat, data : Address \cup {Null}]]
  /\ Live \subseteq Address
  /\ crashed \in BOOLEAN

(* An array's storage holds every element it counts, nothing that is       *)
(* counted was left behind when the array moved, not even when malloc      *)
(* failed on the way; and until it fails the storage is as large as the    *)
(* array believes: nothing was written behind its end.                     *)
StorageHoldsElements ==
  \A a \in Array :
    /\ arrays[a].count <= arrays[a].capacity
    /\ \A i \in 1 .. arrays[a].count :
         i \in DOMAIN Cells(arrays[a]) /\ Cells(arrays[a])[i] \in Element
    /\ ~crashed => DOMAIN Cells(arrays[a]) = 1 .. arrays[a].capacity

(* No two arrays share storage, none points at storage that was freed, and *)
(* no storage is lost: what lives is what the arrays point at.             *)
StorageOwned ==
  /\ Live = {arrays[a].data : a \in Array} \ {Null}
  /\ \A a, b \in Array : arrays[a].data = arrays[b].data =>
       a = b \/ arrays[a].data = Null

(* Through operator[] the arrays read as sequences that only ever grow, by *)
(* one element at the end of one of them.                                  *)
Contents ==
  [a \in Array |-> [i \in 1 .. arrays[a].count |-> Cells(arrays[a])[i]]]

Abstract == INSTANCE AppendOnly WITH contents <- Contents
ImplementsAppendOnly == Abstract!Spec
=============================================================================
