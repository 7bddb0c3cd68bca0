----------------------------- MODULE AppendOnly -----------------------------
(***************************************************************************)
(* What ArrayAdd promises its callers: every array is a sequence of its    *)
(* own that only ever grows, by one element at its end.                    *)
(***************************************************************************)
EXTENDS Sequences

CONSTANTS
  Array,     \* the arrays of a program
  Element    \* what may be put into one

VARIABLE contents

Init == contents = [a \in Array |-> << >>]

ArrayAdd(a, element) ==
  contents' = [contents EXCEPT ![a] = Append(@, element)]

Next == \E a \in Array, element \in Element : ArrayAdd(a, element)

Spec == Init /\ [][Next]_contents
=============================================================================
