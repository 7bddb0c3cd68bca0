--------------------------- MODULE MCInputReader ---------------------------
(* Bytes that tell their places apart, up to past the longest instruction. *)
EXTENDS InputReader

Source(kind, n) == [kind |-> kind, bytes |-> [i \in 1 .. n |-> i]]

MCSources == {Source("memory", n) : n \in {0, 1, 3, 14, 15, 16, 18}}
               \cup {Source("stream", n) : n \in {0, 3, 14, 15, 16}}
=============================================================================
