---------------------------- MODULE MCNasmUtils ----------------------------
EXTENDS NasmUtils

(* Words of two bytes: every digit, both signs, and the least and largest. *)
MCArguments == {0, 4660, 22136, 39612, 57072, 65535}
MCGarbage   == {7, 65535}
=============================================================================
