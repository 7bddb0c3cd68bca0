----------------------------- MODULE ZydisTable -----------------------------
(***************************************************************************)
(* The part of the tables compiled into zydis.o the model's input bytes    *)
(* reach, under the numbers they have there.                               *)
(***************************************************************************)
EXTENDS Integers, Sequences, TLC

Row(keys, children) == [k \in {keys[i] : i \in DOMAIN keys} |->
                          children[CHOOSE i \in DOMAIN keys : keys[i] = k]]

Tree == [n \in {4096, 4097, 12310, 20633, 36864} |->
  CASE n = 4096 ->   \* the first opcode byte
         Row(<<1, 3, 6, 15, 36, 41, 43, 88, 131, 137, 195, 232>>,
             <<20, 24, 36864, 4097, 45, 1353, 1355, 1097, 12310, 822, 1240, 78>>)
    [] n = 4097 ->   \* behind 0F: only 0F 58 is modelled
         Row(<<88>>, <<20633>>)
    [] n = 12310 ->  \* 83, by modrm_reg
         Row(<<0, 1, 2, 3, 4, 5, 6, 7>>, <<18, 919, 8, 1277, 43, 1349, 1716, 113>>)
    [] n = 20633 ->  \* 0F 58, by mandatory prefix
         Row(<<0, 1, 2, 3>>, <<26, 27, 28, 25>>)
    [] n = 36864 ->  \* 06, by mode
         Row(<<0, 1>>, <<1194, 0>>)]

RBXR == {"IDF_ACCEPTS_REXB", "IDF_ACCEPTS_REXX", "IDF_ACCEPTS_REXR"}
REX  == RBXR \cup {"IDF_ACCEPTS_REXW"}

Def(mnemonic, operand, flags) == [mnemonic |-> mnemonic, operand |-> operand, flags |-> flags]
Op(type, size) == [type |-> type, size |-> size]
EG == <<Op("E", "V"), Op("G", "V")>>
GE == <<Op("G", "V"), Op("E", "V")>>
EI == <<Op("E", "V"), Op("sI", "B")>>
VW == <<Op("V", "DQ"), Op("W", "DQ")>>

Group1 == [n \in {18, 919, 8, 1277, 43, 1349, 1716, 113} |->
  CASE n = 18 -> "add" [] n = 919 -> "or" [] n = 8 -> "adc" [] n = 1277 -> "sbb"
    [] n = 43 -> "and" [] n = 1349 -> "sub" [] n = 1716 -> "xor" [] n = 113 -> "cmp"]

Definitions == [n \in DOMAIN Group1 |-> Def(Group1[n], EI, REX)] @@
  ( 20 :> Def("add", EG, REX)   @@   24 :> Def("add", GE, REX) @@
  1353 :> Def("sub", EG, REX)   @@ 1355 :> Def("sub", GE, REX) @@
   822 :> Def("mov", EG, REX)   @@ 1240 :> Def("ret", << >>, {}) @@
  1194 :> Def("push", << >>, {"IDF_INVALID_64"}) @@
    45 :> Def("and", <<Op("AL", "B"), Op("I", "B")>>, {}) @@
  1097 :> Def("pop", <<Op("R0", "V")>>, {"IDF_ACCEPTS_REXB", "IDF_DEFAULT_64"}) @@
    78 :> Def("call", <<Op("J", "Z")>>, {"IDF_ACCEPTS_REXW", "IDF_DEFAULT_64"}) @@
    26 :> Def("addps", VW, RBXR) @@   27 :> Def("addsd", VW, RBXR) @@
    28 :> Def("addss", VW, RBXR) @@   25 :> Def("addpd", VW, RBXR))
=============================================================================
