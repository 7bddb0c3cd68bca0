---------------------------- MODULE OpcodeTable ----------------------------
(***************************************************************************)
(* The opcode tables of the disassembler: a tree whose nodes are 16-bit    *)
(* numbers, the node's type in the upper 4 bits and its place in the table *)
(* of that type in the lower 12, and the definitions its leaves refer to.  *)
(* The contents of the tables are compiled into zydis.o; a model checker   *)
(* is given the part its input bytes reach.                                *)
(***************************************************************************)
EXTENDS Integers, Sequences, FiniteSets

CONSTANTS
  optree,            \* the switch tables: node, index -> child node
  instrDefinitions   \* the definitions: value of a leaf -> definition

NodeValues == 4096

OpcodeTreeNodeType ==
  [INSTRUCTION_DEFINITION |-> 0, TABLE |-> 1, MODRM_MOD |-> 2, MODRM_REG |-> 3, MODRM_RM |-> 4,
   MANDATORY |-> 5, X87 |-> 6, ADDRESS_SIZE |-> 7, OPERAND_SIZE |-> 8, MODE |-> 9,
   VENDOR |-> 10, AMD3DNOW |-> 11, VEX |-> 12, VEXW |-> 13, VEXL |-> 14]

GetOpcodeNodeType(node)  == node \div NodeValues
GetOpcodeNodeValue(node) == node % NodeValues
GetOpcodeTreeRoot        == OpcodeTreeNodeType.TABLE * NodeValues

IsNode(node, type) == GetOpcodeNodeType(node) = OpcodeTreeNodeType[type]

(* How many children GetOpcodeTreeChild asserts a node to have.            *)
AssertedChildren ==
  [TABLE |-> 256, MODRM_MOD |-> 2, MODRM_REG |-> 8, MODRM_RM |-> 8, MANDATORY |-> 4,
   X87 |-> 64, ADDRESS_SIZE |-> 3, OPERAND_SIZE |-> 3, MODE |-> 2, VENDOR |-> 3,
   AMD3DNOW |-> 256, VEX |-> 16, VEXW |-> 2, VEXL |-> 2]

Children(node) ==
  AssertedChildren[CHOOSE type \in DOMAIN AssertedChildren : IsNode(node, type)]

(* GetOpcodeTreeChild asserts that there is such a child.  A run that came *)
(* to one the model is not given would stop there, as a deadlock.          *)
HasChild(parent, index)           == index \in DOMAIN optree[parent]
GetOpcodeTreeChild(parent, index) == optree[parent][index]

GetInstructionDefinition(node) == instrDefinitions[GetOpcodeNodeValue(node)]

(* The operand types and sizes of the modelled definitions: a general      *)
(* register or memory (E), a general register (G), an immediate, plain or  *)
(* signed (I, sI), a relative address (J), an XMM register (V), an XMM     *)
(* register or memory (W), the register of the opcode (R0), and AL; an     *)
(* operand size of the mode, at most 32 bits of it (Z), bytes, or 128 bits.*)
DefinedOperandType == {"E", "G", "I", "sI", "J", "V", "W", "R0", "AL"}
DefinedOperandSize == {"Z", "V", "B", "DQ"}

GetSimpleOperandSize ==
  [B |-> 8, W |-> 16, D |-> 32, Q |-> 64, T |-> 80, O |-> 12, DQ |-> 128, QQ |-> 256]

(* The flags a decoder in 64-bit mode that keeps no access modes reads.    *)
InstructionDefinitionFlags ==
  {"IDF_ACCEPTS_REXB", "IDF_ACCEPTS_REXX", "IDF_ACCEPTS_REXR", "IDF_ACCEPTS_REXW",
   "IDF_INVALID_64", "IDF_DEFAULT_64"}

OperandDefinition == [type : DefinedOperandType, size : DefinedOperandSize]
InstructionDefinition ==
  [mnemonic : STRING, operand : Seq(OperandDefinition),
   flags : SUBSET InstructionDefinitionFlags]

(* The tables a decoder passes on its way from one of them, with no more   *)
(* than the bytes it has: a table of opcode bytes is left with a further   *)
(* one, every other by what is known of the instruction.                   *)
Below(parent) ==
  IF IsNode(parent, "TABLE") THEN {}
  ELSE DOMAIN optree \cap {GetOpcodeTreeChild(parent, index) : index \in DOMAIN optree[parent]}

Reached(node) ==
  {other \in DOMAIN optree : \A nodes \in SUBSET DOMAIN optree :
     node \in nodes /\ (\A parent \in nodes : Below(parent) \subseteq nodes) => other \in nodes}

TablesReached == [node \in DOMAIN optree |-> Cardinality(Reached(node))]
Height(node)  == IF node \in DOMAIN optree THEN TablesReached[node] ELSE 0

(* The tree is closed: a child is a table of the tree, a definition, or    *)
(* the leaf 0 of no instruction.  It is a tree: no such way comes back.    *)
(* No number is longer than eight bytes, and the r/m field of the one      *)
(* ModR/M byte stands for one operand.                                     *)
ASSUME TreeAssumption ==
  /\ GetOpcodeTreeRoot \in DOMAIN optree
  /\ DOMAIN optree \subseteq NodeValues .. 15 * NodeValues - 1
  /\ \A node \in DOMAIN optree : \A index \in DOMAIN optree[node] :
       /\ index \in 0 .. Children(node) - 1
       /\ LET child == GetOpcodeTreeChild(node, index) IN
          \/ child \in DOMAIN optree
          \/ child \in DOMAIN instrDefinitions \cup {0}
  /\ \A parent \in DOMAIN optree : \A child \in Below(parent) : parent \notin Reached(child)
  /\ \A value \in DOMAIN instrDefinitions :
       /\ instrDefinitions[value] \in InstructionDefinition
       /\ LET operand == instrDefinitions[value].operand IN
          /\ \A i \in DOMAIN operand : operand[i].type \in {"sI", "J"} => operand[i].size # "DQ"
          /\ \A i, j \in DOMAIN operand :
               operand[i].type \in {"E", "W"} /\ operand[j].type \in {"E", "W"} => i = j
       /\ value \in 1 .. NodeValues - 1
=============================================================================
