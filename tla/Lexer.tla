------------------------------- MODULE Lexer -------------------------------
(***************************************************************************)
(* LexNextToken of main.cpp over a NUL-terminated source buffer.  Bytes    *)
(* are abstracted to the classes the lexer tells apart: "letter" is what   *)
(* isalpha accepts or '_', "other" a byte that starts no lexeme.           *)
(***************************************************************************)
EXTENDS Naturals, Sequences, FiniteSets

CONSTANTS
  Char,       \* the classes of the bytes a source file is made of
  MaxLength   \* length of the longest source file

ASSUME CharAssumption ==
  Char \subseteq {"space", "digit", "letter", "other", "+", "-", "*", "/",
                  ":", "(", ")", "{", "}", ","}
ASSUME MaxLengthAssumption == MaxLength \in Nat

VARIABLES
  source,    \* the buffer ParseFile read, its NUL included
  current,   \* ParseState.current, an index of source
  token,     \* ParseState.token
  lexed      \* the lexemes found so far (history)

vars == <<source, current, token, lexed>>

(* The symbols in the order LexNextToken tries them. *)
SymbolMetaListColonFirst ==   \* mutant: Colon listed before DoubleColon
  << [type |-> "Plus",        text |-> <<"+">>],
     [type |-> "Colon",       text |-> <<":">>],
     [type |-> "DoubleColon", text |-> <<":", ":">>],
     [type |-> "ParenOpen",   text |-> <<"(">>] >>

SymbolMetaList ==
  << [type |-> "Plus",        text |-> <<"+">>],
     [type |-> "Minus",       text |-> <<"-">>],
     [type |-> "Asterisk",    text |-> <<"*">>],
     [type |-> "FowardSlash", text |-> <<"/">>],
     [type |-> "DoubleColon", text |-> <<":", ":">>],
     [type |-> "Colon",       text |-> <<":">>],
     [type |-> "ParenOpen",   text |-> <<"(">>],
     [type |-> "ParenClose",  text |-> <<")">>],
     [type |-> "BlockOpen",   text |-> <<"{">>],
     [type |-> "BlockClose",  text |-> <<"}">>],
     [type |-> "Comma",       text |-> <<",">>] >>

(* StringMatches stops at the first byte that differs, hence at the NUL.   *)
StringMatches(text, p) ==
  /\ p + Len(text) <= Len(source)
  /\ \A i \in DOMAIN text : source[p + i - 1] = text[i]

(* Where a loop that advances while it sees a byte of class S stops.       *)
SkipWhile(S, p) ==
  CHOOSE q \in p .. Len(source) :
    source[q] \notin S /\ \A r \in p .. q - 1 : source[r] \in S

Number(p)     == [type |-> "Number",     text |-> p, length |-> SkipWhile({"digit"}, p) - p]
Identifier(p) == [type |-> "Identifier", text |-> p,
                  length |-> SkipWhile({"letter", "digit"}, p) - p]
EndOfBuffer   == [type |-> "EndOfBuffer", text |-> 0, length |-> 0]

LengthSizeof(symbol) == Len(symbol.text) + 1   \* mutant: the NUL counted

SymbolLength(symbol) == Len(symbol.text)         \* sizeof(string) - 1

SymbolAt(p) ==
  LET matching == {k \in DOMAIN SymbolMetaList : StringMatches(SymbolMetaList[k].text, p)}
      symbol   == SymbolMetaList[CHOOSE k \in matching : \A j \in matching : k <= j]
  IN  IF matching = {} THEN EndOfBuffer
      ELSE [type |-> symbol.type, text |-> p, length |-> SymbolLength(symbol)]

TokenAtSkips(p) ==   \* mutant: an unknown byte is skipped
  CASE source[p] = "digit"  -> Number(p)
    [] source[p] = "letter" -> Identifier(p)
    [] source[p] = "other"  -> [EndOfBuffer EXCEPT !.length = 1]
    [] OTHER                -> SymbolAt(p)

TokenAt(p) ==
  CASE source[p] = "digit"  -> Number(p)
    [] source[p] = "letter" -> Identifier(p)
    [] OTHER                -> SymbolAt(p)

Init ==
  /\ \E n \in 0 .. MaxLength : \E text \in [1 .. n -> Char] : source = Append(text, "NUL")
  /\ current = 1
  /\ token = [type |-> "Invalid", text |-> 0, length |-> 0]
  /\ lexed = << >>

LexNextToken ==
  LET start == SkipWhile({"space"}, current)
      found == TokenAt(start)
  IN  /\ token' = found
      /\ current' = start + found.length
      /\ lexed' = IF found = EndOfBuffer THEN lexed ELSE Append(lexed, found)
      /\ UNCHANGED source

Next == LexNextToken

Spec == Init /\ [][Next]_vars
-----------------------------------------------------------------------------
SymbolType == {"Plus", "Minus", "Asterisk", "FowardSlash", "DoubleColon", "Colon",
               "ParenOpen", "ParenClose", "BlockOpen", "BlockClose", "Comma"}
LexemeType == SymbolType \cup {"Number", "Identifier"}

TypeOK ==
  /\ source \in Seq(Char \cup {"NUL"})
  /\ current \in 1 .. Len(source)
  /\ token.length \in Nat
  /\ lexed \in Seq([type : LexemeType, text : 1 .. Len(source), length : Nat \ {0}])

(* The lexemes found so far and white space tile what was read: no byte is *)
(* lost between two tokens and none belongs to two of them.                *)
Tiling ==
  \A i \in 1 .. current - 1 :
    Cardinality({k \in DOMAIN lexed :
                   i \in lexed[k].text .. lexed[k].text + lexed[k].length - 1})
      = IF source[i] = "space" THEN 0 ELSE 1

(* Every lexeme is as long as it can be; in particular "::" is never read  *)
(* as two colons.                                                          *)
MaximalMunch ==
  \A k \in DOMAIN lexed :
    LET next == source[lexed[k].text + lexed[k].length]
    IN  next \notin CASE lexed[k].type = "Number"     -> {"digit"}
                      [] lexed[k].type = "Identifier" -> {"letter", "digit"}
                      [] lexed[k].type = "Colon"      -> {":"}
                      [] OTHER                        -> {}

(* ParseFile takes the token EndOfBuffer for the end of the buffer: its    *)
(* last check (main.cpp:382) accepts the file when it sees that token.     *)
EndOfBufferIsEnd ==
  token.type = "EndOfBuffer" => source[current] = "NUL"

(* The lexer implements the token stream the parser is written against.    *)
Stream == INSTANCE TokenStream WITH
  Name      <- Seq({"letter", "digit"}) \ {<< >>},
  NoName    <- << >>,
  Operator  <- {"Plus", "Minus", "Asterisk", "FowardSlash"},
  MaxTokens <- MaxLength,
  token     <- [type |-> token.type,
                name |-> IF token.type = "Identifier"
                         THEN SubSeq(source, token.text, token.text + token.length - 1)
                         ELSE << >>],
  pos       <- Len(lexed)

ImplementsTokenStream == Stream!StreamSpec
=============================================================================
