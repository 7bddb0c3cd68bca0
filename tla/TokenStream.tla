---------------------------- MODULE TokenStream ----------------------------
(***************************************************************************)
(* What ParseState.token promises the parser: every LexNextToken puts      *)
(* either the next lexeme of the file or EndOfBuffer there, and once it    *)
(* holds EndOfBuffer it holds it for ever.  The parser is written against  *)
(* this module and the lexer is shown to implement it.                     *)
(***************************************************************************)
EXTENDS Naturals

CONSTANTS
  Name,       \* spellings of identifiers
  NoName,     \* stands for the text of every token that is no identifier
  Operator,   \* the operator symbols that occur in the file
  MaxTokens   \* no file holds more lexemes than this

ASSUME NoNameAssumption    == NoName \notin Name
ASSUME OperatorAssumption  == Operator \subseteq {"Plus", "Minus", "Asterisk", "FowardSlash"}
ASSUME MaxTokensAssumption == MaxTokens \in Nat

VARIABLES
  token,   \* ParseState.token
  pos      \* how many lexemes were lexed: where token stands in the file

Symbol == Operator \cup {"DoubleColon", "Colon", "ParenOpen", "ParenClose",
                         "BlockOpen", "BlockClose", "Comma"}

Lexeme == [type : Symbol \cup {"Number"}, name : {NoName}]
            \cup [type : {"Identifier"}, name : Name]

Invalid     == [type |-> "Invalid", name |-> NoName]
EndOfBuffer == [type |-> "EndOfBuffer", name |-> NoName]
Token       == Lexeme \cup {Invalid, EndOfBuffer}

StreamInit == token = Invalid /\ pos = 0

(* One call of LexNextToken.  It may find EndOfBuffer at any point: the    *)
(* file may be that short, or hold a character that starts no lexeme.      *)
NextLexeme ==
  /\ token # EndOfBuffer
  /\ pos < MaxTokens
  /\ token' \in Lexeme
  /\ pos' = pos + 1

NextEndOfBuffer ==
  /\ token' = EndOfBuffer
  /\ UNCHANGED pos

LexNextToken == NextLexeme \/ NextEndOfBuffer

StreamSpec == StreamInit /\ [][LexNextToken]_<<token, pos>>
=============================================================================
