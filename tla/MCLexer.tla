------------------------------ MODULE MCLexer ------------------------------
EXTENDS Lexer

MCChar == {"space", "digit", "letter", "other", ":", "("}
=============================================================================
