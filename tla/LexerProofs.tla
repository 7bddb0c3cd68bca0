----------------------------- MODULE LexerProofs -----------------------------
(***************************************************************************)
(* What is proved of the lexer for every alphabet and every length of the  *)
(* source file: its lexemes tile what was read, each is as long as it can  *)
(* be, and what the parser sees is a token stream.                         *)
(***************************************************************************)
EXTENDS Lexer, TLAPS, FiniteSetTheorems, NaturalsInduction, WellFoundedInduction

Found == [type : LexemeType, text : 1 .. Len(source), length : Nat \ {0}]

Span(lexeme) == lexeme.text .. lexeme.text + lexeme.length - 1
Behind(lexeme) == lexeme.text + lexeme.length

(* The bytes a lexeme of a type does not stop in front of.                 *)
Continues(type) ==
  CASE type = "Number"     -> {"digit"}
    [] type = "Identifier" -> {"letter", "digit"}
    [] type = "Colon"      -> {":"}
    [] OTHER               -> {}

IsLexeme(lexeme) ==
  /\ lexeme \in Found
  /\ Behind(lexeme) <= Len(source)
  /\ \A i \in Span(lexeme) : source[i] # "space"
  /\ lexeme.type = "Identifier" => \A i \in Span(lexeme) : source[i] \in {"letter", "digit"}
  /\ source[Behind(lexeme)] \notin Continues(lexeme.type)

NothingAt(p) ==
  /\ source[p] \notin {"digit", "letter"}
  /\ \A k \in DOMAIN SymbolMetaList : ~StringMatches(SymbolMetaList[k].text, p)
-----------------------------------------------------------------------------
(* ParseFile's buffer: its only NUL is the last byte.                      *)
SourceOK ==
  /\ source \in Seq(Char \cup {"NUL"})
  /\ Len(source) \in 1 .. MaxLength + 1
  /\ \A i \in 1 .. Len(source) : source[i] = "NUL" <=> i = Len(source)

LEMMA SourceInit == Init => SourceOK
<1>. SUFFICES ASSUME Init PROVE SourceOK
  OBVIOUS
<1>1. PICK n \in 0 .. MaxLength : \E text \in [1 .. n -> Char] : source = Append(text, "NUL")
  BY DEF Init
<1>2. PICK text \in [1 .. n -> Char] : source = Append(text, "NUL")
  BY <1>1
<1>3. n \in Nat /\ n <= MaxLength
  BY <1>1, MaxLengthAssumption
<1>4. text \in Seq(Char) /\ Len(text) = n
  BY <1>3
<1>5. /\ source \in Seq(Char \cup {"NUL"}) /\ Len(source) = n + 1
      /\ \A i \in 1 .. n : source[i] \in Char
      /\ source[n + 1] = "NUL"
  BY <1>2, <1>3, <1>4
<1>6. "NUL" \notin Char
  BY CharAssumption
<1>. QED
  BY <1>3, <1>5, <1>6, MaxLengthAssumption DEF SourceOK

LEMMA LeastIndex ==
  ASSUME NEW I \in SUBSET Nat, I # {}
  PROVE  \E k \in I : \A j \in I : k <= j
<1>. DEFINE Less == {p \in Nat \X Nat : p[1] < p[2]}
<1>1. Less = OpToRel(<, Nat)
  BY Zenon DEF OpToRel
<1>2. PICK k \in I : \A j \in I : <<j, k>> \notin Less
  <2>1. IsWellFoundedOn(Less, Nat)
    BY <1>1, NatLessThanWellFounded
  <2>. HIDE DEF Less
  <2>. QED
    BY <2>1, WFMin, Zenon
<1>3. ASSUME NEW j \in I PROVE k <= j
  <2>1. ~(j < k)
    BY <1>2, <<j, k>> \in Nat \X Nat
  <2>. QED
    BY <2>1
<1>. QED
  BY <1>3

(* A loop that does not run over NUL stops inside the buffer, at the first *)
(* byte it does not run over.                                              *)
LEMMA SkipStops ==
  ASSUME SourceOK, NEW S, "NUL" \notin S, NEW p \in 1 .. Len(source)
  PROVE  /\ SkipWhile(S, p) \in p .. Len(source)
         /\ source[SkipWhile(S, p)] \notin S
         /\ \A r \in p .. SkipWhile(S, p) - 1 : source[r] \in S
<1>. DEFINE I == {q \in p .. Len(source) : source[q] \notin S}
<1>1. Len(source) \in Nat /\ p \in Nat
  BY DEF SourceOK
<1>2. Len(source) \in I
  BY <1>1 DEF SourceOK
<1>3. I \in SUBSET Nat /\ I # {}
  BY <1>1, <1>2
<1>4. PICK q \in I : \A j \in I : q <= j
  <2>. HIDE DEF I
  <2>. QED
    BY <1>3, LeastIndex
<1>5. /\ q \in p .. Len(source) /\ source[q] \notin S
      /\ \A r \in p .. q - 1 : source[r] \in S
  BY <1>1, <1>4
<1>. QED
  BY <1>5 DEF SkipWhile

-----------------------------------------------------------------------------
LEMMA SymbolCount ==
  /\ DOMAIN SymbolMetaList = 1 .. 11
  /\ SymbolMetaList[6].text = <<":">> /\ SymbolMetaList[5].text = <<":", ":">>
BY DEF SymbolMetaList

Punctuation == {"+", "-", "*", "/", ":", "(", ")", "{", "}", ","}

IsSymbol(symbol) ==
  /\ symbol.type \in SymbolType
  /\ Len(symbol.text) \in {1, 2} /\ DOMAIN symbol.text = 1 .. Len(symbol.text)
  /\ \A i \in 1 .. Len(symbol.text) : symbol.text[i] \in Punctuation

LEMMA Spelled ==
  ASSUME NEW type \in SymbolType, NEW c \in Punctuation
  PROVE  /\ IsSymbol([type |-> type, text |-> <<c>>])
         /\ [type |-> type, text |-> <<c>>].type = type
<1>. DEFINE text == <<c>>
<1>1. Len(text) = 1 /\ DOMAIN text = 1 .. 1 /\ text[1] = c
  OBVIOUS
<1>. HIDE DEF text
<1>. DEFINE symbol == [type |-> type, text |-> text]
<1>2. symbol.type = type /\ symbol.text = text
  OBVIOUS
<1>. HIDE DEF symbol
<1>3. Len(symbol.text) = 1 /\ DOMAIN symbol.text = 1 .. Len(symbol.text)
  BY <1>1, <1>2
<1>4. ASSUME NEW i \in 1 .. Len(symbol.text) PROVE symbol.text[i] \in Punctuation
  <2>1. i = 1
    BY <1>3
  <2>. QED
    BY <1>1, <1>2, <2>1
<1>5. IsSymbol(symbol) /\ symbol.type = type
  BY <1>2, <1>3, <1>4 DEF IsSymbol
<1>. QED
  BY <1>5 DEF symbol, text

LEMMA ColonsSpelled == IsSymbol([type |-> "DoubleColon", text |-> <<":", ":">>])
<1>. DEFINE text == <<":", ":">>
<1>1. Len(text) = 2 /\ DOMAIN text = 1 .. 2 /\ text[1] = ":" /\ text[2] = ":"
  OBVIOUS
<1>. HIDE DEF text
<1>. DEFINE symbol == [type |-> "DoubleColon", text |-> text]
<1>2. symbol.type = "DoubleColon" /\ symbol.text = text
  OBVIOUS
<1>. HIDE DEF symbol
<1>3. Len(symbol.text) = 2 /\ DOMAIN symbol.text = 1 .. Len(symbol.text)
  BY <1>1, <1>2
<1>4. ASSUME NEW i \in 1 .. Len(symbol.text) PROVE symbol.text[i] \in Punctuation
  <2>1. i = 1 \/ i = 2
    BY <1>3
  <2>2. symbol.text[i] = ":"
    BY <1>1, <1>2, <2>1
  <2>. QED
    BY <2>2 DEF Punctuation
<1>5. symbol.type \in SymbolType
  BY <1>2 DEF SymbolType
<1>6. IsSymbol(symbol)
  BY <1>3, <1>4, <1>5 DEF IsSymbol
<1>. QED
  BY <1>6 DEF symbol, text

LEMMA SymbolFacts ==
  ASSUME NEW k \in 1 .. 11
  PROVE  /\ IsSymbol(SymbolMetaList[k])
         /\ SymbolMetaList[k].type = "Colon" => k = 6
<1>1. CASE k = 1
  <2>1. SymbolMetaList[k] = [type |-> "Plus", text |-> <<"+">>]
    BY <1>1 DEF SymbolMetaList
  <2>2. IsSymbol(SymbolMetaList[k])
    BY <2>1, Spelled, ZenonT(60) DEF SymbolType, Punctuation
  <2>. QED
    BY <1>1, <2>1, <2>2
<1>2. CASE k = 2
  <2>1. SymbolMetaList[k] = [type |-> "Minus", text |-> <<"-">>]
    BY <1>2 DEF SymbolMetaList
  <2>2. IsSymbol(SymbolMetaList[k])
    BY <2>1, Spelled, ZenonT(60) DEF SymbolType, Punctuation
  <2>. QED
    BY <1>2, <2>1, <2>2
<1>3. CASE k = 3
  <2>1. SymbolMetaList[k] = [type |-> "Asterisk", text |-> <<"*">>]
    BY <1>3 DEF SymbolMetaList
  <2>2. IsSymbol(SymbolMetaList[k])
    BY <2>1, Spelled, ZenonT(60) DEF SymbolType, Punctuation
  <2>. QED
    BY <1>3, <2>1, <2>2
<1>4. CASE k = 4
  <2>1. SymbolMetaList[k] = [type |-> "FowardSlash", text |-> <<"/">>]
    BY <1>4 DEF SymbolMetaList
  <2>2. IsSymbol(SymbolMetaList[k])
    BY <2>1, Spelled, ZenonT(60) DEF SymbolType, Punctuation
  <2>. QED
    BY <1>4, <2>1, <2>2
<1>5. CASE k = 5
  <2>1. SymbolMetaList[k] = [type |-> "DoubleColon", text |-> <<":", ":">>]
    BY <1>5 DEF SymbolMetaList
  <2>2. IsSymbol(SymbolMetaList[k])
    BY <2>1, ColonsSpelled, ZenonT(60) DEF SymbolType, Punctuation
  <2>. QED
    BY <1>5, <2>1, <2>2
<1>6. CASE k = 6
  <2>1. SymbolMetaList[k] = [type |-> "Colon", text |-> <<":">>]
    BY <1>6 DEF SymbolMetaList
  <2>2. IsSymbol(SymbolMetaList[k])
    BY <2>1, Spelled, ZenonT(60) DEF SymbolType, Punctuation
  <2>. QED
    BY <1>6, <2>1, <2>2
<1>7. CASE k = 7
  <2>1. SymbolMetaList[k] = [type |-> "ParenOpen", text |-> <<"(">>]
    BY <1>7 DEF SymbolMetaList
  <2>2. IsSymbol(SymbolMetaList[k])
    BY <2>1, Spelled, ZenonT(60) DEF SymbolType, Punctuation
  <2>. QED
    BY <1>7, <2>1, <2>2
<1>8. CASE k = 8
  <2>1. SymbolMetaList[k] = [type |-> "ParenClose", text |-> <<")">>]
    BY <1>8 DEF SymbolMetaList
  <2>2. IsSymbol(SymbolMetaList[k])
    BY <2>1, Spelled, ZenonT(60) DEF SymbolType, Punctuation
  <2>. QED
    BY <1>8, <2>1, <2>2
<1>9. CASE k = 9
  <2>1. SymbolMetaList[k] = [type |-> "BlockOpen", text |-> <<"{">>]
    BY <1>9 DEF SymbolMetaList
  <2>2. "BlockOpen" \in SymbolType /\ "{" \in Punctuation
    BY Zenon DEF SymbolType, Punctuation
  <2>3. IsSymbol(SymbolMetaList[k]) /\ SymbolMetaList[k].type = "BlockOpen"
    BY <2>1, <2>2, Spelled, Zenon
  <2>. QED
    BY <2>3, Zenon
<1>10. CASE k = 10
  <2>1. SymbolMetaList[k] = [type |-> "BlockClose", text |-> <<"}">>]
    BY <1>10 DEF SymbolMetaList
  <2>2. "BlockClose" \in SymbolType /\ "}" \in Punctuation
    BY Zenon DEF SymbolType, Punctuation
  <2>3. IsSymbol(SymbolMetaList[k]) /\ SymbolMetaList[k].type = "BlockClose"
    BY <2>1, <2>2, Spelled, Zenon
  <2>. QED
    BY <2>3, Zenon
<1>11. CASE k = 11
  <2>1. SymbolMetaList[k] = [type |-> "Comma", text |-> <<",">>]
    BY <1>11 DEF SymbolMetaList
  <2>2. "Comma" \in SymbolType /\ "," \in Punctuation
    BY Zenon DEF SymbolType, Punctuation
  <2>3. IsSymbol(SymbolMetaList[k]) /\ SymbolMetaList[k].type = "Comma"
    BY <2>1, <2>2, Spelled, Zenon
  <2>. QED
    BY <2>3, Zenon
<1>. QED
  BY <1>1, <1>2, <1>3, <1>4, <1>5, <1>6, <1>7, <1>8, <1>9, <1>10, <1>11

(* What LexNextToken finds at a byte: nothing, or the lexeme that begins   *)
(* there.                                                                  *)
LEMMA SymbolFound ==
  ASSUME SourceOK, NEW p \in 1 .. Len(source), source[p] \notin {"digit", "letter"}
  PROVE  \/ NothingAt(p) /\ SymbolAt(p) = EndOfBuffer
         \/ ~NothingAt(p) /\ SymbolAt(p).text = p /\ IsLexeme(SymbolAt(p))
<1>. DEFINE matching == {k \in DOMAIN SymbolMetaList : StringMatches(SymbolMetaList[k].text, p)}
            best == CHOOSE k \in matching : \A j \in matching : k <= j
            symbol == SymbolMetaList[best]
<1>1. SymbolAt(p) = IF matching = {} THEN EndOfBuffer
                    ELSE [type |-> symbol.type, text |-> p, length |-> Len(symbol.text)]
  BY DEF SymbolAt, SymbolLength
<1>2. CASE matching = {}
  <2>1. NothingAt(p)
    BY <1>2 DEF NothingAt
  <2>. QED
    BY <1>1, <1>2, <2>1
<1>3. CASE matching # {}
  <2>13. ~NothingAt(p)
    BY <1>3 DEF NothingAt
  <2>1. matching \in SUBSET Nat /\ matching \subseteq 1 .. 11
    BY SymbolCount
  <2>2. best \in matching /\ \A j \in matching : best <= j
    <3>. HIDE DEF matching
    <3>1. \E k \in matching : \A j \in matching : k <= j
      BY <1>3, <2>1, LeastIndex
    <3>. QED
      BY <3>1
  <2>3. best \in 1 .. 11 /\ StringMatches(SymbolMetaList[best].text, p)
    BY <2>1, <2>2
  <2>4. ~StringMatches(SymbolMetaList[5].text, p) \/ best <= 5
    <3>1. 5 \in DOMAIN SymbolMetaList
      BY SymbolCount
    <3>. HIDE DEF best
    <3>. QED
      BY <2>2, <3>1
  <2>. HIDE DEF best, matching
  <2>. HIDE DEF symbol
  <2>5. IsSymbol(symbol) /\ (symbol.type = "Colon" => best = 6)
    BY <2>3, SymbolFacts DEF symbol
  <2>. DEFINE size == Len(symbol.text)
  <2>6. p + size <= Len(source) /\ \A i \in 1 .. size : source[p + i - 1] = symbol.text[i]
    BY <2>3, <2>5 DEF StringMatches, IsSymbol, symbol
  <2>. DEFINE found == [type |-> symbol.type, text |-> p, length |-> size]
  <2>0. size \in {1, 2} /\ p \in Nat /\ Len(source) \in Nat /\ symbol.type \in SymbolType
    BY <2>5 DEF IsSymbol, SourceOK
  <2>12. \A i \in 1 .. size : symbol.text[i] \in Punctuation
    BY <2>5 DEF IsSymbol
  <2>. HIDE DEF size
  <2>7. found \in Found /\ found.text = p /\ Behind(found) <= Len(source)
    BY <2>0, <2>6 DEF Found, LexemeType, Behind
  <2>8. \A i \in Span(found) : source[i] # "space"
    <3>. SUFFICES ASSUME NEW i \in Span(found) PROVE source[i] # "space"
      OBVIOUS
    <3>1. i \in p .. p + size - 1
      BY DEF Span
    <3>2. i - p + 1 \in 1 .. size /\ p + (i - p + 1) - 1 = i
      BY <2>0, <3>1
    <3>3. source[i] = symbol.text[i - p + 1]
      BY <2>6, <3>2
    <3>. QED
      BY <2>12, <3>2, <3>3 DEF Punctuation
  <2>9. source[Behind(found)] \notin Continues(found.type)
    <3>1. CASE symbol.type = "Colon"
      <4>1. best = 6 /\ symbol.text = <<":">> /\ size = 1
        <5>1. best = 6 /\ symbol.text = <<":">>
          BY <2>5, <3>1, SymbolCount DEF symbol
        <5>. QED
          BY <5>1 DEF size
      <4>2. p + 1 <= Len(source) /\ source[p] = ":"
        <5>1. source[p + 1 - 1] = symbol.text[1] /\ p + 1 - 1 = p
          BY <2>0, <2>6, <4>1
        <5>. QED
          BY <2>6, <4>1, <5>1
      <4>3. ~StringMatches(<<":", ":">>, p)
        BY <2>4, <4>1, SymbolCount
      <4>4. ASSUME source[p + 1] = ":" PROVE FALSE
        <5>1. p + 1 # Len(source)
          BY <4>2, <4>4 DEF SourceOK
        <5>2. p + 2 <= Len(source)
          BY <4>2, <5>1 DEF SourceOK
        <5>. QED
          BY <4>2, <4>3, <4>4, <5>2 DEF StringMatches
      <4>. QED
        BY <3>1, <4>1, <4>4 DEF Behind, Continues
    <3>2. CASE symbol.type # "Colon"
      BY <2>0, <3>2 DEF Continues, SymbolType
    <3>. QED
      BY <3>1, <3>2
  <2>10. found.type # "Identifier"
    BY <2>0 DEF SymbolType
  <2>11. IsLexeme(found)
    BY <2>7, <2>8, <2>9, <2>10 DEF IsLexeme
  <2>. QED
    BY <1>1, <1>3, <2>7, <2>11, <2>13 DEF symbol, size
<1>. QED
  BY <1>2, <1>3

LEMMA TokenFound ==
  ASSUME SourceOK, NEW p \in 1 .. Len(source)
  PROVE  \/ NothingAt(p) /\ TokenAt(p) = EndOfBuffer
         \/ ~NothingAt(p) /\ TokenAt(p).text = p /\ IsLexeme(TokenAt(p))
<1>0. Len(source) \in Nat /\ p \in Nat
  BY DEF SourceOK
<1>1. CASE source[p] = "digit"
  <2>. DEFINE q == SkipWhile({"digit"}, p)
              found == [type |-> "Number", text |-> p, length |-> q - p]
  <2>1. TokenAt(p) = found
    BY <1>1 DEF TokenAt, Number
  <2>2. /\ q \in p .. Len(source) /\ source[q] \notin {"digit"}
        /\ \A r \in p .. q - 1 : source[r] \in {"digit"}
    BY SkipStops
  <2>. HIDE DEF q
  <2>3. q \in Nat /\ q > p
    BY <1>0, <1>1, <2>2
  <2>. QED
    BY <1>0, <1>1, <2>1, <2>2, <2>3 DEF NothingAt, IsLexeme, Found, LexemeType, Behind, Span, Continues
<1>2. CASE source[p] = "letter"
  <2>. DEFINE q == SkipWhile({"letter", "digit"}, p)
              found == [type |-> "Identifier", text |-> p, length |-> q - p]
  <2>1. TokenAt(p) = found
    BY <1>2 DEF TokenAt, Identifier
  <2>2. /\ q \in p .. Len(source) /\ source[q] \notin {"letter", "digit"}
        /\ \A r \in p .. q - 1 : source[r] \in {"letter", "digit"}
    BY SkipStops
  <2>. HIDE DEF q
  <2>3. q \in Nat /\ q > p
    BY <1>0, <1>2, <2>2
  <2>. QED
    BY <1>0, <1>2, <2>1, <2>2, <2>3, SMTT(30) DEF NothingAt, IsLexeme, Found, LexemeType, Behind, Span, Continues
<1>3. CASE source[p] \notin {"digit", "letter"}
  BY <1>3, SymbolFound DEF TokenAt
<1>. QED
  BY <1>1, <1>2, <1>3
-----------------------------------------------------------------------------
(***************************************************************************)
(* The lexemes found stand in the order of the source, apart and behind    *)
(* the reading position, and only white space lies between them.  Once     *)
(* the lexer finds nothing it stands where it will find nothing again.     *)
(***************************************************************************)
LexInv ==
  /\ SourceOK
  /\ current \in 1 .. Len(source) /\ token.length \in Nat
  /\ lexed \in Seq(Found) /\ Len(lexed) < current
  /\ \A k \in 1 .. Len(lexed) : IsLexeme(lexed[k]) /\ Behind(lexed[k]) <= current
  /\ \A j, k \in 1 .. Len(lexed) : j < k => Behind(lexed[j]) <= lexed[k].text
  /\ \A i \in 1 .. current - 1 :
       source[i] = "space" \/ \E k \in 1 .. Len(lexed) : i \in Span(lexed[k])
  /\ token.type = "EndOfBuffer" => source[current] # "space" /\ NothingAt(current)

LEMMA LexInit == Init => LexInv
<1>. SUFFICES ASSUME Init PROVE LexInv
  OBVIOUS
<1>1. /\ current = 1 /\ lexed = << >> /\ token = [type |-> "Invalid", text |-> 0, length |-> 0]
  BY DEF Init
<1>2. SourceOK /\ current \in 1 .. Len(source)
  BY <1>1, SourceInit DEF SourceOK
<1>3. lexed \in Seq(Found) /\ Len(lexed) = 0 /\ token.length = 0 /\ token.type = "Invalid"
  BY <1>1
<1>. QED
  BY <1>1, <1>2, <1>3 DEF LexInv

(* A step runs over white space, and either finds nothing there and stays  *)
(* or appends the lexeme it finds.                                         *)
Finds(start, found) ==
  /\ start \in current .. Len(source) /\ source[start] # "space"
  /\ \A r \in current .. start - 1 : source[r] = "space"
  /\ token' = found /\ UNCHANGED source
  /\ \/ /\ found = EndOfBuffer /\ NothingAt(start)
        /\ current' = start /\ UNCHANGED lexed
     \/ /\ ~NothingAt(start) /\ found.text = start /\ IsLexeme(found)
        /\ current' = Behind(found) /\ lexed' = Append(lexed, found)

LEMMA StepFinds ==
  ASSUME LexInv, LexNextToken
  PROVE  Finds(SkipWhile({"space"}, current), TokenAt(SkipWhile({"space"}, current)))
<1>. DEFINE start == SkipWhile({"space"}, current)
            found == TokenAt(start)
<1>1. /\ token' = found /\ UNCHANGED source /\ current' = start + found.length
      /\ lexed' = IF found = EndOfBuffer THEN lexed ELSE Append(lexed, found)
  BY DEF LexNextToken
<1>2. /\ start \in current .. Len(source) /\ source[start] \notin {"space"}
      /\ \A r \in current .. start - 1 : source[r] \in {"space"}
  BY SkipStops DEF LexInv
<1>. HIDE DEF start
<1>3. start \in 1 .. Len(source)
  BY <1>2 DEF LexInv, SourceOK
<1>4. \/ NothingAt(start) /\ found = EndOfBuffer
      \/ ~NothingAt(start) /\ found.text = start /\ IsLexeme(found)
  BY <1>3, TokenFound DEF LexInv
<1>. HIDE DEF found
<1>5. CASE NothingAt(start) /\ found = EndOfBuffer
  <2>1. current' = start /\ UNCHANGED lexed
    BY <1>1, <1>3, <1>5 DEF EndOfBuffer
  <2>. QED
    BY <1>1, <1>2, <1>5, <2>1 DEF Finds, start, found
<1>6. CASE ~NothingAt(start) /\ found.text = start /\ IsLexeme(found)
  <2>1. found # EndOfBuffer
    BY <1>6 DEF IsLexeme, Found, LexemeType, SymbolType, EndOfBuffer
  <2>2. current' = Behind(found) /\ lexed' = Append(lexed, found)
    BY <1>1, <1>6, <2>1 DEF Behind
  <2>. QED
    BY <1>1, <1>2, <1>6, <2>2 DEF Finds, start, found
<1>. QED
  BY <1>4, <1>5, <1>6

LEMMA LexStep == LexInv /\ [Next]_vars => LexInv'
<1>. SUFFICES ASSUME LexInv, [Next]_vars PROVE LexInv'
  OBVIOUS
<1>1. CASE UNCHANGED vars
  BY <1>1 DEF vars, LexInv, SourceOK, Found, IsLexeme, NothingAt, StringMatches
<1>2. CASE LexNextToken
  <2>1. PICK start, found : Finds(start, found)
    BY <1>2, StepFinds
  <2>2. /\ start \in current .. Len(source) /\ source[start] # "space"
        /\ \A r \in current .. start - 1 : source[r] = "space"
        /\ token' = found /\ source' = source
    BY <2>1 DEF Finds
  <2>3. SourceOK' /\ Found' = Found
    BY <2>2 DEF LexInv, SourceOK, Found
  <2>4. /\ Len(source) \in Nat /\ current \in Nat /\ start \in Nat /\ current >= 1
        /\ lexed \in Seq(Found) /\ Len(lexed) \in Nat
    <3>. HIDE DEF Found
    <3>. QED
      BY <2>2 DEF LexInv, SourceOK
  <2>5. CASE /\ found = EndOfBuffer /\ NothingAt(start)
             /\ current' = start /\ UNCHANGED lexed
    <3>1. token'.length = 0 /\ token'.type = "EndOfBuffer"
      BY <2>2, <2>5 DEF EndOfBuffer
    <3>2. NothingAt(current)'
      BY <2>2, <2>5 DEF NothingAt, StringMatches
    <3>3. ASSUME NEW i \in 1 .. current' - 1
          PROVE  source'[i] = "space" \/ \E k \in 1 .. Len(lexed') : i \in Span(lexed'[k])
      <4>1. i \in 1 .. current - 1 \/ i \in current .. start - 1
        BY <2>4, <2>5
      <4>. QED
        BY <2>2, <2>5, <4>1 DEF LexInv
    <3>4. ASSUME NEW k \in 1 .. Len(lexed') PROVE IsLexeme(lexed[k])' /\ Behind(lexed'[k]) <= current'
      <4>1. IsLexeme(lexed[k]) /\ Behind(lexed[k]) <= current
        BY <2>5 DEF LexInv
      <4>2. Behind(lexed[k]) \in Nat
        BY <4>1 DEF IsLexeme, Found, Behind
      <4>3. IsLexeme(lexed[k])'
        BY <2>2, <2>3, <2>5, <4>1 DEF IsLexeme, Span, Behind
      <4>4. current <= current'
        BY <2>2, <2>4, <2>5
      <4>. QED
        BY <2>4, <2>5, <4>1, <4>2, <4>3, <4>4
    <3>5. \A j, k \in 1 .. Len(lexed') : j < k => Behind(lexed'[j]) <= lexed'[k].text
      BY <2>5 DEF LexInv
    <3>6. current' \in 1 .. Len(source') /\ lexed' \in Seq(Found') /\ Len(lexed') < current'
      <4>1. Len(lexed) < current
        BY DEF LexInv
      <4>. QED
        BY <2>2, <2>3, <2>4, <2>5, <4>1
    <3>. QED
      BY <2>2, <2>3, <2>5, <3>1, <3>2, <3>3, <3>4, <3>5, <3>6 DEF LexInv
  <2>6. CASE /\ found.text = start /\ IsLexeme(found)
             /\ current' = Behind(found) /\ lexed' = Append(lexed, found)
    <3>1. /\ found \in Found /\ Behind(found) \in Nat /\ Behind(found) <= Len(source)
          /\ Behind(found) > start /\ token'.length \in Nat /\ token'.type # "EndOfBuffer"
          /\ Span(found) = start .. Behind(found) - 1
      BY <2>2, <2>6 DEF IsLexeme, Found, Behind, Span, LexemeType, SymbolType
    <3>2. /\ Len(lexed') = Len(lexed) + 1 /\ lexed'[Len(lexed) + 1] = found
          /\ \A k \in 1 .. Len(lexed) : lexed'[k] = lexed[k]
          /\ lexed' \in Seq(Found)
      <4>. HIDE DEF Found
      <4>. QED
        BY <2>4, <2>6, <3>1
    <3>3. ASSUME NEW k \in 1 .. Len(lexed) PROVE IsLexeme(lexed[k]) /\ Behind(lexed[k]) <= current
                                                 /\ Behind(lexed[k]) \in Nat
      <4>1. IsLexeme(lexed[k]) /\ Behind(lexed[k]) <= current
        BY DEF LexInv
      <4>. QED
        BY <4>1 DEF IsLexeme, Found, Behind
    <3>4. ASSUME NEW i \in 1 .. current' - 1
          PROVE  source'[i] = "space" \/ \E k \in 1 .. Len(lexed') : i \in Span(lexed'[k])
      <4>1. \/ i \in 1 .. current - 1 \/ i \in current .. start - 1
            \/ i \in start .. Behind(found) - 1
        BY <2>4, <2>6, <3>1
      <4>2. CASE i \in 1 .. current - 1
        <5>1. source[i] = "space" \/ \E k \in 1 .. Len(lexed) : i \in Span(lexed[k])
          BY <4>2 DEF LexInv
        <5>. QED
          BY <2>2, <2>4, <3>2, <5>1
      <4>3. CASE i \in start .. Behind(found) - 1
        BY <2>4, <3>1, <3>2, <4>3
      <4>. QED
        BY <2>2, <4>1, <4>2, <4>3
    <3>5. ASSUME NEW k \in 1 .. Len(lexed') PROVE IsLexeme(lexed[k])' /\ Behind(lexed'[k]) <= current'
      <4>1. CASE k = Len(lexed) + 1
        <5>1. lexed'[k] = found /\ IsLexeme(found)
          BY <2>6, <3>2, <4>1
        <5>2. IsLexeme(lexed[k])'
          BY <2>2, <2>3, <5>1 DEF IsLexeme, Span, Behind
        <5>. QED
          BY <2>6, <3>1, <5>1, <5>2
      <4>2. CASE k \in 1 .. Len(lexed)
        <5>1. lexed'[k] = lexed[k] /\ IsLexeme(lexed[k])
          BY <3>2, <3>3, <4>2
        <5>2. IsLexeme(lexed[k])'
          BY <2>2, <2>3, <5>1 DEF IsLexeme, Span, Behind
        <5>3. current <= current'
          BY <2>2, <2>4, <2>6, <3>1
        <5>. QED
          BY <2>4, <2>6, <3>1, <3>3, <4>2, <5>1, <5>2, <5>3
      <4>. QED
        BY <2>4, <3>2, <4>1, <4>2
    <3>6. ASSUME NEW j \in 1 .. Len(lexed'), NEW k \in 1 .. Len(lexed'), j < k
          PROVE  Behind(lexed'[j]) <= lexed'[k].text
      <4>1. j \in 1 .. Len(lexed)
        BY <2>4, <3>2, <3>6
      <4>2. CASE k = Len(lexed) + 1
        BY <2>2, <2>4, <2>6, <3>2, <3>3, <4>1, <4>2
      <4>3. CASE k \in 1 .. Len(lexed)
        BY <3>2, <3>6, <4>1, <4>3 DEF LexInv
      <4>. QED
        BY <2>4, <3>2, <4>2, <4>3
    <3>7. current' \in 1 .. Len(source') /\ lexed' \in Seq(Found') /\ Len(lexed') < current'
      <4>1. Len(lexed) < current
        BY DEF LexInv
      <4>. QED
        BY <2>2, <2>3, <2>4, <2>6, <3>1, <3>2, <4>1
    <3>. QED
      BY <2>2, <2>3, <3>1, <3>4, <3>5, <3>6, <3>7 DEF LexInv
  <2>. QED
    BY <2>1, <2>5, <2>6 DEF Finds
<1>. QED
  BY <1>1, <1>2 DEF Next

LEMMA LexInvariant == Spec => []LexInv
BY LexInit, LexStep, PTL DEF Spec
-----------------------------------------------------------------------------
(* The lexer's state is of its type: it never reads past the buffer's NUL. *)
THEOREM LexerTypeCorrect == Spec => []TypeOK
<1>1. ASSUME LexInv PROVE TypeOK
  BY <1>1 DEF LexInv, SourceOK, Found, TypeOK
<1>. QED
  BY <1>1, LexInvariant, PTL

(***************************************************************************)
(* The lexemes and white space tile what was read (the loops and returns   *)
(* of LexNextToken): no byte between two tokens is lost, none is in two.   *)
(***************************************************************************)
THEOREM TilingCorrect == Spec => []Tiling
<1>1. ASSUME LexInv PROVE Tiling
  <2>. SUFFICES ASSUME NEW i \in 1 .. current - 1
                PROVE  Cardinality({k \in DOMAIN lexed : i \in Span(lexed[k])})
                         = IF source[i] = "space" THEN 0 ELSE 1
    BY DEF Tiling, Span
  <2>. DEFINE at == {k \in DOMAIN lexed : i \in Span(lexed[k])}
  <2>1. DOMAIN lexed = 1 .. Len(lexed) /\ Len(lexed) \in Nat
    <3>. HIDE DEF Found
    <3>. QED
      BY <1>1 DEF LexInv
  <2>2. CASE source[i] = "space"
    <3>1. at = {}
      BY <1>1, <2>1, <2>2 DEF LexInv, IsLexeme
    <3>. QED
      BY <2>2, <3>1, FS_EmptySet
  <2>3. CASE source[i] # "space"
    <3>1. PICK k \in 1 .. Len(lexed) : i \in Span(lexed[k])
      BY <1>1, <2>3 DEF LexInv
    <3>2. ASSUME NEW j \in 1 .. Len(lexed), i \in Span(lexed[j]), j # k PROVE FALSE
      <4>1. /\ lexed[j].text \in Nat /\ Behind(lexed[j]) \in Nat
            /\ lexed[k].text \in Nat /\ Behind(lexed[k]) \in Nat
        <5>1. IsLexeme(lexed[j]) /\ IsLexeme(lexed[k])
          BY <1>1 DEF LexInv
        <5>. QED
          BY <5>1 DEF IsLexeme, Found, Behind
      <4>2. /\ lexed[j].text <= i /\ i < Behind(lexed[j])
            /\ lexed[k].text <= i /\ i < Behind(lexed[k])
        <5>1. IsLexeme(lexed[j]) /\ IsLexeme(lexed[k])
          BY <1>1 DEF LexInv
        <5>2. \A x : IsLexeme(x) => Span(x) = x.text .. Behind(x) - 1
          BY DEF Span, Behind, IsLexeme, Found
        <5>. QED
          BY <3>1, <3>2, <4>1, <5>1, <5>2, SMTT(30)
      <4>3. Behind(lexed[j]) <= lexed[k].text \/ Behind(lexed[k]) <= lexed[j].text
        <5>1. j < k \/ k < j
          BY <2>1, <3>2
        <5>. QED
          BY <1>1, <5>1 DEF LexInv
      <4>4. i \in Nat
        OBVIOUS
      <4>. QED
        BY <4>1, <4>2, <4>3, <4>4
    <3>3. at = {k}
      BY <2>1, <3>1, <3>2
    <3>. QED
      BY <2>3, <3>3, FS_Singleton
  <2>. QED
    BY <2>2, <2>3
<1>. QED
  BY <1>1, LexInvariant, PTL

(***************************************************************************)
(* Every lexeme is as long as it can be; "::" is never two colons, since   *)
(* SymbolMetaList has DoubleColon first.                                   *)
(***************************************************************************)
THEOREM MaximalMunchCorrect == Spec => []MaximalMunch
<1>1. ASSUME LexInv PROVE MaximalMunch
  <2>1. DOMAIN lexed = 1 .. Len(lexed)
    <3>. HIDE DEF Found
    <3>. QED
      BY <1>1 DEF LexInv
  <2>2. ASSUME NEW k \in DOMAIN lexed
        PROVE  source[lexed[k].text + lexed[k].length] \notin Continues(lexed[k].type)
    BY <1>1, <2>1 DEF LexInv, IsLexeme, Behind
  <2>. QED
    BY <2>2 DEF MaximalMunch, Continues
<1>. QED
  BY <1>1, LexInvariant, PTL
-----------------------------------------------------------------------------
(* The text of an identifier is a name.                                    *)
LEMMA NameOfIdentifier ==
  ASSUME SourceOK, NEW lexeme, IsLexeme(lexeme), lexeme.type = "Identifier"
  PROVE  SubSeq(source, lexeme.text, lexeme.text + lexeme.length - 1)
           \in Seq({"letter", "digit"}) \ {<< >>}
<1>. DEFINE m == lexeme.text
            n == lexeme.text + lexeme.length - 1
            name == SubSeq(source, m, n)
<1>1. m \in 1 .. Len(source) /\ n \in m .. Len(source) /\ Len(source) \in Nat
  BY DEF IsLexeme, Found, Behind, SourceOK
<1>2. \A i \in m .. n : source[i] \in {"letter", "digit"}
  BY DEF IsLexeme, Span
<1>. HIDE DEF m, n
<1>3. name = [i \in 1 .. n - m + 1 |-> source[i + m - 1]]
  BY <1>1 DEF SubSeq
<1>4. \A i \in 1 .. n - m + 1 : i + m - 1 \in m .. n
  BY <1>1
<1>5. name \in [1 .. n - m + 1 -> {"letter", "digit"}] /\ n - m + 1 \in Nat \ {0}
  BY <1>1, <1>2, <1>3, <1>4
<1>. HIDE DEF name
<1>6. name \in Seq({"letter", "digit"}) /\ Len(name) # 0
  BY <1>5
<1>7. name # << >>
  BY <1>6
<1>. QED
  BY <1>6, <1>7 DEF name, m, n


(* ParseState.token as the parser sees it.                                 *)
NameOf(t) == IF t.type = "Identifier" THEN SubSeq(source, t.text, t.text + t.length - 1)
             ELSE << >>
Seen(t)   == [type |-> t.type, name |-> NameOf(t)]

LEMMA LexemeSeen ==
  ASSUME SourceOK, NEW lexeme, IsLexeme(lexeme)
  PROVE  Seen(lexeme) \in Stream!Lexeme
<1>. DEFINE Name == Seq({"letter", "digit"}) \ {<< >>}
            name == NameOf(lexeme)
            type == lexeme.type
<1>1. type \in LexemeType
  BY DEF IsLexeme, Found
<1>2. CASE type = "Identifier"
  <2>1. name \in Name
    BY <1>2, NameOfIdentifier DEF NameOf
  <2>. HIDE DEF Name, name, type
  <2>2. [type |-> type, name |-> name] \in [type : {"Identifier"}, name : Name]
    BY <1>2, <2>1
  <2>. QED
    BY <2>2 DEF Seen, Stream!Lexeme, Name, name, type
<1>3. CASE type # "Identifier"
  <2>1. name = << >>
    BY <1>3 DEF NameOf
  <2>2. type \in Stream!Symbol \cup {"Number"}
    BY <1>1, <1>3 DEF LexemeType, SymbolType, Stream!Symbol
  <2>. DEFINE S == Stream!Symbol \cup {"Number"}
              none == << >>
  <2>. HIDE DEF name, type, S, none
  <2>3. [type |-> type, name |-> name] \in [type : S, name : {none}]
    BY <2>1, <2>2 DEF S, none
  <2>. QED
    BY <2>3 DEF Seen, Stream!Lexeme, Name, name, type, S, none
<1>. QED
  BY <1>2, <1>3

LEMMA InitIsStreamInit == Init => Stream!StreamInit
BY DEF Init, Stream!StreamInit, Stream!Invalid

LEMMA StepIsStreamStep ==
  LexInv /\ [Next]_vars => [Stream!LexNextToken]_<<Seen(token), Len(lexed)>>
<1>. SUFFICES ASSUME LexInv, [Next]_vars
              PROVE  [Stream!LexNextToken]_<<Seen(token), Len(lexed)>>
  OBVIOUS
<1>1. CASE UNCHANGED vars
  BY <1>1 DEF vars, Seen, NameOf
<1>2. CASE LexNextToken
  <2>1. PICK start, found : Finds(start, found)
    BY <1>2, StepFinds
  <2>2. /\ start \in current .. Len(source) /\ source[start] # "space"
        /\ \A r \in current .. start - 1 : source[r] = "space"
        /\ token' = found /\ source' = source
    BY <2>1 DEF Finds
  <2>3. CASE /\ found = EndOfBuffer /\ NothingAt(start)
             /\ current' = start /\ UNCHANGED lexed
    <3>1. token'.type = "EndOfBuffer"
      BY <2>2, <2>3 DEF EndOfBuffer
    <3>2. Stream!NextEndOfBuffer
      BY <2>3, <3>1 DEF Stream!NextEndOfBuffer, Stream!EndOfBuffer
    <3>. QED
      BY <3>2 DEF Stream!LexNextToken
  <2>4. CASE /\ ~NothingAt(start) /\ found.text = start /\ IsLexeme(found)
             /\ current' = Behind(found) /\ lexed' = Append(lexed, found)
    <3>0. /\ Len(source) \in Nat /\ current \in Nat /\ lexed \in Seq(Found)
          /\ Len(lexed) \in Nat /\ Len(lexed) < current
      <4>1. /\ Len(source) \in Nat /\ current \in Nat /\ lexed \in Seq(Found)
            /\ Len(lexed) < current
        BY DEF LexInv, SourceOK
      <4>. HIDE DEF Found
      <4>. QED
        BY <4>1
    <3>1. token.type # "EndOfBuffer"
      <4>. SUFFICES ASSUME token.type = "EndOfBuffer" PROVE FALSE
        OBVIOUS
      <4>1. source[current] # "space" /\ NothingAt(current)
        BY DEF LexInv
      <4>2. start = current
        BY <2>2, <3>0, <4>1
      <4>. QED
        BY <2>4, <4>1, <4>2
    <3>2. Seen(token) # Stream!EndOfBuffer
      BY <3>1 DEF Seen, Stream!EndOfBuffer
    <3>3. Len(lexed) < MaxLength
      <4>1. start + 1 <= Len(source)
        BY <2>2, <2>4, <3>0 DEF IsLexeme, Found, Behind
      <4>2. Len(source) <= MaxLength + 1
        BY DEF LexInv, SourceOK
      <4>. QED
        BY <2>2, <3>0, <4>1, <4>2, MaxLengthAssumption
    <3>4. Seen(token)' \in Stream!Lexeme
      <4>1. Seen(found) \in Stream!Lexeme
        BY <2>4, LexemeSeen DEF LexInv
      <4>2. Seen(token)' = Seen(found)
        BY <2>2 DEF Seen, NameOf
      <4>. QED
        BY <4>1, <4>2
    <3>5. Len(lexed') = Len(lexed) + 1
      <4>1. found \in Found
        BY <2>4 DEF IsLexeme
      <4>. HIDE DEF Found
      <4>. QED
        BY <2>4, <3>0, <4>1
    <3>6. Stream!NextLexeme
      BY <3>2, <3>3, <3>4, <3>5 DEF Stream!NextLexeme, Seen, NameOf
    <3>. QED
      BY <3>6 DEF Stream!LexNextToken
  <2>. QED
    BY <2>1, <2>3, <2>4 DEF Finds
<1>. QED
  BY <1>1, <1>2 DEF Next

(***************************************************************************)
(* What the parser reads from ParseState.token is a token stream: a file's *)
(* lexemes, at most one for each byte, and then EndOfBuffer for ever.      *)
(***************************************************************************)
THEOREM LexerIsStream == Spec => ImplementsTokenStream
<1>1. LexInv /\ [Next]_vars => [Stream!LexNextToken]_<<Seen(token), Len(lexed)>>
  BY StepIsStreamStep
<1>. QED
  BY LexInvariant, InitIsStreamInit, <1>1, PTL
     DEF Spec, ImplementsTokenStream, Stream!StreamSpec, Seen, NameOf
=============================================================================
