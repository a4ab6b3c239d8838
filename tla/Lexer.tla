------------------------------- MODULE Lexer -------------------------------
(***************************************************************************)
(* The lexer (src/lexer).  A text is a sequence of pieces: a piece is one  *)
(* character, or a run of letters that the lexer never has a reason to     *)
(* split, such as "SELECT".  Pieces that touch are one word, as letters    *)
(* that touch are: "COMMIT" and "a" side by side are an identifier.        *)
(*                                                                         *)
(* The type of a token is the name of its keyword, its symbol, or the kind *)
(* of what it stands for.  Literals are tagged with their JavaScript type; *)
(* a decimal has no digit but 0 after the dot, so numbers are integers.    *)
(***************************************************************************)
EXTENDS Integers, Sequences, SequencesExt, FiniteSetsExt

Blanks == {" ", "\r", "\t", "\n"}
Digits == {"0", "1", "2"}
DigitValue == [c \in Digits |-> CASE c = "0" -> 0 [] c = "1" -> 1 [] c = "2" -> 2]
Symbols == {"*", ",", ";", "(", ")", "=", ">", "<", "+", "-", "/", "%", "."}

(* Characters that start no token: form feed is one, although it is blank.   *)
Strangers == {"\f", "#"}

Keywords ==
  {"SELECT", "FROM", "WHERE", "AND", "OR", "ORDER", "BY", "ASC", "DESC", "LIMIT",
   "CREATE", "TABLE", "INSERT", "INTO", "VALUES", "UPDATE", "SET", "DELETE",
   "COUNT", "SUM", "AVG", "MIN", "MAX", "GROUP", "INNER", "LEFT", "JOIN", "ON",
   "AS", "IS", "NULLS", "FIRST", "LAST", "INTEGER", "DECIMAL", "TEXT", "BOOLEAN",
   "PRIMARY", "KEY", "FOREIGN", "REFERENCES", "UNIQUE", "CONSTRAINT", "BEGIN",
   "COMMIT", "ROLLBACK", "TRANSACTION", "SAVE", "NOT", "TRUE", "FALSE", "NULL"}

(* The pieces that are written in both cases.                                *)
UpperCase == [a |-> "A", b |-> "B", t |-> "T", u |-> "U", x |-> "X",
              commit |-> "COMMIT"]
Upper(piece) == IF piece \in DOMAIN UpperCase THEN UpperCase[piece] ELSE piece
Folded(text) == [i \in DOMAIN text |-> Upper(text[i])]

LetterAt(s, i) ==
  /\ i <= Len(s)
  /\ s[i] \notin Blanks \cup Digits \cup Symbols \cup Strangers \cup {"'", "!"}
DigitAt(s, i) == i <= Len(s) /\ s[i] \in Digits
PartAt(s, i) == LetterAt(s, i) \/ DigitAt(s, i)
PieceAt(s, i, piece) == i <= Len(s) /\ s[i] = piece

NoLiteral == <<"none">>
Null == <<"null">>
Number(n) == <<"number", n>>
Boolean(b) == <<"boolean", b>>
String(text) == <<"string", text>>

Token(s, i, type, end, literal) ==
  [type |-> type, lexeme |-> SubSeq(s, i, end - 1), literal |-> literal,
   start |-> i, end |-> end]

(* The first position from i on where a run of letters or digits has ended.  *)
RunEnd(s, i, InRun(_, _)) == Min({j \in i..(Len(s) + 1) : ~InRun(s, j)})

Word(s, i) ==
  LET end == RunEnd(s, i, PartAt)
      word == Upper(s[i])
      type == IF end = i + 1 /\ word \in Keywords THEN word ELSE "identifier"
      literal == CASE type = "TRUE" -> Boolean(TRUE)
                   [] type = "FALSE" -> Boolean(FALSE)
                   [] type = "NULL" -> Null
                   [] OTHER -> NoLiteral
  IN  Token(s, i, type, end, literal)

NumberOf(digits) == FoldLeft(LAMBDA n, c : 10 * n + DigitValue[c], 0, digits)

Numeral(s, i) ==
  LET dot == RunEnd(s, i, DigitAt)
      decimal == PieceAt(s, dot, ".") /\ DigitAt(s, dot + 1)
      whole == NumberOf(SubSeq(s, i, dot - 1))
  IN  IF decimal
      THEN Token(s, i, "decimal", RunEnd(s, dot + 1, DigitAt), Number(whole))
      ELSE Token(s, i, "integer", dot, Number(whole))

LexerError(s, i) == Token(s, i, "error", i + 1, NoLiteral)

(* A quote inside a string is written twice.                                 *)
Quoted(s, i) ==
  LET Ends(j) == PieceAt(s, j, "'") /\ ~PieceAt(s, j + 1, "'")
      rest[j \in (i + 1)..(Len(s) + 1)] ==
        CASE j > Len(s) -> [value |-> <<>>, end |-> 0]
          [] Ends(j) -> [value |-> <<>>, end |-> j + 1]
          [] OTHER -> LET after == rest[IF s[j] = "'" THEN j + 2 ELSE j + 1]
                      IN  [value |-> <<s[j]>> \o after.value, end |-> after.end]
      string == rest[i + 1]
  IN  IF string.end = 0 THEN LexerError(s, i)
      ELSE Token(s, i, "string", string.end, String(string.value))

WithEquals(piece) ==
  CASE piece = ">" -> ">=" [] piece = "<" -> "<=" [] piece = "!" -> "!="

(* scanToken; ">", "<" and "!" take a "=" that follows.                      *)
ScanToken(s, i) ==
  CASE s[i] \in {">", "<", "!"} /\ PieceAt(s, i + 1, "=") ->
         Token(s, i, WithEquals(s[i]), i + 2, NoLiteral)
    [] s[i] \in Symbols /\ ~(s[i] \in {">", "<"} /\ PieceAt(s, i + 1, "=")) ->
         Token(s, i, s[i], i + 1, NoLiteral)
    [] s[i] = "'" -> Quoted(s, i)
    [] DigitAt(s, i) -> Numeral(s, i)
    [] LetterAt(s, i) -> Word(s, i)
    [] OTHER -> LexerError(s, i)

(* tokenize: the tokens, then the end of the text or the error.              *)
Tokenize(s) ==
  LET from[i \in 1..(Len(s) + 1)] ==
        IF i > Len(s) THEN <<Token(s, i, "eof", i, NoLiteral)>>
        ELSE IF s[i] \in Blanks THEN from[i + 1]
        ELSE LET token == ScanToken(s, i)
             IN  IF token.type = "error" THEN <<token>>
                 ELSE <<token>> \o from[token.end]
  IN  from[1]

Lexes(tokens) == Last(tokens).type = "eof"

Type(ts, i) == ts[i].type
============================================================================
