--------------------------- MODULE StatementTexts ---------------------------
(***************************************************************************)
(* The statements of a text, as the editor counts them                     *)
(* (frontend/src/engine/statementMode.ts) and as the script parser cuts    *)
(* them out (src/parser/script-parser.ts).                                 *)
(***************************************************************************)
EXTENDS Lexer

(* detectStatementMode scans characters, and knows only strings, blanks and  *)
(* semicolons.                                                               *)

ModeBlanks == Blanks \cup {"\f"}

(* Variant: every semicolon that has something after it ends a statement.    *)
CountSemicolons(s) ==
  LET written == SelectSeq(s, LAMBDA c : c \notin ModeBlanks)
  IN  CASE written \in {<<>>, <<";">>} -> "empty"
        [] \E i \in 1..(Len(written) - 1) : written[i] = ";" -> "script"
        [] OTHER -> "single"

(* How far the two flags are, and the index that is skipped: "between"       *)
(* statements, in the text of a "statement", in a "string" of it, or at the  *)
(* first "quote" of two that are one.                                        *)
ReadInString(s, i) ==
  IF s[i] # "'" THEN "string"
  ELSE IF PieceAt(s, i + 1, "'") THEN "quote" ELSE "statement"

ReadOutside(piece, before) ==
  CASE piece = "'" -> "string"
    [] piece = ";" -> "between"
    [] piece \in ModeBlanks -> before
    [] OTHER -> "statement"

ReadPiece(s, i, before) ==
  CASE before = "quote" -> "string"
    [] before = "string" -> ReadInString(s, i)
    [] OTHER -> ReadOutside(s[i], before)

DetectStatementMode(s) ==
  LET Read[i \in 0..Len(s)] ==
        IF i = 0 THEN "between" ELSE ReadPiece(s, i, Read[i - 1])
      \* where a statement is counted: at its semicolon, or after the text
      Counted == {i \in 1..(Len(s) + 1) :
                    IF i > Len(s) THEN Read[i - 1] # "between"
                    ELSE Read[i - 1] = "statement" /\ s[i] = ";"}
  IN  CASE Counted = {} -> "empty"
        [] Cardinality(Counted) = 1 -> "single"
        [] OTHER -> "script"

----------------------------------------------------------------------------
(* ScriptParser: the tokens up to a semicolon are parsed on their own, and   *)
(* the text from the first to the last is the statement's.                   *)

(* Variant: the text of a statement begins at the script's first token.      *)
SliceFromStart(s, ts, i, end) == SubSeq(s, ts[1].start, ts[end - 1].end - 1)

Slice(s, ts, i, end) == SubSeq(s, ts[i].start, ts[end - 1].end - 1)

StatementEnd(ts, i) == Min({j \in i..Len(ts) : Type(ts, j) \in {";", "eof"}})

(* The tokens from i up to the end, and their own end of the text.           *)
StatementTokens(ts, i, end) ==
  Append(SubSeq(ts, i, end - 1),
         [Last(ts) EXCEPT !.start = ts[end - 1].end, !.end = ts[end - 1].end])
=============================================================================
