------------------------------ MODULE Language ------------------------------
(***************************************************************************)
(* The text of an SQL editor, from the keyboard to the statements that are *)
(* run: the mode the editor picks (frontend/src/engine/statementMode.ts),  *)
(* the statements of a script (src/parser/script-parser.ts), and what the  *)
(* labels and the values of their expressions are.                         *)
(*                                                                         *)
(* Editing is typing at the end, and deleting what was typed.  A keyboard  *)
(* has the chunks its user types, between a text before and a text after.  *)
(* A careful user types on only while the text may become a statement.     *)
(* The chunks of an unordered keyboard say the same in any order.          *)
(***************************************************************************)
EXTENDS Expressions, StatementTexts, CreateTable

CONSTANTS Keyboards,  \* records: before, chunks, after, limit, careful, unordered
          Rows        \* values of the columns that the keyboards name

VARIABLES keyboard,
          typed       \* the chunks typed so far

vars == <<keyboard, typed>>

Between(chunks) == keyboard.before \o FlattenSeq(chunks) \o keyboard.after
text == Between(typed)

----------------------------------------------------------------------------
(* ScriptParser: the tokens up to a semicolon are parsed on their own, and   *)
(* the text from the first to the last is the statement's.                   *)

Entry(s, ts, i, end, statement) ==
  IF statement.ok
  THEN Parsed([statement |-> statement.node, sql |-> Slice(s, ts, i, end)], end)
  ELSE Wrong(statement.at + i - 1)

StatementEntry(s, ts, i) ==
  LET end == StatementEnd(ts, i)
  IN  Entry(s, ts, i, end, Parse(StatementTokens(ts, i, end)))

RECURSIVE ScriptFrom(_, _, _, _)

(* The entries before, and the entry that was read after them.               *)
ScriptAfter(s, ts, entries, entry) ==
  IF ~entry.ok THEN entry
  ELSE IF Type(ts, entry.at) = "eof" THEN Parsed(Append(entries, entry.node), entry.at)
  ELSE ScriptFrom(s, ts, Append(entries, entry.node), entry.at + 1)

ScriptFrom(s, ts, entries, i) ==
  CASE Type(ts, i) = "eof" -> Parsed(entries, i)
    [] Type(ts, i) = ";" -> Wrong(i)
    [] OTHER -> ScriptAfter(s, ts, entries, StatementEntry(s, ts, i))

ParseScript(s, ts) == ScriptFrom(s, ts, <<>>, 1)

----------------------------------------------------------------------------
(* Editing.                                                                  *)

(* The text may become a statement: what is missing is missing at its end.   *)
MayGoOnAs(tokens, script) == script.ok \/ Type(tokens, script.at) = "eof"

TokensMayGoOn(s, tokens) ==
  IF Lexes(tokens) THEN MayGoOnAs(tokens, ParseScript(s, tokens)) ELSE "'" \in ToSet(s)

MayGoOn(s) == TokensMayGoOn(s, Tokenize(s))

TypeChunk(chunk) ==
  /\ Len(typed) < keyboard.limit
  /\ keyboard.careful => MayGoOn(keyboard.before \o FlattenSeq(typed))
  /\ typed' = Append(typed, chunk)
  /\ UNCHANGED keyboard

DeleteAll ==
  /\ typed # <<>>
  /\ typed' = <<>>
  /\ UNCHANGED keyboard

Init == keyboard \in Keyboards /\ typed = <<>>

Next == DeleteAll \/ \E chunk \in keyboard.chunks : TypeChunk(chunk)

Spec == Init /\ [][Next]_vars

----------------------------------------------------------------------------
(* What a text comes to.                                                     *)

(* The statements of a text that the script parser accepts, with their texts.*)
EntriesOf(s, tokens) ==
  IF ~Lexes(tokens) THEN <<>> ELSE ParseScript(s, tokens).node

Entries == EntriesOf(text, Tokenize(text))

ExpressionsOf(statement) ==
  LET where == IF "where" \in DOMAIN statement THEN ToSet(statement.where) ELSE {}
      selected == IF statement.type # "select" THEN {}
                  ELSE {item.expression : item \in
                          {x \in ToSet(statement.columns) : x.type = "select_expression"}}
  IN  UNION {Subexpressions(e) : e \in where \cup selected}

expressions == UNION {ExpressionsOf(entry.statement) : entry \in ToSet(Entries)}

----------------------------------------------------------------------------
(* The grammar of expressions: the trees that a level of it derives from the *)
(* tokens from i up to j.  The levels are the precedences of the formatter.  *)

Levels == [or |-> 1, and |-> 2, comparison |-> 3, sum |-> 4, product |-> 5,
           unary |-> 6, primary |-> 7]

RECURSIVE Trees(_, _, _, _)

Unary(op, operand) == [type |-> "unary", operator |-> op, operand |-> operand]

Operated(ts, i, j, operators, left, right, type) ==
  UNION {{Binary(type, Type(ts, k), l, r) : l \in Trees(left, ts, i, k),
                                            r \in Trees(right, ts, k + 1, j)} :
           k \in {m \in (i + 1)..(j - 2) : Type(ts, m) \in operators}}

NullChecks(ts, i, j) ==
  LET Ends(types) == /\ j - Len(types) > i
                     /\ \A k \in DOMAIN types : Type(ts, j - Len(types) - 1 + k) = types[k]
      Checks(types, negated) ==
        IF ~Ends(types) THEN {}
        ELSE {NullCheck(e, negated) : e \in Trees(Levels.sum, ts, i, j - Len(types))}
  IN  Checks(<<"IS", "NULL">>, FALSE) \cup Checks(<<"IS", "NOT", "NULL">>, TRUE)

Primaries(ts, i, j) ==
  CASE j = i + 1 /\ Type(ts, i) = "identifier" -> {Column(Unqualified, ts[i].lexeme)}
    [] j = i + 1 /\ Type(ts, i) \in LiteralTypes -> {Literal(ts[i].literal)}
    [] j > i + 2 /\ Type(ts, i) = "(" /\ Type(ts, j - 1) = ")" ->
         Trees(Levels.or, ts, i + 1, j - 1)
    [] OTHER -> {}

Rules(level, ts, i, j) ==
  CASE level = Levels.or -> Operated(ts, i, j, {"OR"}, level, level + 1, "logical")
    [] level = Levels.and -> Operated(ts, i, j, {"AND"}, level, level + 1, "logical")
    [] level = Levels.comparison ->
         Operated(ts, i, j, ComparisonOperators, level + 1, level + 1, "comparison")
           \cup NullChecks(ts, i, j)
    [] level = Levels.sum ->
         Operated(ts, i, j, {"+", "-"}, level, level + 1, "arithmetic")
    [] level = Levels.product ->
         Operated(ts, i, j, {"*", "/", "%"}, level, level + 1, "arithmetic")
    [] level = Levels.unary ->
         IF Type(ts, i) \notin {"+", "-"} THEN {}
         ELSE {Unary(Type(ts, i), e) : e \in Trees(level, ts, i + 1, j)}
    [] level = Levels.primary -> Primaries(ts, i, j)

Trees(level, ts, i, j) ==
  IF i >= j THEN {}
  ELSE IF level = Levels.primary THEN Rules(level, ts, i, j)
  ELSE Rules(level, ts, i, j) \cup Trees(level + 1, ts, i, j)

----------------------------------------------------------------------------
(* Properties.                                                               *)

(* The editor and the parser agree on how many statements a text has,        *)
(* although the editor scans characters and the parser tokens; and where the *)
(* editor sends one statement to the statement parser, the script parser     *)
(* would have accepted the same texts and run the same statement.            *)
ModeAgrees ==
  LET ModeOf(script) == CASE Len(script.node) = 0 -> "empty"
                          [] Len(script.node) = 1 -> "single"
                          [] OTHER -> "script"
      Agrees(mode, script, single) ==
        /\ script.ok => mode = ModeOf(script)
        /\ mode = "single" => script.ok = single.ok
        /\ mode = "single" /\ script.ok => script.node[1].statement = single.node
      AgreeOn(s, tokens) ==
        Lexes(tokens) => Agrees(DetectStatementMode(s), ParseScript(s, tokens), Parse(tokens))
  IN  AgreeOn(text, Tokenize(text))

(* The text that a script records for a statement, in its results and its    *)
(* history, is that statement: run on its own it is parsed to the same.      *)
SlicesReparse ==
  LET Reparses(tokens, statement) ==
        Lexes(tokens) /\ Parse(tokens) = Parsed(statement, Len(tokens) + 1)
  IN  \A entry \in ToSet(Entries) : Reparses(Tokenize(entry.sql), entry.statement)

(* The parser's loops accept the expressions of the left-recursive grammar,  *)
(* no others, and give the one tree that the grammar derives.                *)
ParserFollowsGrammar ==
  LET IsDelete(tokens) ==
        /\ Lexes(tokens) /\ Len(tokens) > 5
        /\ \A k \in 1..4 : Type(tokens, k) = <<"DELETE", "FROM", "identifier", "WHERE">>[k]
      Derived(tokens, parsed) ==
        Trees(Levels.or, tokens, 5, Len(tokens)) =
          IF parsed.ok THEN ToSet(parsed.node.where) ELSE {}
      Follows(tokens) == IsDelete(tokens) => Derived(tokens, Parse(tokens))
  IN  Follows(Tokenize(text))

(* A label reads back as the expression that it names, so that no two such   *)
(* expressions of a select list share one.  Two kinds do not: a comparison   *)
(* that is the left operand of another is written without parentheses, and a *)
(* number whose text has an exponent, or is Infinity, is no literal of the   *)
(* lexer (nor is one below 1e-6, which no keyboard types).                   *)
LabelsParseBack ==
  LET Left(e) == IF e.type = "comparison" THEN e.left ELSE e.operand
      Chained(e) == /\ e.type \in {"comparison", "null_check"}
                    /\ Left(e).type \in {"comparison", "null_check"}
      Exponential(e) == /\ e.type = "literal" /\ IsNumber(e.value)
                        /\ e.value[2] >= ExponentFrom
      Reads(p, e) == At(p, {"eof"}) /\ Part(p, 0) = e
      ReadsBack(e) == Reads(Call(ParserOf(Tokenize(FormatExpression(e))), "Expression"), e)
  IN  \A e \in expressions :
        ReadsBack(e) = ~ \E x \in Subexpressions(e) : Chained(x) \/ Exponential(x)

(* A predicate that short-circuits has the truth value that three-valued     *)
(* logic gives it: AND is the lesser and OR the greater of its operands.  An *)
(* error of an operand is one of the predicate, unless it is in the right    *)
(* operand and the left one decides, whatever the right one is.              *)
PredicatesAreKleene ==
  LET AllKleene(e, row) ==
        LET value == EvaluatePredicate(e, row)
        IN  value = ThreeValued(e.operator, EvaluatePredicate(e.left, row),
                                EvaluatePredicate(e.right, row))
  IN  \A e \in {x \in expressions : x.type = "logical"} :
        \A row \in Rows : AllKleene(e, row)

(* The constraints of a column, and the columns and constraints of a table,  *)
(* may come in any order: they make the same columns, or none in any order.  *)
ConstraintsInAnyOrder ==
  LET ColumnsOf(parsed) == IF parsed.ok THEN CreatedColumns(parsed.node) ELSE parsed
      Outcomes(created) == IF created.ok THEN ToSet(created.node) ELSE {}
      ColumnsFrom(chunks) == Outcomes(ColumnsOf(Parse(Tokenize(Between(chunks)))))
      Reordered(p) == [i \in DOMAIN typed |-> typed[p[i]]]
  IN  keyboard.unordered =>
        Cardinality({ColumnsFrom(Reordered(p)) : p \in Permutations(DOMAIN typed)}) = 1
============================================================================
