------------------------------ MODULE MCQuery ------------------------------
(***************************************************************************)
(* Tables and statements for TLC, as the words of their texts.             *)
(***************************************************************************)
EXTENDS Query, Expressions

(* What evaluates the expressions, and names them.                           *)
RowScalar(e, row) == EvaluateScalar(e, row)
RowPredicate(e, row) == EvaluatePredicate(e, row)
PartsOf(e) == Subexpressions(e)
NameOf(e) == FormatExpression(e)

(* The texts of the literals, and an order of localeCompare: letters first,  *)
(* and small before capital where nothing else differs.                      *)
AllTexts == {<<"a">>, <<"A">>, <<"b">>}
LocaleOrder == <<"a", "A", "b">>
PlaceInOrder(text) == CHOOSE k \in DOMAIN LocaleOrder : <<LocaleOrder[k]>> = text
TextComesBefore(s, t) == PlaceInOrder(s) < PlaceInOrder(t)

(* Blanks between the words, but none next to a quote.                       *)
Spaced(words) ==
  FlattenSeq([i \in DOMAIN words |->
    IF words[i] = "'" \/ (i < Len(words) /\ words[i + 1] = "'") THEN <<words[i]>>
    ELSE <<words[i], " ">>])

Sql(words) == Parse(Tokenize(Spaced(words)))
Statements(texts) == {Sql(words).node : words \in texts}

(* The second table is found by the folded name.                             *)
TableTexts == {
  <<"CREATE", "TABLE", "t", "(", "a", "INTEGER", "NULL", ",", "b", "TEXT", "NULL",
    ")">>,
  <<"CREATE", "TABLE", "U", "(", "a", "INTEGER", "NULL", ",", "c", "BOOLEAN", "NOT",
    "NULL", ")">>}

(* A condition on a table that is joined later, and a column of two tables.  *)
JoinTexts == {
  <<"SELECT", "t", ".", "a", ",", "c", "FROM", "t", "JOIN", "u", "ON", "t", ".", "a",
    "=", "u", ".", "A">>,
  <<"SELECT", "*", "FROM", "t", "LEFT", "JOIN", "u", "ON", "t", ".", "a", "=", "u",
    ".", "a", "WHERE", "c", "IS", "NULL", "OR", "c">>,
  <<"SELECT", "x", ".", "a", ",", "y", ".", "b", "FROM", "t", "x", "LEFT", "JOIN",
    "t", "AS", "y", "ON", "x", ".", "a", "=", "y", ".", "a", "LEFT", "JOIN", "u",
    "ON", "y", ".", "a", "=", "u", ".", "a">>,
  <<"SELECT", "X", ".", "b", "FROM", "t", "x", "LEFT", "JOIN", "t", "y", "ON", "x",
    ".", "b", "=", "y", ".", "b", "INNER", "JOIN", "u", "ON", "c", "=", "c">>,
  <<"SELECT", "*", "FROM", "t", "JOIN", "u", "ON", "t", ".", "a", "=", "x", ".", "a",
    "LEFT", "JOIN", "t", "x", "ON", "x", ".", "a", "=", "u", ".", "a">>,
  <<"SELECT", "a", "FROM", "t", "JOIN", "u", "ON", "t", ".", "a", "=", "u", ".", "a">>,
  <<"SELECT", "b", "FROM", "t", "LEFT", "JOIN", "t", "ON", "t", ".", "a", "=", "t",
    ".", "a">>}

(* The last of them are refused.                                             *)
GroupTexts == {
  <<"SELECT", "a", ",", "COUNT", "(", "*", ")", "FROM", "t", "GROUP", "BY", "A">>,
  <<"SELECT", "COUNT", "(", "*", ")", ",", "COUNT", "(", "a", ")", "AS", "n", ",",
    "SUM", "(", "a", ")", ",", "AVG", "(", "a", ")", ",", "MIN", "(", "b", ")", ",",
    "MAX", "(", "b", ")", "FROM", "t">>,
  <<"SELECT", "t", ".", "a", ",", "b", ",", "COUNT", "(", "u", ".", "a", ")", "FROM",
    "t", "LEFT", "JOIN", "u", "ON", "t", ".", "a", "=", "u", ".", "a", "GROUP", "BY",
    "t", ".", "a", ",", "b", "ORDER", "BY", "COUNT", "(", "u", ".", "a", ")", "DESC",
    ",", "b">>,
  <<"SELECT", "MIN", "(", "c", ")", ",", "MAX", "(", "a", ")", "FROM", "u", "GROUP",
    "BY", "c", "ORDER", "BY", "2", "DESC", "NULLS", "LAST">>,
  <<"SELECT", "a", "FROM", "t", "GROUP", "BY", "a", "ORDER", "BY", "t", ".", "a">>,
  <<"SELECT", "t", ".", "a", "FROM", "t", "GROUP", "BY", "a", "ORDER", "BY", "T", ".",
    "a", "DESC">>,
  <<"SELECT", "*", "FROM", "t", "GROUP", "BY", "a">>,
  <<"SELECT", "a", ",", "b", "FROM", "t", "GROUP", "BY", "a">>,
  <<"SELECT", "SUM", "(", "b", ")", "FROM", "t">>}

(* A text is no condition, 2 is no position and "a" and "A" are one label.   *)
OrderTexts == {
  <<"SELECT", "b", ",", "a", "FROM", "t", "ORDER", "BY", "a", "DESC", ",", "1">>,
  <<"SELECT", "b", "FROM", "t", "ORDER", "BY", "a", "NULLS", "FIRST", ",", "b",
    "DESC", "NULLS", "LAST", "LIMIT", "1">>,
  <<"SELECT", "a", "AS", "b", "FROM", "t", "ORDER", "BY", "b", "DESC", "LIMIT", "2">>,
  <<"SELECT", "a", "*", "2", ",", "+", "a", ",", "b", "FROM", "t", "WHERE", "b", "IS",
    "NOT", "NULL", "ORDER", "BY", "1", "ASC", ",", "b">>,
  <<"SELECT", "2", "%", "a", "FROM", "t", "ORDER", "BY", "2">>,
  <<"SELECT", "a", ",", "A", "FROM", "t">>,
  <<"SELECT", "b", "FROM", "t", "WHERE", "b">>,
  <<"SELECT", "c", "FROM", "u", "ORDER", "BY", "c", "DESC", ",", "a", "LIMIT", "1">>,
  <<"SELECT", "*", "FROM", "t", "WHERE", "a", "<", "1", "OR", "b", "=", "'", "a",
    "'">>}

(* Rows with NULL, and two that are refused.                                 *)
InsertTexts == {
  <<"INSERT", "INTO", "t", "VALUES", "(", "0", ",", "'", "a", "'", ")">>,
  <<"INSERT", "INTO", "t", "VALUES", "(", "1", ",", "'", "A", "'", ")">>,
  <<"INSERT", "INTO", "T", "(", "b", ")", "VALUES", "(", "'", "b", "'", ")">>,
  <<"INSERT", "INTO", "t", "(", "b", ",", "A", ")", "VALUES", "(", "NULL", ",", "1", ")">>,
  <<"INSERT", "INTO", "t", "(", "a", ",", "A", ")", "VALUES", "(", "1", ",", "1",
    ")">>,
  <<"INSERT", "INTO", "t", "VALUES", "(", "'", "a", "'", ",", "1", ")">>,
  <<"INSERT", "INTO", "u", "VALUES", "(", "1", ",", "TRUE", ")">>,
  <<"INSERT", "INTO", "u", "(", "c", ")", "VALUES", "(", "FALSE", ")">>,
  <<"INSERT", "INTO", "u", "(", "a", ")", "VALUES", "(", "1", ")">>}

(* Conditions with errors, and qualifiers that name no table.                *)
MutationTexts == {
  <<"UPDATE", "t", "SET", "a", "=", "1", "-", "a", "WHERE", "a", "<", "1", "OR", "b",
    "=", "'", "a", "'">>,
  <<"UPDATE", "t", "SET", "a", "=", "2", ",", "b", "=", "NULL", "WHERE", "T", ".",
    "a", "=", "1">>,
  <<"UPDATE", "t", "SET", "a", "=", "b", "WHERE", "a", "=", "0">>,
  <<"UPDATE", "t", "SET", "b", "=", "'", "A", "'", "WHERE", "2", "%", "a", "=", "0">>,
  <<"UPDATE", "u", "SET", "a", "=", "NULL", ",", "c", "=", "a", "IS", "NULL", "WHERE",
    "c">>,
  <<"UPDATE", "u", "SET", "c", "=", "a", "<", "1">>,
  <<"UPDATE", "t", "SET", "a", "=", "0", ",", "A", "=", "1">>,
  <<"UPDATE", "u", "SET", "a", "=", "0", "WHERE", "a", "=", "1", "AND", "x", ".", "a",
    "=", "1">>,
  <<"DELETE", "FROM", "t", "WHERE", "b", "=", "'", "A", "'", "AND", "t", ".", "a",
    ">", "0">>,
  <<"DELETE", "FROM", "t", "WHERE", "a", "=", "1", "OR", "u", ".", "a", "=", "1">>,
  <<"DELETE", "FROM", "u">>}


(* The tables of the texts; TLC looks them up too often to parse them.       *)
TableColumn(name, dataType, nullable) ==
  [type |-> "column_definition", name |-> <<name>>, dataType |-> dataType,
   nullable |-> nullable, unique |-> FALSE, primaryKey |-> FALSE, references |-> Absent]

TableOf(name, columns) ==
  [type |-> "create_table", tableName |-> <<name>>, columns |-> columns,
   constraints |-> <<>>]

AllTables == {
  TableOf("t", <<TableColumn("a", "INTEGER", TRUE), TableColumn("b", "TEXT", TRUE)>>),
  TableOf("U", <<TableColumn("a", "INTEGER", TRUE), TableColumn("c", "BOOLEAN", FALSE)>>)}
AllSelects == Statements(JoinTexts \cup GroupTexts \cup OrderTexts)
AllMutations == Statements(InsertTexts \cup MutationTexts)

(* What the statements put into rows.                                        *)
StoredExpressions ==
  UNION {CASE m.type = "insert" -> ToSet(m.values)
           [] m.type = "update" -> {assignment.value : assignment \in ToSet(m.assignments)}
           [] OTHER -> {} : m \in AllMutations}

(* Every text is one that the parser accepts, the tables are those of their  *)
(* texts, and the literals are those that can be put in order.               *)
ASSUME TextsParse ==
  /\ \A words \in TableTexts \cup JoinTexts \cup GroupTexts \cup OrderTexts
                    \cup InsertTexts \cup MutationTexts : Sql(words).ok
  /\ AllTables = Statements(TableTexts)
  /\ LET Literals == {x \in UNION {Subexpressions(e) : e \in StoredExpressions} : x.type = "literal"}
     IN  \A x \in Literals : x.value[1] = "string" => x.value[2] \in AllTexts
============================================================================
