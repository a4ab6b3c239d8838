------------------------------- MODULE Parser -------------------------------
(***************************************************************************)
(* The parser (src/parser/parser.ts): recursive descent, no token is read  *)
(* again.  An operator stands for the method of its name: it takes the     *)
(* parser where the method finds it, and gives the parser where the method *)
(* leaves it, with what the method returns as the last of the nodes.  A    *)
(* parser that has thrown stays where it is, at the token that the         *)
(* ParserError names.  What the errors say is left out, and with it the    *)
(* checks that only choose between two messages at one token.              *)
(***************************************************************************)
EXTENDS Ast

ParserOf(tokens) == [tokens |-> tokens, at |-> 1, ok |-> TRUE, nodes |-> <<>>]

TypeIs(ts, i, types) == i <= Len(ts) /\ ts[i].type \in types

Peek(p) == p.tokens[p.at]
At(p, types) == p.ok /\ TypeIs(p.tokens, p.at, types)

Fail(p) == [p EXCEPT !.ok = FALSE]
Advance(p, n) == [p EXCEPT !.at = @ + n]

(* The nodes that methods have returned, from the last one back.             *)
Part(p, k) == p.nodes[Len(p.nodes) - k]

(* One node of the last n; of one node and the next tokens; of none.         *)
Made(p, n, node) ==
  IF p.ok THEN [p EXCEPT !.nodes = Append(SubSeq(@, 1, Len(@) - n), node)] ELSE p
Read(p, node) == Advance(Made(p, 0, node), 1)
ReadType(p) == Read(p, Peek(p).type)

(* A record of the last nodes, by the names of its fields.                   *)
Fields(p, names) ==
  LET Of(name) == CHOOSE k \in DOMAIN names : names[k] = name
  IN  Made(p, Len(names), [name \in ToSet(names) |-> Part(p, Len(names) - Of(name))])

Node(p, type, names) == Fields(Made(p, 0, type), Append(names, "type"))

Included(p) == Made(p, 1, Present(Part(p, 0)))
Omitted(p) == Made(p, 0, Absent)

(* consume, of one token after another.                                      *)
Consume(p, types) ==
  LET other == {k \in DOMAIN types : ~TypeIs(p.tokens, p.at + k - 1, {types[k]})}
  IN  IF ~p.ok THEN p
      ELSE IF other = {} THEN Advance(p, Len(types))
      ELSE Fail(Advance(p, Min(other) - 1))

OneOf(p, types) == IF At(p, types) THEN ReadType(p) ELSE Fail(p)

Identifier(p) == IF At(p, {"identifier"}) THEN Read(p, Peek(p).lexeme) ELSE Fail(p)

(* A method, by its name: what the methods call that may call them.          *)
RECURSIVE Call(_, _)

ParenthesizedIdentifier(p) == Consume(Identifier(Consume(p, <<"(">>)), <<")">>)

----------------------------------------------------------------------------
(* Expressions.                                                              *)

AggregateFunctions == {"COUNT", "SUM", "AVG", "MIN", "MAX"}
LiteralTypes == {"integer", "decimal", "string", "TRUE", "FALSE", "NULL"}
ComparisonOperators == {"=", "!=", ">", ">=", "<", "<="}
StartsExpression ==
  LiteralTypes \cup AggregateFunctions \cup {"identifier", "(", "+", "-"}

BinaryNode(p, type) == Made(p, 3, Binary(type, Part(p, 1), Part(p, 2), Part(p, 0)))

ParseLiteral(p) ==
  IF At(p, LiteralTypes) THEN Read(p, Literal(Peek(p).literal)) ELSE Fail(p)

Qualified(p) ==
  IF At(p, {"."}) THEN Node(Identifier(Advance(p, 1)), "column", <<"qualifier", "name">>)
  ELSE Made(p, 1, Column(Unqualified, Part(p, 0)))

ColumnReference(p) == Qualified(Identifier(p))

AggregateArgument(p) ==
  IF ~At(p, {"*"}) THEN ColumnReference(p)
  ELSE IF Part(p, 0) = "COUNT" THEN Read(p, Wildcard)
  ELSE Fail(p)

ParseAggregate(p) ==
  LET argument == AggregateArgument(Consume(ReadType(p), <<"(">>))
  IN  Node(Consume(argument, <<")">>), "aggregate", <<"function", "argument">>)

RECURSIVE Products(_), Sums(_), Conjunctions(_), Disjunctions(_)

PrimaryExpression(p) ==
  CASE At(p, {"("}) -> Consume(Call(Advance(p, 1), "Expression"), <<")">>)
    [] At(p, AggregateFunctions) -> ParseAggregate(p)
    [] At(p, {"identifier"}) -> ColumnReference(p)
    [] OTHER -> ParseLiteral(p)

UnaryExpression(p) ==
  IF At(p, {"+", "-"})
  THEN Node(Call(ReadType(p), "UnaryExpression"), "unary", <<"operator", "operand">>)
  ELSE PrimaryExpression(p)

(* The loops: the left operand is the last node.                             *)

(* Variant: products are grouped to the right.                               *)
RECURSIVE ProductsToTheRight(_)
ProductsToTheRight(p) ==
  IF ~At(p, {"*", "/", "%"}) THEN p
  ELSE BinaryNode(ProductsToTheRight(Call(ReadType(p), "UnaryExpression")),
                  "arithmetic")

Products(p) ==
  IF ~At(p, {"*", "/", "%"}) THEN p
  ELSE Products(BinaryNode(Call(ReadType(p), "UnaryExpression"), "arithmetic"))

MultiplicativeExpression(p) == Products(Call(p, "UnaryExpression"))

Sums(p) ==
  IF ~At(p, {"+", "-"}) THEN p
  ELSE Sums(BinaryNode(Call(ReadType(p), "MultiplicativeExpression"), "arithmetic"))

AdditiveExpression(p) == Sums(Call(p, "MultiplicativeExpression"))

(* A comparison does not go on with another one.                             *)
Compared(p) ==
  LET negated == TypeIs(p.tokens, p.at + 1, {"NOT"})
      rest == IF negated THEN <<"IS", "NOT", "NULL">> ELSE <<"IS", "NULL">>
  IN  CASE At(p, ComparisonOperators) ->
             BinaryNode(Call(ReadType(p), "AdditiveExpression"), "comparison")
        [] At(p, {"IS"}) -> Consume(Made(p, 1, NullCheck(Part(p, 0), negated)), rest)
        [] At(p, StartsExpression) -> Fail(p)
        [] OTHER -> p

ParseComparison(p) == Compared(Call(p, "AdditiveExpression"))

Conjunctions(p) ==
  IF ~At(p, {"AND"}) THEN p
  ELSE Conjunctions(BinaryNode(Call(ReadType(p), "ParseComparison"), "logical"))

AndExpression(p) == Conjunctions(Call(p, "ParseComparison"))

Disjunctions(p) ==
  IF ~At(p, {"OR"}) THEN p
  ELSE Disjunctions(BinaryNode(Call(ReadType(p), "AndExpression"), "logical"))

Expression(p) == Disjunctions(Call(p, "AndExpression"))

----------------------------------------------------------------------------
(* Clauses of SELECT.                                                        *)

Alias(p) == IF At(p, {"AS"}) THEN Included(Identifier(Advance(p, 1))) ELSE Omitted(p)

Selected(p) ==
  IF p.ok /\ Part(p, 0).type \in {"comparison", "logical", "null_check"}
  THEN Fail(Advance(p, -1))
  ELSE Node(Alias(p), "select_expression", <<"expression", "alias">>)

SelectItem(p) ==
  IF At(p, {"*"}) THEN Read(p, Wildcard) ELSE Selected(Call(p, "AdditiveExpression"))

TableAlias(p) == IF At(p, {"identifier"}) THEN Included(Identifier(p)) ELSE Alias(p)

TableReference(p) == Fields(TableAlias(Identifier(p)), <<"name", "alias">>)

JoinClause(p) ==
  LET kind == IF At(p, {"LEFT"}) THEN "LEFT" ELSE "INNER"
      join == IF At(p, {"JOIN"}) THEN <<"JOIN">> ELSE <<kind, "JOIN">>
      table == TableReference(Consume(Made(p, 0, kind), join))
      left == ColumnReference(Consume(table, <<"ON">>))
      right == ColumnReference(Consume(left, <<"=">>))
  IN  Fields(right, <<"joinType", "table", "left", "right">>)

(* A name without a qualifier may be a label of the result.                  *)
ResultAlias(p) ==
  IF p.ok /\ Part(p, 0).qualifier = Unqualified
  THEN Made(p, 1, [type |-> "result_alias", name |-> Part(p, 0).name]) ELSE p

Ordinal(p) ==
  IF Peek(p).literal = Number(0) THEN Fail(p)
  ELSE Read(p, [type |-> "ordinal", position |-> Peek(p).literal[2]])

OrderByExpression(p) ==
  CASE At(p, {"integer"}) -> Ordinal(p)
    [] At(p, AggregateFunctions) -> ParseAggregate(p)
    [] OTHER -> ResultAlias(ColumnReference(p))

Direction(p) == IF At(p, {"ASC", "DESC"}) THEN ReadType(p) ELSE Made(p, 0, "ASC")

NullsPlacement(p) ==
  IF At(p, {"NULLS"}) THEN OneOf(Advance(p, 1), {"FIRST", "LAST"})
  ELSE Made(p, 0, "default")

OrderByItem(p) ==
  Fields(NullsPlacement(Direction(OrderByExpression(p))),
         <<"expression", "direction", "nulls">>)

----------------------------------------------------------------------------
(* Columns and constraints of CREATE TABLE, and assignments of UPDATE.       *)

ForeignKeyReference(p) ==
  Fields(ParenthesizedIdentifier(Identifier(p)), <<"tableName", "columnName">>)

NoConstraints ==
  [nullable |-> FALSE, sawNullability |-> FALSE, unique |-> FALSE,
   primaryKey |-> FALSE, references |-> Absent]

(* parseColumnConstraints: each at most once, in any order.  What was seen   *)
(* so far is the last node.                                                  *)
Saw(p, types, seen) == Consume(Made(p, 1, seen), types)
Refers(p) == Made(p, 2, [Part(p, 1) EXCEPT !.references = Present(Part(p, 0))])

RECURSIVE ColumnConstraints(_)

(* Variant: NULL before PRIMARY KEY is taken.                                *)
NullBeforeKey(p) ==
  LET seen == Part(p, 0)
  IN  CASE At(p, {"PRIMARY"}) ->
             ColumnConstraints(Saw(p, <<"PRIMARY", "KEY">>, [seen EXCEPT !.primaryKey = TRUE]))
        [] At(p, {"NULL"}) /\ ~seen.primaryKey ->
             ColumnConstraints(Saw(p, <<"NULL">>, [seen EXCEPT !.nullable = TRUE]))
        [] At(p, {"NULL"}) -> Fail(p)
        [] OTHER -> p

ColumnConstraints(p) ==
  LET seen == Part(p, 0)
  IN  IF At(p, {"PRIMARY"}) /\ ~seen.primaryKey
      THEN ColumnConstraints(Saw(p, <<"PRIMARY", "KEY">>, [seen EXCEPT !.primaryKey = TRUE]))
      ELSE IF At(p, {"UNIQUE"}) /\ ~seen.unique
      THEN ColumnConstraints(Saw(p, <<"UNIQUE">>, [seen EXCEPT !.unique = TRUE]))
      ELSE IF At(p, {"NOT"}) /\ ~seen.sawNullability
      THEN ColumnConstraints(Saw(p, <<"NOT", "NULL">>, [seen EXCEPT !.sawNullability = TRUE]))
      ELSE IF At(p, {"NULL"}) /\ ~seen.sawNullability /\ ~seen.primaryKey
      THEN ColumnConstraints(Saw(p, <<"NULL">>,
             [seen EXCEPT !.nullable = TRUE, !.sawNullability = TRUE]))
      ELSE IF At(p, {"REFERENCES"}) /\ seen.references = Absent
      THEN ColumnConstraints(Refers(ForeignKeyReference(Advance(p, 1))))
      ELSE IF At(p, {"PRIMARY", "UNIQUE", "NOT", "NULL", "REFERENCES"}) THEN Fail(p)
      ELSE IF p.ok /\ seen.primaryKey /\ seen.nullable THEN Fail(Advance(p, -1))
      ELSE p

(* From a name, a data type and the constraints.                             *)
DefinedColumn(p) ==
  LET seen == Part(p, 0)
  IN  Made(p, 3,
        [type |-> "column_definition", name |-> Part(p, 2), dataType |-> Part(p, 1),
         nullable |-> seen.nullable, unique |-> seen.unique \/ seen.primaryKey,
         primaryKey |-> seen.primaryKey, references |-> seen.references])

ColumnDefinition(p) ==
  LET dataType == OneOf(Identifier(p), {"INTEGER", "DECIMAL", "TEXT", "BOOLEAN"})
  IN  DefinedColumn(ColumnConstraints(Made(dataType, 0, NoConstraints)))

TableConstraint(p) ==
  LET column == ParenthesizedIdentifier(Consume(p, <<Peek(p).type, "KEY">>))
  IN  IF At(p, {"PRIMARY"}) THEN Node(column, "primary_key", <<"columnName">>)
      ELSE Node(ForeignKeyReference(Consume(column, <<"REFERENCES">>)),
                "foreign_key", <<"columnName", "references">>)

CreateTableElement(p) ==
  IF At(p, {"PRIMARY", "FOREIGN"}) THEN TableConstraint(p) ELSE ColumnDefinition(p)

Assignment(p) ==
  Fields(Call(Consume(Identifier(p), <<"=">>), "Expression"), <<"columnName", "value">>)

----------------------------------------------------------------------------
(* Lists.                                                                    *)

(* The nodes since there were count of them, as one.                         *)
Gathered(p, count) == Made(p, Len(p.nodes) - count, SubSeq(p.nodes, count + 1, Len(p.nodes)))

RECURSIVE Elements(_, _), Joins(_)

(* One read by the method, and those after commas.                           *)
Elements(p, method) ==
  LET MoreOf(q) == IF At(q, {","}) THEN Elements(Advance(q, 1), method) ELSE q
  IN  MoreOf(Call(p, method))

List(p, method) == Gathered(Elements(p, method), Len(p.nodes))

ParenthesizedList(p, method) == Consume(List(Consume(p, <<"(">>), method), <<")">>)

Joins(p) == IF At(p, {"INNER", "LEFT", "JOIN"}) THEN Joins(JoinClause(p)) ELSE p

JoinClauses(p) == Gathered(Joins(p), Len(p.nodes))

----------------------------------------------------------------------------
(* Statements.                                                               *)

Where(p) == IF At(p, {"WHERE"}) THEN Included(Call(Advance(p, 1), "Expression")) ELSE Omitted(p)

GroupBy(p) ==
  IF At(p, {"GROUP"}) THEN Included(List(Consume(p, <<"GROUP", "BY">>), "ColumnReference"))
  ELSE Omitted(p)

OrderBy(p) ==
  IF At(p, {"ORDER"}) THEN Included(List(Consume(p, <<"ORDER", "BY">>), "OrderByItem"))
  ELSE Omitted(p)

LimitValue(p) == IF At(p, {"integer"}) THEN Read(p, Peek(p).literal[2]) ELSE Fail(p)
Limit(p) == IF At(p, {"LIMIT"}) THEN Included(LimitValue(Advance(p, 1))) ELSE Omitted(p)

(* finishStatement: at most one semicolon, and then nothing.                 *)
Finish(p) == Consume(IF At(p, {";"}) THEN Advance(p, 1) ELSE p, <<"eof">>)

SelectStatement(p) ==
  LET columns == List(Advance(p, 1), "SelectItem")
      from == TableReference(Consume(columns, <<"FROM">>))
      clauses == Limit(OrderBy(GroupBy(Where(JoinClauses(from)))))
  IN  Node(Finish(clauses), "select",
           <<"columns", "from", "joins", "where", "groupBy", "orderBy", "limit">>)

(* The columns and the constraints of a table, of which it has a column.     *)
SplitElements(p) ==
  LET IsColumn(element) == element.type = "column_definition"
      IsConstraint(element) == ~IsColumn(element)
      columns == SelectSeq(Part(p, 0), IsColumn)
      constraints == SelectSeq(Part(p, 0), IsConstraint)
  IN  IF p.ok /\ columns = <<>> THEN Fail(p)
      ELSE Made(Made(p, 1, columns), 0, constraints)

CreateTableStatement(p) ==
  LET name == Identifier(Consume(p, <<"CREATE", "TABLE">>))
      elements == SplitElements(List(Consume(name, <<"(">>), "CreateTableElement"))
  IN  Node(Finish(Consume(elements, <<")">>)), "create_table",
           <<"tableName", "columns", "constraints">>)

InsertColumns(p) ==
  IF At(p, {"("}) THEN Included(ParenthesizedList(p, "Identifier")) ELSE Omitted(p)

InsertStatement(p) ==
  LET columns == InsertColumns(Identifier(Consume(p, <<"INSERT", "INTO">>)))
      values == ParenthesizedList(Consume(columns, <<"VALUES">>), "ParseLiteral")
  IN  Node(Finish(values), "insert", <<"tableName", "columns", "values">>)

UpdateStatement(p) ==
  LET name == Identifier(Advance(p, 1))
      assignments == List(Consume(name, <<"SET">>), "Assignment")
  IN  Node(Finish(Where(assignments)), "update", <<"tableName", "assignments", "where">>)

DeleteStatement(p) ==
  LET name == Identifier(Consume(p, <<"DELETE", "FROM">>))
  IN  Node(Finish(Where(name)), "delete", <<"tableName", "where">>)

BeginStatement(p) ==
  LET transaction == TypeIs(p.tokens, p.at + 1, {"TRANSACTION"})
  IN  Node(Finish(Advance(p, IF transaction THEN 2 ELSE 1)), "begin_transaction", <<>>)

SingleWord(p, type) == Node(Finish(Advance(p, 1)), type, <<>>)

Statement(p) ==
  CASE At(p, {"SELECT"}) -> SelectStatement(p)
    [] At(p, {"CREATE"}) -> CreateTableStatement(p)
    [] At(p, {"INSERT"}) -> InsertStatement(p)
    [] At(p, {"UPDATE"}) -> UpdateStatement(p)
    [] At(p, {"DELETE"}) -> DeleteStatement(p)
    [] At(p, {"BEGIN"}) -> BeginStatement(p)
    [] At(p, {"COMMIT"}) -> SingleWord(p, "commit_transaction")
    [] At(p, {"ROLLBACK"}) -> SingleWord(p, "rollback_transaction")
    [] At(p, {"SAVE"}) -> SingleWord(p, "save_database")
    [] OTHER -> Fail(p)

Call(p, method) ==
  CASE method = "Statement" -> Statement(p)
    [] method = "SelectItem" -> SelectItem(p)
    [] method = "ColumnReference" -> ColumnReference(p)
    [] method = "OrderByItem" -> OrderByItem(p)
    [] method = "CreateTableElement" -> CreateTableElement(p)
    [] method = "Identifier" -> Identifier(p)
    [] method = "ParseLiteral" -> ParseLiteral(p)
    [] method = "Assignment" -> Assignment(p)
    [] method = "Expression" -> Expression(p)
    [] method = "AndExpression" -> AndExpression(p)
    [] method = "ParseComparison" -> ParseComparison(p)
    [] method = "AdditiveExpression" -> AdditiveExpression(p)
    [] method = "MultiplicativeExpression" -> MultiplicativeExpression(p)
    [] method = "UnaryExpression" -> UnaryExpression(p)

(* What parsing comes to.                                                    *)
Outcome(p) == IF p.ok THEN Parsed(Part(p, 0), p.at) ELSE Wrong(p.at)

(* Parser.parse                                                              *)
Parse(ts) == Outcome(Call(ParserOf(ts), "Statement"))
============================================================================
