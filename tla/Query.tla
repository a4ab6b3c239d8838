------------------------------- MODULE Query -------------------------------
(***************************************************************************)
(* SELECT, and the rows that INSERT, UPDATE and DELETE leave               *)
(* (src/execution/join-executor.ts, query-scope.ts, executor.ts).          *)
(*                                                                         *)
(* Statements are what the parser gives.  A table has the columns that it  *)
(* was created with; a row maps the folded names of the columns to values. *)
(* Keys, and what a transaction or a save makes of the rows, are modelled  *)
(* in Database.                                                            *)
(*                                                                         *)
(* A joined row has the position of the row it took from each relation, 0  *)
(* for the nulls of a LEFT JOIN: the code compares joined rows by the      *)
(* identity of their rows.                                                 *)
(***************************************************************************)
EXTENDS Scalars, Lists

CONSTANTS Tables,     \* create_table statements
          Selects,    \* select statements
          Mutations,  \* insert, update and delete statements
          MaxRows     \* the bound on the rows of all tables together

(* What the modules around the executors give them: the value and the truth  *)
(* of an expression, where a context gives its columns their values; its     *)
(* subexpressions; and the text that names it.                               *)
CONSTANTS ScopedScalar(_, _), ScopedPredicate(_, _), SubexpressionsOf(_), TextOf(_)

(* localeCompare, which ORDER BY, MIN and MAX compare texts with.            *)
CONSTANTS Texts,              \* the texts that rows hold
          LocaleBefore(_, _)

VARIABLE rows         \* for each table, by its folded name

Key(name) == Folded(name)

IsList(s) == s \in Seq(ToSet(s))

(* What the parser and CREATE TABLE have seen to: a table has its columns by *)
(* different names, and what a statement has or has not is one node; GROUP   *)
(* BY names a column.                                                        *)
ASSUME QueryAssumption ==
  /\ MaxRows \in Nat
  /\ \A t \in Tables :
       /\ IsList(t.columns)
       /\ \A i, j \in DOMAIN t.columns :
            Key(t.columns[i].name) = Key(t.columns[j].name) => i = j
       /\ \A c \in ToSet(t.columns) :
            c.dataType \in {"INTEGER", "DECIMAL", "TEXT", "BOOLEAN"}
  /\ \A s \in Selects :
       /\ IsList(s.joins)
       /\ s.where = Absent \/ s.where = <<s.where[1]>>
       /\ \/ s.groupBy = Absent
          \/ IsList(s.groupBy[1]) /\ s.groupBy[1] # <<>>
       /\ \/ s.orderBy = Absent
          \/ /\ IsList(s.orderBy[1])
             /\ \A item \in ToSet(s.orderBy[1]) : item.nulls \in {"default", "FIRST", "LAST"}
       /\ s.limit = Absent \/ s.limit[1] \in Nat
  /\ \A m \in Mutations :
       m.type \in {"update", "delete"} => m.where = Absent \/ m.where = <<m.where[1]>>

(* Some texts come before others, and what does not come before or after a   *)
(* text is as good as that text.                                             *)
ASSUME LocaleAssumption ==
  \A s, t \in Texts :
    LocaleBefore(s, t) => /\ ~LocaleBefore(t, s)
                          /\ \A u \in Texts : LocaleBefore(s, u) \/ LocaleBefore(u, t)

TableNames == {Key(t.tableName) : t \in Tables}
Definition == [table \in TableNames |-> CHOOSE t \in Tables : Key(t.tableName) = table]
Schema == [table \in TableNames |-> Definition[table].columns]
ColumnKeys == [table \in TableNames |-> {Key(c.name) : c \in ToSet(Schema[table])}]
ColumnOf ==
  [table \in TableNames |->
     [key \in ColumnKeys[table] |->
        CHOOSE c \in ToSet(Schema[table]) : Key(c.name) = key]]

(* A function on positions, as a sequence: TLC computes its values once, and *)
(* not whenever one is looked up.                                            *)
Listed(f) == f \o <<>>

ContainsAggregate(e) == \E x \in SubexpressionsOf(e) : x.type = "aggregate"
ColumnsIn(e) == {x \in SubexpressionsOf(e) : x.type = "column"}

----------------------------------------------------------------------------
(* QueryScope                                                                *)

Relations(s) ==
  LET Relation(reference) ==
        [table |-> Key(reference.name),
         visible |-> IF reference.alias # Absent THEN reference.alias[1]
                     ELSE Definition[Key(reference.name)].tableName]
  IN  <<Relation(s.from)>> \o Listed([j \in DOMAIN s.joins |-> Relation(s.joins[j].table)])

RelationsExist(s) ==
  /\ \A reference \in {s.from} \cup {join.table : join \in ToSet(s.joins)} :
       Key(reference.name) \in TableNames
  /\ IsInjective([k \in DOMAIN Relations(s) |-> Key(Relations(s)[k].visible)])

(* The columns that a reference may stand for: a relation and a name.        *)
Matches(relations, c) ==
  {<<k, Key(c.name)>> : k \in
     {r \in DOMAIN relations :
        /\ Key(c.name) \in ColumnKeys[relations[r].table]
        /\ Key(c.qualifier) \in {Unqualified, Key(relations[r].visible)}}}

Resolves(relations, c) == Cardinality(Matches(relations, c)) = 1
Resolve(relations, c) == CHOOSE column \in Matches(relations, c) : TRUE

Value(relations, joined, column) ==
  LET k == column[1]
  IN  IF k > Len(joined) \/ joined[k] = 0 THEN Null
      ELSE rows[relations[k].table][joined[k]][column[2]]

Context(relations, joined, e) ==
  [c \in ColumnsIn(e) |-> Value(relations, joined, Resolve(relations, c))]

StoredName(relations, column) == ColumnOf[relations[column[1]].table][column[2]].name

QualifiedName(relations, column) ==
  relations[column[1]].visible \o <<".">> \o StoredName(relations, column)

OutputLabel(relations, c) ==
  LET column == Resolve(relations, c)
  IN  IF c.qualifier = Unqualified THEN StoredName(relations, column)
      ELSE QualifiedName(relations, column)

----------------------------------------------------------------------------
(* Joins.                                                                    *)

JoinCondition(join) == Binary("comparison", "=", join.left, join.right)

JoinConditionMatches(relations, join, joined) ==
  ScopedPredicate(JoinCondition(join),
                    Context(relations, joined, JoinCondition(join))) = "TRUE"

Extensions(relations, lefts) ==
  LET table == relations[Len(lefts[1]) + 1].table
      Extended(l) == Listed([i \in DOMAIN rows[table] |-> Append(lefts[l], i)])
  IN  IF lefts = <<>> THEN <<>> ELSE FlattenSeq(Listed([i \in DOMAIN lefts |-> Extended(i)]))

(* Variant: a left row finds its matches by the values of its rows.          *)
ExtendLeftByValue(relations, lefts, matched) ==
  LET Row(joined, k) == IF joined[k] = 0 THEN Null ELSE rows[relations[k].table][joined[k]]
      Same(left, joined) ==
        \A k \in DOMAIN left : IF joined[k] = 0 \/ left[k] = 0 THEN joined[k] = left[k]
                               ELSE Row(joined, k) = Row(left, k)
      Extended(l) ==
        LET own == Only(matched, {i \in DOMAIN matched : Same(lefts[l], matched[i])})
        IN  IF own = <<>> THEN <<Append(lefts[l], 0)>> ELSE own
  IN  FlattenSeq(Listed([i \in DOMAIN lefts |-> Extended(i)]))

ExtendLeftJoinRows(relations, lefts, matched) ==
  LET Extended(l) ==
        LET own == Only(matched, {i \in DOMAIN matched : IsPrefix(lefts[l], matched[i])})
        IN  IF own = <<>> THEN <<Append(lefts[l], 0)>> ELSE own
  IN  FlattenSeq(Listed([i \in DOMAIN lefts |-> Extended(i)]))

BaseRows(relations) == Listed([i \in DOMAIN rows[relations[1].table] |-> <<i>>])

MatchedRows(relations, join, candidates) ==
  Only(candidates, {i \in DOMAIN candidates :
                      JoinConditionMatches(relations, join, candidates[i])})

JoinRows(relations, lefts, join) ==
  LET matched == MatchedRows(relations, join, Extensions(relations, lefts))
  IN  IF join.joinType = "LEFT" THEN ExtendLeftJoinRows(relations, lefts, matched)
      ELSE matched

JoinedRows(s) ==
  LET relations == Relations(s)
      joined[n \in 0..Len(s.joins)] ==
        IF n = 0 THEN BaseRows(relations)
        ELSE JoinRows(relations, joined[n - 1], s.joins[n])
  IN  joined[Len(s.joins)]

WhereTruth(s, relations, joined) ==
  ScopedPredicate(s.where[1], Context(relations, joined, s.where[1]))

PassingRows(s, relations, joineds) ==
  IF s.where = Absent THEN joineds
  ELSE Only(joineds, {i \in DOMAIN joineds :
                        PassesPredicate(WhereTruth(s, relations, joineds[i]))})

FilteredRows(s) == PassingRows(s, Relations(s), JoinedRows(s))

----------------------------------------------------------------------------
(* What a select list is.                                                    *)

WildcardLabels(relations) ==
  LET Label(k, name) ==
        IF Len(relations) = 1 THEN name ELSE relations[k].visible \o <<".">> \o name
      LabelsOf(k) == LET schema == Schema[relations[k].table]
                     IN  Listed([i \in DOMAIN schema |-> Label(k, schema[i].name)])
  IN  FlattenSeq(Listed([i \in DOMAIN relations |-> LabelsOf(i)]))

ItemLabel(relations, item) ==
  LET e == item.expression
  IN  IF item.alias # Absent THEN item.alias[1]
      ELSE IF e.type = "column" THEN OutputLabel(relations, e)
      ELSE IF e.type = "aggregate"
           THEN <<e.function, "(">> \o (IF e.argument = Wildcard THEN <<"*">>
                                        ELSE OutputLabel(relations, e.argument)) \o <<")">>
      ELSE TextOf(e)

Labels(s) ==
  LET relations == Relations(s)
      LabelsOf(i) == IF s.columns[i] = Wildcard THEN WildcardLabels(relations)
                     ELSE <<ItemLabel(relations, s.columns[i])>>
  IN  FlattenSeq(Listed([i \in DOMAIN s.columns |-> LabelsOf(i)]))

SelectedExpressions(s) ==
  {item.expression : item \in {x \in ToSet(s.columns) : x # Wildcard}}
HasAggregates(s) == \E e \in SelectedExpressions(s) : e.type = "aggregate"
GroupColumns(s) == IF s.groupBy = Absent THEN <<>> ELSE s.groupBy[1]
IsGrouped(s) == HasAggregates(s) \/ s.groupBy # Absent

----------------------------------------------------------------------------
(* What a statement must satisfy, whatever the rows are.                     *)

AggregateValid(relations, e) ==
  \/ e.argument = Wildcard
  \/ /\ Resolves(relations, e.argument)
     /\ e.function \in {"SUM", "AVG"} =>
          LET column == Resolve(relations, e.argument)
          IN  ColumnOf[relations[column[1]].table][column[2]].dataType
                \in {"INTEGER", "DECIMAL"}

ScalarValid(relations, e) ==
  /\ ~ContainsAggregate(e)
  /\ \A c \in ColumnsIn(e) : Resolves(relations, c)

ColumnsValid(s) ==
  LET relations == Relations(s)
      Resolved(columns) == Listed([i \in DOMAIN columns |-> Resolve(relations, columns[i])])
  IN  /\ \A e \in SelectedExpressions(s) :
           IF e.type = "aggregate" THEN AggregateValid(relations, e)
           ELSE ScalarValid(relations, e)
      /\ \A join \in ToSet(s.joins) : ScalarValid(relations, JoinCondition(join))
      /\ \A e \in ToSet(s.where) : ScalarValid(relations, e)
      /\ \A c \in ToSet(GroupColumns(s)) : Resolves(relations, c)
      /\ IsInjective(Resolved(GroupColumns(s)))

LabelsDistinct(s) == LET labels == Labels(s)
                     IN  IsInjective(Listed([i \in DOMAIN labels |-> Key(labels[i])]))

(* validateQueryShape                                                        *)
ShapeValid(s) ==
  LET relations == Relations(s)
      Grouped(e) == /\ e.type = "column"
                    /\ \E c \in ToSet(GroupColumns(s)) :
                         Resolve(relations, e) = Resolve(relations, c)
  IN  IsGrouped(s) =>
        /\ Wildcard \notin ToSet(s.columns)
        /\ \A e \in SelectedExpressions(s) : e.type = "aggregate" \/ Grouped(e)

StatementValid(s) ==
  RelationsExist(s) /\ ColumnsValid(s) /\ LabelsDistinct(s) /\ ShapeValid(s)

----------------------------------------------------------------------------
(* A quotient of AVG that is no integer is kept as a fraction.               *)
Average(total, count) ==
  IF total % count = 0 THEN Number(total \div count) ELSE <<"quotient", total, count>>

NumberValues == ({"number"} \X Int) \cup ({"quotient"} \X Int \X (Nat \ {0}))
TextValues == {"string"} \X Texts
BooleanValues == {"boolean"} \X BOOLEAN

AreNumbers(v, w) == v \in NumberValues /\ w \in NumberValues
AreTexts(v, w) == v \in TextValues /\ w \in TextValues
AreBooleans(v, w) == v \in BooleanValues /\ w \in BooleanValues

(* compareDatabaseValues takes no other two values.                          *)
Comparable(v, w) ==
  Null \in {v, w} \/ AreNumbers(v, w) \/ AreTexts(v, w) \/ AreBooleans(v, w)

Denominator(v) == IF v[1] = "quotient" THEN v[3] ELSE 1

(* compareDatabaseValues, of values that are not NULL.                       *)
Smaller(v, w) ==
  \/ AreNumbers(v, w) /\ v[2] * Denominator(w) < w[2] * Denominator(v)
  \/ AreTexts(v, w) /\ LocaleBefore(v[2], w[2])
  \/ AreBooleans(v, w) /\ ~v[2] /\ w[2]

----------------------------------------------------------------------------
(* Groups and aggregates.                                                    *)

GroupKey(s, joined) ==
  LET relations == Relations(s)
      columns == GroupColumns(s)
  IN  Listed([i \in DOMAIN columns |-> Value(relations, joined, Resolve(relations, columns[i]))])

(* Variant: NULL is no key of a group that is there.                         *)
NullIsNoKey(s, joined, group) ==
  /\ GroupKey(s, joined) = GroupKey(s, group[1])
  /\ Null \notin ToSet(GroupKey(s, joined))

InGroup(s, joined, group) == GroupKey(s, joined) = GroupKey(s, group[1])

PutInGroup(s, groups, joined) ==
  LET own == {g \in DOMAIN groups : InGroup(s, joined, groups[g])}
  IN  IF own = {} THEN Append(groups, <<joined>>)
      ELSE [groups EXCEPT ![Min(own)] = Append(@, joined)]

BuildGroups(s, joineds) ==
  LET groups[n \in 0..Len(joineds)] ==
        IF n = 0 THEN <<>> ELSE PutInGroup(s, groups[n - 1], joineds[n])
  IN  IF GroupColumns(s) # <<>> THEN groups[Len(joineds)]
      ELSE IF HasAggregates(s) THEN <<joineds>>
      ELSE <<>>

ComputeAggregate(relations, e, group) ==
  LET ValueIn(i) == Value(relations, group[i], Resolve(relations, e.argument))
      values == SelectSeq(Listed([i \in DOMAIN group |-> ValueIn(i)]), LAMBDA v : v # Null)
      total == FoldLeft(LAMBDA sum, v : sum + v[2], 0, values)
      Least(v, w) == IF Smaller(w, v) THEN w ELSE v
      Greatest(v, w) == IF Smaller(v, w) THEN w ELSE v
  IN  IF e.argument = Wildcard THEN Number(Len(group))
      ELSE IF e.function = "COUNT" THEN Number(Len(values))
      ELSE IF values = <<>> THEN Null
      ELSE CASE e.function = "SUM" -> Number(total)
             [] e.function = "AVG" -> Average(total, Len(values))
             [] e.function = "MIN" -> FoldLeft(Least, values[1], values)
             [] e.function = "MAX" -> FoldLeft(Greatest, values[1], values)

----------------------------------------------------------------------------
(* Records: the row or the group that they are projected from, as a sequence *)
(* of joined rows, and a value for each label.                               *)

WildcardValues(relations, joined) ==
  LET ValuesOf(k) ==
        LET schema == Schema[relations[k].table]
        IN  Listed([i \in DOMAIN schema |-> Value(relations, joined, <<k, Key(schema[i].name)>>)])
  IN  FlattenSeq(Listed([i \in DOMAIN relations |-> ValuesOf(i)]))

ItemValues(s, item, source) ==
  LET relations == Relations(s)
  IN  IF item = Wildcard THEN WildcardValues(relations, source[1])
      ELSE IF item.expression.type = "aggregate"
           THEN <<ComputeAggregate(relations, item.expression, source)>>
      ELSE <<ScopedScalar(item.expression, Context(relations, source[1], item.expression))>>

Sources(s, joineds) ==
  IF IsGrouped(s) THEN BuildGroups(s, joineds)
  ELSE Listed([i \in DOMAIN joineds |-> <<joineds[i]>>])

Projected(s, source) ==
  [source |-> source,
   values |-> FlattenSeq(Listed([i \in DOMAIN s.columns |->
                                   ItemValues(s, s.columns[i], source)]))]

Project(s, sources) == Listed([i \in DOMAIN sources |-> Projected(s, sources[i])])

Records(s) == Project(s, Sources(s, FilteredRows(s)))

----------------------------------------------------------------------------
(* ORDER BY.                                                                 *)

(* The positions of the labels that spell a name.                            *)
Spelled(s, name) == LET labels == Labels(s)
                    IN  {i \in DOMAIN labels : Key(labels[i]) = Key(name)}

SelectedAggregates(s, e) ==
  {i \in DOMAIN s.columns :
     /\ s.columns[i] # Wildcard
     /\ s.columns[i].expression.type = "aggregate"
     /\ Key(TextOf(s.columns[i].expression)) = Key(TextOf(e))}

SourceColumn(e) == IF e.type = "column" THEN e ELSE Column(Unqualified, e.name)

(* The positions of the labels that an item of ORDER BY may mean; it takes   *)
(* the first, and a column of the rows where there is none.                  *)
OrderPlaces(s, e) ==
  CASE e.type = "ordinal" -> {e.position} \cap DOMAIN Labels(s)
    [] e.type = "aggregate" -> SelectedAggregates(s, e)
    [] OTHER -> Spelled(s, TextOf(SourceColumn(e)))

OrderResolves(s, e) ==
  \/ OrderPlaces(s, e) # {}
  \/ /\ e.type \in {"column", "result_alias"}
     /\ ~IsGrouped(s)
     /\ Resolves(Relations(s), SourceColumn(e))

OrderValue(s, e, places, record) ==
  IF places # {} THEN record.values[Min(places)]
  ELSE Value(Relations(s), record.source[1], Resolve(Relations(s), SourceColumn(e)))

(* What each of the records is ordered by.                                   *)
OrderValuesAt(s, places, records) ==
  LET ValueOf(i, record) == OrderValue(s, s.orderBy[1][i].expression, places[i], record)
  IN  Listed([r \in DOMAIN records |->
        Listed([i \in DOMAIN s.orderBy[1] |-> ValueOf(i, records[r])])])

OrderValues(s, records) ==
  OrderValuesAt(s, Listed([i \in DOMAIN s.orderBy[1] |->
                             OrderPlaces(s, s.orderBy[1][i].expression)]), records)

NullsPlaced(item) ==
  CASE item.nulls # "default" -> item.nulls
    [] OTHER -> IF item.direction = "ASC" THEN "LAST" ELSE "FIRST"

(* Variant: the direction is applied to the place of NULL too.               *)
DirectionMovesNulls(item, v, w) ==
  LET Up == IF v = Null THEN w # Null /\ NullsPlaced(item) = "FIRST"
            ELSE IF w = Null THEN NullsPlaced(item) = "LAST"
            ELSE Smaller(v, w)
      Down == IF w = Null THEN v # Null /\ NullsPlaced(item) = "FIRST"
              ELSE IF v = Null THEN NullsPlaced(item) = "LAST"
              ELSE Smaller(w, v)
  IN  IF item.direction = "ASC" THEN Up ELSE Down

OrderedBefore(item, v, w) ==
  IF v = Null THEN w # Null /\ NullsPlaced(item) = "FIRST"
  ELSE IF w = Null THEN NullsPlaced(item) = "LAST"
  ELSE IF item.direction = "ASC" THEN Smaller(v, w) ELSE Smaller(w, v)

(* The values v go before the values w, by the first item that decides.      *)
GoesFirst(items, v, w) ==
  \E i \in DOMAIN items :
    /\ OrderedBefore(items[i], v[i], w[i])
    /\ \A j \in 1..(i - 1) : ~OrderedBefore(items[j], w[j], v[j])

(* The positions of the values in order; where they are equal, as they were. *)
SortedPositions(items, values) ==
  LET places == DOMAIN values
      ComesFirst(q, r) == \/ GoesFirst(items, values[q], values[r])
                          \/ q < r /\ ~GoesFirst(items, values[r], values[q])
  IN  Sorted(Len(values), {pair \in places \X places : ComesFirst(pair[1], pair[2])})

Rearranged(records, order) == Listed([i \in DOMAIN order |-> records[order[i]]])

SortProjected(s, records) ==
  Rearranged(records, SortedPositions(s.orderBy[1], OrderValues(s, records)))

----------------------------------------------------------------------------
(* SELECT.                                                                   *)

(* Two records are compared by the first item that tells them apart.         *)
Decided(items, v, w, i) ==
  \E j \in 1..(i - 1) : OrderedBefore(items[j], v[j], w[j]) \/ OrderedBefore(items[j], w[j], v[j])

CanBeCompared(items, v, w) ==
  \A i \in DOMAIN items : Comparable(v[i], w[i]) \/ Decided(items, v, w, i)

CanBeSorted(items, values) ==
  \A q, r \in DOMAIN values : q # r => CanBeCompared(items, values[q], values[r])

(* The order is looked at when there is something to put in order.  Whatever *)
(* the sort compares, it compares two records that come next to each other.  *)
RecordsAccepted(s, records) ==
  /\ \A record \in ToSet(records) : Error \notin ToSet(record.values)
  /\ s.orderBy # Absent /\ records # <<>> =>
       /\ \A item \in ToSet(s.orderBy[1]) : OrderResolves(s, item.expression)
       /\ CanBeSorted(s.orderBy[1], OrderValues(s, records))

RowsAccepted(s) ==
  /\ s.where # Absent =>
       LET relations == Relations(s)
       IN  \A joined \in ToSet(JoinedRows(s)) : WhereTruth(s, relations, joined) # "ERROR"
  /\ RecordsAccepted(s, Records(s))

Accepts(s) == StatementValid(s) /\ RowsAccepted(s)

InOrder(s, records) == IF s.orderBy = Absent THEN records ELSE SortProjected(s, records)

Limited(s, sorted) ==
  IF s.limit = Absent \/ Len(sorted) <= s.limit[1] THEN sorted
  ELSE SubSeq(sorted, 1, s.limit[1])

Result(s) == Limited(s, InOrder(s, Records(s)))

----------------------------------------------------------------------------
(* INSERT, UPDATE and DELETE.  They validate the names of columns, and look  *)
(* at the qualifier of one only when they evaluate it for a row.             *)

TypeOf == [INTEGER |-> "number", DECIMAL |-> "number", TEXT |-> "string",
           BOOLEAN |-> "boolean"]

(* Variant: the type of a value that may be NULL is not looked at.           *)
NullableIsAnything(column, v) ==
  v # Error /\ (column.nullable \/ v[1] = TypeOf[column.dataType])

ValidValue(column, v) ==
  IF v = Null THEN column.nullable ELSE v[1] = TypeOf[column.dataType]

ValidRow(table, row) ==
  \A key \in ColumnKeys[table] : ValidValue(ColumnOf[table][key], row[key])

TableContext(table, row, e) ==
  LET Known(c) == Key(c.qualifier) \in {Unqualified, table}
  IN  [c \in {x \in ColumnsIn(e) : Known(x)} |-> row[Key(c.name)]]

ColumnsKnown(table, e) ==
  ~ContainsAggregate(e) /\ \A c \in ColumnsIn(e) : Key(c.name) \in ColumnKeys[table]

RowTruth(m, row) ==
  IF m.where = Absent THEN "TRUE"
  ELSE ScopedPredicate(m.where[1], TableContext(Key(m.tableName), row, m.where[1]))

(* Variant: a row that is not known to be kept is touched.                   *)
TouchesUnknown(m, row) == RowTruth(m, row) # "FALSE"

Touches(m, row) == PassesPredicate(RowTruth(m, row))

WhereAccepted(m) ==
  /\ Key(m.tableName) \in TableNames
  /\ \A e \in ToSet(m.where) : ColumnsKnown(Key(m.tableName), e)
  /\ \A row \in ToSet(rows[Key(m.tableName)]) : RowTruth(m, row) # "ERROR"

(* A column that INSERT does not name has no value.                          *)
InsertedRow(m) ==
  LET table == Key(m.tableName)
      names == IF m.columns # Absent THEN m.columns[1]
               ELSE [i \in DOMAIN Schema[table] |-> Schema[table][i].name]
      Given(key) == {i \in DOMAIN names : Key(names[i]) = key}
  IN  [key \in ColumnKeys[table] |->
         IF Given(key) = {} THEN Null ELSE m.values[Min(Given(key))].value]

InsertAccepted(m) ==
  LET table == Key(m.tableName)
      count == IF m.columns # Absent THEN Len(m.columns[1]) ELSE Len(Schema[table])
  IN  /\ table \in TableNames
      /\ Len(m.values) = count
      /\ m.columns # Absent =>
           LET keys == [i \in DOMAIN m.columns[1] |-> Key(m.columns[1][i])]
           IN  IsInjective(keys) /\ ToSet(keys) \subseteq ColumnKeys[table]
      /\ ValidRow(table, InsertedRow(m))

Assigned(m) == [i \in DOMAIN m.assignments |-> Key(m.assignments[i].columnName)]

UpdatedRow(m, row) ==
  LET table == Key(m.tableName)
      New(i) == LET e == m.assignments[i].value
                IN  ScopedScalar(e, TableContext(table, row, e))
  IN  [key \in DOMAIN row |->
         IF key \in ToSet(Assigned(m))
         THEN New(CHOOSE i \in DOMAIN Assigned(m) : Assigned(m)[i] = key)
         ELSE row[key]]

UpdatedRows(m) ==
  LET old == rows[Key(m.tableName)]
  IN  Listed([i \in DOMAIN old |-> IF Touches(m, old[i]) THEN UpdatedRow(m, old[i]) ELSE old[i]])

UpdateAccepted(m) ==
  LET table == Key(m.tableName)
  IN  /\ WhereAccepted(m)
      /\ IsInjective(Assigned(m))
      /\ ToSet(Assigned(m)) \subseteq ColumnKeys[table]
      /\ \A assignment \in ToSet(m.assignments) : ColumnsKnown(table, assignment.value)
      /\ \A row \in ToSet(UpdatedRows(m)) : ValidRow(table, row)

KeptRows(m) ==
  LET old == rows[Key(m.tableName)]
  IN  Only(old, {i \in DOMAIN old : ~Touches(m, old[i])})

ReplaceRows(m, new) == rows' = [rows EXCEPT ![Key(m.tableName)] = new]

ExecuteInsert(m) ==
  /\ InsertAccepted(m)
  /\ MapThenSumSet(LAMBDA table : Len(rows[table]), TableNames) < MaxRows
  /\ ReplaceRows(m, Append(rows[Key(m.tableName)], InsertedRow(m)))

ExecuteUpdate(m) == UpdateAccepted(m) /\ ReplaceRows(m, UpdatedRows(m))

ExecuteDelete(m) == WhereAccepted(m) /\ ReplaceRows(m, KeptRows(m))

Init == rows = [table \in TableNames |-> <<>>]

Inserts == {m \in Mutations : m.type = "insert"}
Updates == {m \in Mutations : m.type = "update"}
Deletes == {m \in Mutations : m.type = "delete"}

Next ==
  \/ \E m \in Inserts : ExecuteInsert(m)
  \/ \E m \in Updates : ExecuteUpdate(m)
  \/ \E m \in Deletes : ExecuteDelete(m)

Spec == Init /\ [][Next]_rows

----------------------------------------------------------------------------
(* Properties.                                                               *)

ValidSelects == {s \in Selects : StatementValid(s)}
GroupedSelects == {s \in ValidSelects : IsGrouped(s)}
OrderedSelects == {s \in ValidSelects : s.orderBy # Absent}
Accepted(selects) == {s \in selects : RowsAccepted(s)}

Precedes(p, q) == \E i \in DOMAIN p : p[i] < q[i] /\ \A j \in 1..(i - 1) : p[j] = q[j]

(* Every table keeps rows of its schema, whatever an UPDATE computes.        *)
TypeOK ==
  /\ DOMAIN rows = TableNames
  /\ \A table \in TableNames : \A row \in ToSet(rows[table]) :
       /\ DOMAIN row = ColumnKeys[table]
       /\ \A c \in ToSet(Schema[table]) :
            /\ row[Key(c.name)] = Null => c.nullable
            /\ row[Key(c.name)] # Null => row[Key(c.name)][1] = TypeOf[c.dataType]

(* The nested loops and the null extension of joins give what the joins say: *)
(* each choice of a row from every table that meets the conditions, and for  *)
(* a LEFT JOIN without one the left row with nulls, once each and in the     *)
(* order of the tables' rows, equal rows included.                           *)
JoinsAreComplete ==
  LET Chosen(relations, join, joined, left) ==
        IF Last(joined) # 0 THEN JoinConditionMatches(relations, join, joined)
        ELSE /\ join.joinType = "LEFT"
             /\ \A i \in DOMAIN rows[relations[Len(joined)].table] :
                  ~JoinConditionMatches(relations, join, Append(left, i))
      Lengths(relations) == Listed([k \in DOMAIN relations |-> Len(rows[relations[k].table])])
      Positions(lengths) ==
        {joined \in [DOMAIN lengths -> 0..Max(ToSet(lengths))] :
           joined[1] # 0 /\ \A k \in DOMAIN joined : joined[k] <= lengths[k]}
      IsChoice(s, relations, joined) ==
        \A j \in DOMAIN s.joins :
          Chosen(relations, s.joins[j], SubSeq(joined, 1, j + 1), SubSeq(joined, 1, j))
      Complete(s, relations, joineds) ==
        /\ ToSet(joineds) = {joined \in Positions(Lengths(relations)) :
                               IsChoice(s, relations, joined)}
        /\ \A i \in 2..Len(joineds) : Precedes(joineds[i - 1], joineds[i])
  IN  \A s \in ValidSelects : Complete(s, Relations(s), JoinedRows(s))

(* Every row of a grouped query is in one group, with all the rows that have *)
(* its key and no others, NULL being a key like any other; the groups come   *)
(* in the order of their first rows; and a query that only aggregates has    *)
(* one group even when it has no row.                                        *)
GroupsAreClasses ==
  LET ClassOf(s, filtered, key) ==
        Only(filtered, {i \in DOMAIN filtered : GroupKey(s, filtered[i]) = key})
      Place(filtered, group) == Min({i \in DOMAIN filtered : filtered[i] = group[1]})
      AreClasses(s, filtered, groups, keys) ==
        /\ ToSet(groups) = {ClassOf(s, filtered, key) : key \in keys}
        /\ Len(groups) = Cardinality(keys)
        /\ \A g \in 2..Len(groups) :
             Place(filtered, groups[g - 1]) < Place(filtered, groups[g])
      Grouped(s, filtered) ==
        LET groups == BuildGroups(s, filtered)
        IN  IF GroupColumns(s) = <<>> THEN groups = <<filtered>>
            ELSE AreClasses(s, filtered, groups, {GroupKey(s, j) : j \in ToSet(filtered)})
  IN  \A s \in Accepted(GroupedSelects) : Grouped(s, FilteredRows(s))

(* The rows of a result are those of the query without ORDER BY, in an order *)
(* that its items rank them in: values up or down as the item says, NULL at  *)
(* the end that NULLS says, by default the last of ASC and the first of      *)
(* DESC, and rows of one rank as they were.  LIMIT takes the first of them.  *)
OrderIsRespected ==
  LET NullsLast(item) == \/ item.nulls = "LAST"
                         \/ item.nulls = "default" /\ item.direction = "ASC"
      Rank(item, v, values) ==
        LET smaller == Cardinality({w \in values \ {Null} : Smaller(w, v)})
        IN  CASE v = Null -> IF NullsLast(item) THEN Cardinality(values) ELSE -Cardinality(values)
              [] OTHER -> IF item.direction = "ASC" THEN smaller ELSE -smaller
      RankAmong(item, i, values, r) == Rank(item, values[r][i], {v[i] : v \in ToSet(values)})
      Ranks(s, values) ==
        Listed([r \in DOMAIN values |->
          Listed([i \in DOMAIN s.orderBy[1] |-> RankAmong(s.orderBy[1][i], i, values, r)])])
      Place(records, r) == CHOOSE i \in DOMAIN records : records[i] = r
      (* The rows go up by their ranks, and then by their places.              *)
      GoesUp(ranks, places) ==
        \A i \in 2..Len(ranks) : \/ Precedes(ranks[i - 1], ranks[i])
                                 \/ ranks[i - 1] = ranks[i] /\ places[i - 1] < places[i]
      Respected(s, records, all) ==
        /\ GoesUp(Ranks(s, OrderValues(s, all)),
                  Listed([i \in DOMAIN all |-> Place(records, all[i])]))
        /\ ToSet(all) = ToSet(records)
        /\ Len(all) = Len(records)
        /\ Result(s) = SubSeq(all, 1, IF s.limit = Absent THEN Len(all)
                                      ELSE Min({s.limit[1], Len(all)}))
  IN  \A s \in Accepted(OrderedSelects) :
        Respected(s, Records(s), InOrder(s, Records(s)))

(* SELECT * with the WHERE of an UPDATE or a DELETE.                         *)
Shown(m) == [type |-> "select", columns |-> <<Wildcard>>,
             from |-> [name |-> m.tableName, alias |-> Absent], joins |-> <<>>,
             where |-> m.where, groupBy |-> Absent, orderBy |-> Absent, limit |-> Absent]

ShownMutations == {m \in Updates \cup Deletes : StatementValid(Shown(m))}

(* What a user was shown by SELECT with a WHERE is what UPDATE and DELETE    *)
(* with that WHERE touch, although the two evaluate it in scopes of their    *)
(* own; and where the SELECT is accepted the DELETE is.                      *)
MutationsTouchWhatSelectShows ==
  LET Touched(m, old) == Only(Listed([i \in DOMAIN old |-> i]),
                              {i \in DOMAIN old : Touches(m, old[i])})
      Positions(records) == Listed([i \in DOMAIN records |-> records[i].source[1][1]])
  IN  \A m \in ShownMutations :
        /\ RowsAccepted(Shown(m)) = WhereAccepted(m)
        /\ WhereAccepted(m) =>
             Touched(m, rows[Key(m.tableName)]) = Positions(Result(Shown(m)))
============================================================================
