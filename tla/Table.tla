------------------------------- MODULE Table -------------------------------
(***************************************************************************)
(* Columns, rows and the checks one table makes on its own: what           *)
(* src/storage/column.ts and src/storage/table.ts compute before a row is  *)
(* stored.  There is no state here; a table is a record                    *)
(*                                                                         *)
(*     [schema |-> function from column names to column definitions,       *)
(*      rows   |-> sequence of functions from those names to values]       *)
(*                                                                         *)
(* Names are normalised names: a name given in another letter case is the  *)
(* same name to the code, so it is the same element here.                  *)
(***************************************************************************)
EXTENDS Integers, Sequences, FiniteSets

CONSTANTS
  TableNames,    \* normalised table names
  ColumnNames,   \* normalised column names
  DataTypes,     \* INTEGER, DECIMAL, TEXT, BOOLEAN: those an instance uses
  ValuesOf,      \* ValuesOf[d]: the non-null values that validateType accepts for d
  JsonOf,        \* JsonOf[v]: the value that is read where JSON.stringify wrote v
  Null,          \* SQL NULL
  NoReference    \* the "references" field of a column that is no foreign key

Values == UNION {ValuesOf[d] : d \in DataTypes}

ASSUME TableAssumption ==
  /\ ValuesOf \in [DataTypes -> SUBSET Values]
  /\ JsonOf \in [Values -> Values]
  /\ \A d \in DataTypes : \A v \in ValuesOf[d] : JsonOf[v] \in ValuesOf[d]
  /\ \A v \in Values : JsonOf[JsonOf[v]] = JsonOf[v]
  /\ Null \notin Values
  /\ NoReference \notin [table : TableNames, column : ColumnNames]

References == [table : TableNames, column : ColumnNames]

(* What a caller writes for a column (ColumnDefinition) and what a table     *)
(* keeps of it (StoredColumnDefinition) have the same fields.                *)
ColumnDefinitions ==
  [type : DataTypes, nullable : BOOLEAN, unique : BOOLEAN,
   primaryKey : BOOLEAN, references : References \cup {NoReference}]

(* A stored primary key column is unique and not nullable, whatever the      *)
(* caller wrote.                                                             *)
StoredColumnDefinitions ==
  {d \in ColumnDefinitions : d.primaryKey => d.unique /\ ~d.nullable}

ColumnLists == UNION {[C -> ColumnDefinitions] : C \in SUBSET ColumnNames}
Schemas == UNION {[C -> StoredColumnDefinitions] : C \in SUBSET ColumnNames}

NormalizeColumn(d) ==
  [d EXCEPT !.nullable = IF d.primaryKey THEN FALSE ELSE @,
            !.unique   = IF d.primaryKey THEN TRUE ELSE @]

NormalizeColumnDefinitions(columns) ==
  [c \in DOMAIN columns |-> NormalizeColumn(columns[c])]

(* The Table constructor refuses a second primary key.                       *)
SchemaConstraintsValid(schema) ==
  \A c, d \in DOMAIN schema :
    schema[c].primaryKey /\ schema[d].primaryKey => c = d

ForeignKeys(schema) == {c \in DOMAIN schema : schema[c].references # NoReference}

----------------------------------------------------------------------------
(* Rows.  An input row names some columns; a column it leaves out is stored  *)
(* as NULL if it is nullable.                                                *)

InputRows(columns) == UNION {[C -> Values \cup {Null}] : C \in SUBSET columns}

ValidValue(d, v) == IF v = Null THEN d.nullable ELSE v \in ValuesOf[d.type]

(* Variant: a missing column is not checked.                                 *)
AcceptsPartialRow(schema, input) ==
  /\ DOMAIN input \subseteq DOMAIN schema
  /\ \A c \in DOMAIN input : ValidValue(schema[c], input[c])

AcceptsInputRow(schema, input) ==
  /\ DOMAIN input \subseteq DOMAIN schema
  /\ \A c \in DOMAIN schema :
       IF c \in DOMAIN input THEN ValidValue(schema[c], input[c])
                             ELSE schema[c].nullable

ValidateInputRow(schema, input) ==
  [c \in DOMAIN schema |-> IF c \in DOMAIN input THEN input[c] ELSE Null]

StoredRows(schema) ==
  {r \in [DOMAIN schema -> Values \cup {Null}] :
     \A c \in DOMAIN schema : ValidValue(schema[c], r[c])}

IsTable(t) ==
  /\ t = [schema |-> t.schema, rows |-> t.rows]
  /\ t.schema \in Schemas
  /\ t.rows \in Seq(StoredRows(t.schema))

----------------------------------------------------------------------------
(* validateRows: NULLs never collide in a unique column, and never appear in *)
(* a primary key.                                                            *)

(* Variant: values are compared as Object.is compares them.                  *)
DifferentValues(rows, c) ==
  \A i, j \in DOMAIN rows :
    rows[i][c] # Null /\ rows[j][c] # Null /\ rows[i][c] = rows[j][c] => i = j

(* The set of seen values holds their JSON text, in which 0 and -0 are one.  *)
UniqueValues(rows, c) ==
  \A i, j \in DOMAIN rows :
    /\ rows[i][c] # Null
    /\ rows[j][c] # Null
    /\ JsonOf[rows[i][c]] = JsonOf[rows[j][c]]
    => i = j

UniqueColumnValid(schema, rows, c) ==
  /\ schema[c].primaryKey => \A i \in DOMAIN rows : rows[i][c] # Null
  /\ UniqueValues(rows, c)

ValidateRows(schema, rows) ==
  \A c \in DOMAIN schema :
    schema[c].primaryKey \/ schema[c].unique => UniqueColumnValid(schema, rows, c)

(* Object.is.                                                                *)
HasMatchingValue(rows, column, v) == \E i \in DOMAIN rows : rows[i][column] = v

(* The ways to keep k of n rows in their order: the increasing functions     *)
(* from 1..k to 1..n.  (The bounds on e[i] follow from that; without them    *)
(* the proofs would need an induction to see that only the identity keeps    *)
(* all the rows.)                                                            *)
OrderedSelections(n) ==
  UNION {{e \in [1..k -> 1..n] :
            /\ \A i, j \in 1..k : i < j => e[i] < e[j]
            /\ \A i \in 1..k : i <= e[i] /\ e[i] <= n - (k - i)} :
           k \in 0..n}

RemainingRows(rows, e) == [i \in DOMAIN e |-> rows[e[i]]]
============================================================================
