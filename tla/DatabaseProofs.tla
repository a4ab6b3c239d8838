--------------------------- MODULE DatabaseProofs ---------------------------
(***************************************************************************)
(* Proofs about Database and its file, for every set of table and column   *)
(* names, every set of values and every bound on rows.                     *)
(***************************************************************************)
EXTENDS Database, TLAPS

----------------------------------------------------------------------------
(* The file: reading a snapshot that was persisted gives it back, and JSON   *)
(* changes no more than the values that JsonOf changes.                      *)

(* What a table becomes when its rows go through JSON.                       *)
LEMMA JsonTableFields ==
  ASSUME NEW db, IsDatabase(db), NEW t \in DOMAIN db
  PROVE  /\ DOMAIN Json(db) = DOMAIN db
         /\ Json(db)[t] = [schema |-> db[t].schema, rows |-> JsonRows(db[t].rows)]
<1>1. db[t] = [schema |-> db[t].schema, rows |-> db[t].rows]
  BY DEF IsDatabase, IsTable
<1>2. [db[t] EXCEPT !.rows = JsonRows(db[t].rows)]
        = [schema |-> db[t].schema, rows |-> JsonRows(db[t].rows)]
  BY <1>1
<1>3. QED
  BY <1>2 DEF Json

LEMMA JsonRowIsStored ==
  ASSUME NEW schema \in Schemas, NEW row \in StoredRows(schema)
  PROVE  /\ JsonRow(row) \in StoredRows(schema)
         /\ \A c \in DOMAIN schema : (JsonRow(row)[c] = Null) <=> (row[c] = Null)
         /\ JsonRow(JsonRow(row)) = JsonRow(row)
<1>1. row \in [DOMAIN schema -> Values \cup {Null}]
  BY DEF StoredRows
<1>2. ASSUME NEW c \in DOMAIN schema, row[c] # Null
      PROVE  /\ JsonRow(row)[c] = JsonOf[row[c]]
             /\ row[c] \in Values
             /\ JsonOf[row[c]] \in Values
             /\ JsonOf[row[c]] # Null
             /\ JsonOf[row[c]] \in ValuesOf[schema[c].type]
  <2>1. row[c] \in Values /\ row[c] \in ValuesOf[schema[c].type]
    BY <1>1, <1>2 DEF StoredRows, ValidValue
  <2>2. schema[c].type \in DataTypes
    BY DEF Schemas, StoredColumnDefinitions, ColumnDefinitions
  <2>3. JsonOf[row[c]] \in Values /\ JsonOf[row[c]] # Null
    BY <2>1, TableAssumption
  <2>4. QED
    BY <1>1, <1>2, <2>1, <2>2, <2>3, TableAssumption DEF JsonRow
<1>3. ASSUME NEW c \in DOMAIN schema, row[c] = Null
      PROVE  JsonRow(row)[c] = Null
  BY <1>1, <1>3 DEF JsonRow
<1>4. JsonRow(row) \in [DOMAIN schema -> Values \cup {Null}]
  BY <1>1, <1>2, <1>3 DEF JsonRow
<1>5. \A c \in DOMAIN schema : ValidValue(schema[c], JsonRow(row)[c])
  BY <1>1, <1>2, <1>3 DEF ValidValue, StoredRows
<1>6. \A c \in DOMAIN schema : JsonRow(JsonRow(row))[c] = JsonRow(row)[c]
  <2>1. \A c \in DOMAIN schema :
          JsonRow(JsonRow(row))[c] = IF JsonRow(row)[c] = Null THEN Null
                                     ELSE JsonOf[JsonRow(row)[c]]
    BY <1>4 DEF JsonRow
  <2>2. QED
    BY <1>2, <1>3, <2>1, TableAssumption
<1>7. JsonRow(JsonRow(row)) = JsonRow(row)
  <2>1. JsonRow(JsonRow(row)) = [c \in DOMAIN schema |-> JsonRow(JsonRow(row))[c]]
    BY <1>4 DEF JsonRow
  <2>2. JsonRow(row) = [c \in DOMAIN schema |-> JsonRow(row)[c]]
    BY <1>4
  <2>3. QED
    BY <1>6, <2>1, <2>2
<1>8. QED
  BY <1>2, <1>3, <1>4, <1>5, <1>7 DEF StoredRows

LEMMA JsonRowsAreStored ==
  ASSUME NEW schema \in Schemas, NEW rows \in Seq(StoredRows(schema))
  PROVE  /\ JsonRows(rows) \in Seq(StoredRows(schema))
         /\ DOMAIN JsonRows(rows) = DOMAIN rows
         /\ \A i \in DOMAIN rows : JsonRows(rows)[i] = JsonRow(rows[i])
         /\ JsonRows(JsonRows(rows)) = JsonRows(rows)
<1>1. \A i \in 1..Len(rows) : /\ rows[i] \in StoredRows(schema)
                              /\ JsonRow(rows[i]) \in StoredRows(schema)
                              /\ JsonRow(JsonRow(rows[i])) = JsonRow(rows[i])
  BY JsonRowIsStored
<1>2. JsonRows(rows) = [i \in 1..Len(rows) |-> JsonRow(rows[i])]
  BY DEF JsonRows
<1>3. JsonRows(JsonRows(rows)) = [i \in 1..Len(rows) |-> JsonRow(JsonRow(rows[i]))]
  BY <1>2 DEF JsonRows
<1>4. QED
  BY <1>1, <1>2, <1>3

(* A database that went through JSON is well typed, has the schemas it had,  *)
(* and going through JSON again changes nothing.                             *)
LEMMA JsonIsDatabase ==
  ASSUME NEW db, IsDatabase(db)
  PROVE  /\ IsDatabase(Json(db))
         /\ Json(Json(db)) = Json(db)
<1>1. ASSUME NEW t \in DOMAIN db
      PROVE  /\ IsTable(Json(db)[t])
             /\ Json(db)[t].schema = db[t].schema
             /\ JsonRows(Json(db)[t].rows) = Json(db)[t].rows
  <2>1. db[t].schema \in Schemas /\ db[t].rows \in Seq(StoredRows(db[t].schema))
    BY DEF IsDatabase, IsTable
  <2>2. /\ JsonRows(db[t].rows) \in Seq(StoredRows(db[t].schema))
        /\ JsonRows(JsonRows(db[t].rows)) = JsonRows(db[t].rows)
    BY <2>1, JsonRowsAreStored
  <2>3. Json(db)[t] = [schema |-> db[t].schema, rows |-> JsonRows(db[t].rows)]
    BY JsonTableFields
  <2>4. QED
    BY <2>1, <2>2, <2>3 DEF IsTable
<1>2. DOMAIN Json(db) = DOMAIN db /\ Json(db) = [t \in DOMAIN db |-> Json(db)[t]]
  BY DEF Json
<1>3. IsDatabase(Json(db))
  BY <1>1, <1>2 DEF IsDatabase
<1>4. ASSUME NEW t \in DOMAIN db
      PROVE  Json(Json(db))[t] = Json(db)[t]
  BY <1>1, <1>2, <1>3, JsonTableFields DEF IsTable
<1>5. Json(Json(db)) = [t \in DOMAIN db |-> Json(Json(db))[t]]
  BY <1>2 DEF Json
<1>6. QED
  BY <1>2, <1>3, <1>4, <1>5

(* Persisting and going through JSON commute.                                *)
LEMMA PersistedJson ==
  ASSUME NEW db, IsDatabase(db)
  PROVE  SnapshotToPersistedFile(Json(db)) = Json(SnapshotToPersistedFile(db))
<1>1. DOMAIN Json(db) = DOMAIN db
  BY DEF Json
<1>2. ASSUME NEW t \in DOMAIN db
      PROVE  PersistedTable(Json(db)[t])
               = [PersistedTable(db[t]) EXCEPT !.rows = JsonRows(PersistedTable(db[t]).rows)]
  <2>1. Json(db)[t] = [schema |-> db[t].schema, rows |-> JsonRows(db[t].rows)]
    BY JsonTableFields
  <2>2. Json(db)[t].schema = db[t].schema /\ Json(db)[t].rows = JsonRows(db[t].rows)
    BY <2>1
  <2> DEFINE schema == db[t].schema
             columns == [c \in DOMAIN schema |->
                           [type |-> schema[c].type, nullable |-> schema[c].nullable]]
             key == {c \in DOMAIN schema : schema[c].primaryKey}
             unique == {c \in DOMAIN schema : schema[c].unique}
             foreign == [c \in ForeignKeys(schema) |-> schema[c].references]
             File(rows) == [columns |-> columns, primaryKey |-> key,
                            uniqueConstraints |-> unique, foreignKeys |-> foreign,
                            rows |-> rows]
  <2>3. /\ PersistedTable(Json(db)[t]) = File(JsonRows(db[t].rows))
        /\ PersistedTable(db[t]) = File(db[t].rows)
    BY <2>2 DEF PersistedTable
  <2> HIDE DEF columns, key, unique, foreign
  <2>4. /\ [File(db[t].rows) EXCEPT !.rows = JsonRows(db[t].rows)]
             = File(JsonRows(db[t].rows))
        /\ File(db[t].rows).rows = db[t].rows
    OBVIOUS
  <2>5. QED
    BY <2>3, <2>4
<1>3. QED
  BY <1>1, <1>2 DEF SnapshotToPersistedFile, Json

(* A stored column is what is read of its persisted form: the primary key    *)
(* is unique and not nullable in both.                                       *)
LEMMA ColumnIsReadBack ==
  ASSUME NEW table, IsTable(table), NEW c \in DOMAIN table.schema
  PROVE  ColumnRead(PersistedTable(table), c) = table.schema[c]
<1> DEFINE d == table.schema[c]
           p == PersistedTable(table)
<1>1. d \in StoredColumnDefinitions
  BY DEF IsTable, Schemas
<1>2. /\ p.columns[c].type = d.type
      /\ p.columns[c].nullable = d.nullable
      /\ (c \in p.primaryKey) <=> (d.primaryKey = TRUE)
      /\ (c \in p.uniqueConstraints) <=> (d.unique = TRUE)
      /\ (c \in DOMAIN p.foreignKeys) <=> d.references # NoReference
      /\ c \in DOMAIN p.foreignKeys => p.foreignKeys[c] = d.references
  <2>1. d.primaryKey \in BOOLEAN /\ d.unique \in BOOLEAN
    BY <1>1 DEF StoredColumnDefinitions, ColumnDefinitions
  <2>2. QED
    BY <2>1 DEF PersistedTable, ForeignKeys
<1> HIDE DEF d, p
<1>3. /\ d.nullable \in BOOLEAN /\ d.unique \in BOOLEAN /\ d.primaryKey \in BOOLEAN
      /\ d.primaryKey => d.unique /\ ~d.nullable
      /\ d = [type |-> d.type, nullable |-> d.nullable, unique |-> d.unique,
              primaryKey |-> d.primaryKey, references |-> d.references]
  BY <1>1 DEF StoredColumnDefinitions, ColumnDefinitions
<1>4. (c \notin p.primaryKey /\ p.columns[c].nullable) = d.nullable
  <2>1. CASE d.nullable = TRUE
    BY <1>2, <1>3, <2>1
  <2>2. CASE d.nullable = FALSE
    BY <1>2, <2>2
  <2>3. QED
    BY <1>3, <2>1, <2>2
<1>5. (c \in p.uniqueConstraints \cup p.primaryKey) = d.unique
  <2>1. CASE d.unique = TRUE
    BY <1>2, <2>1
  <2>2. CASE d.unique = FALSE
    BY <1>2, <1>3, <2>2
  <2>3. QED
    BY <1>3, <2>1, <2>2
<1>6. (c \in p.primaryKey) = d.primaryKey
  <2>1. CASE d.primaryKey = TRUE
    <3>1. (c \in p.primaryKey) = TRUE
      BY <1>2, <2>1
    <3>2. QED
      BY <2>1, <3>1
  <2>2. CASE d.primaryKey = FALSE
    <3>1. c \notin p.primaryKey
      BY <1>2, <2>2
    <3>2. (c \in p.primaryKey) = FALSE
      BY <3>1
    <3>3. QED
      BY <2>2, <3>2
  <2>3. QED
    BY <1>3, <2>1, <2>2
<1>7. (IF c \in DOMAIN p.foreignKeys THEN p.foreignKeys[c] ELSE NoReference) = d.references
  BY <1>2
<1>8. ColumnRead(p, c) = [type |-> d.type, nullable |-> d.nullable, unique |-> d.unique,
                          primaryKey |-> d.primaryKey, references |-> d.references]
  BY <1>2, <1>4, <1>5, <1>6, <1>7 DEF ColumnRead
<1>9. QED
  BY <1>3, <1>8 DEF d, p

(* What the validation of the file reads of a persisted table.               *)
LEMMA PersistedFields ==
  ASSUME NEW db, NEW t \in DOMAIN db, NEW file, file = SnapshotToPersistedFile(db)
  PROVE  /\ DOMAIN file = DOMAIN db
         /\ DOMAIN file[t].columns = DOMAIN db[t].schema
         /\ \A c \in DOMAIN db[t].schema :
              /\ file[t].columns[c].type = db[t].schema[c].type
              /\ file[t].columns[c].nullable = db[t].schema[c].nullable
         /\ file[t].primaryKey = {c \in DOMAIN db[t].schema : db[t].schema[c].primaryKey}
         /\ file[t].uniqueConstraints = {c \in DOMAIN db[t].schema : db[t].schema[c].unique}
         /\ DOMAIN file[t].foreignKeys = ForeignKeys(db[t].schema)
         /\ \A c \in ForeignKeys(db[t].schema) :
              file[t].foreignKeys[c] = db[t].schema[c].references
         /\ file[t].rows = db[t].rows
<1>1. DOMAIN file = DOMAIN db /\ file[t] = PersistedTable(db[t])
  BY DEF SnapshotToPersistedFile
<1>2. QED
  BY <1>1 DEF PersistedTable

(* Reading what was persisted gives the snapshot back.                       *)
LEMMA ReadBack ==
  ASSUME NEW db, IsDatabase(db)
  PROVE  PersistedFileToSnapshot(SnapshotToPersistedFile(db)) = db
<1>1. ASSUME NEW t \in DOMAIN db
      PROVE  TableRead(PersistedTable(db[t])) = db[t]
  <2>1. IsTable(db[t])
    BY DEF IsDatabase
  <2>2. /\ DOMAIN PersistedTable(db[t]).columns = DOMAIN db[t].schema
        /\ PersistedTable(db[t]).rows = db[t].rows
    BY DEF PersistedTable
  <2>3. \A c \in DOMAIN db[t].schema :
          ColumnRead(PersistedTable(db[t]), c) = db[t].schema[c]
    BY <2>1, ColumnIsReadBack
  <2>4. db[t].schema = [c \in DOMAIN db[t].schema |-> db[t].schema[c]]
    BY <2>1 DEF IsTable, Schemas
  <2>5. TableRead(PersistedTable(db[t])) = [schema |-> db[t].schema, rows |-> db[t].rows]
    BY <2>2, <2>3, <2>4 DEF TableRead
  <2>6. QED
    BY <2>1, <2>5 DEF IsTable
<1>2. db = [t \in DOMAIN db |-> db[t]]
  BY DEF IsDatabase
<1>3. QED
  BY <1>1, <1>2 DEF PersistedFileToSnapshot, SnapshotToPersistedFile

(* The database that decode returns is the one that encode was given, but    *)
(* for the values that JSON changes: no column, key or row is lost.          *)
THEOREM CodecRoundTrip ==
  ASSUME NEW db, IsDatabase(db)
  PROVE  PersistedFileToSnapshot(Json(SnapshotToPersistedFile(db))) = Json(db)
BY PersistedJson, ReadBack, JsonIsDatabase

----------------------------------------------------------------------------
(* Columns and schemas.                                                      *)

(* What the constructor normalises is a schema.                              *)
LEMMA NormalizedIsSchema ==
  ASSUME NEW columns \in ColumnLists
  PROVE  NormalizeColumnDefinitions(columns) \in Schemas
<1>1. PICK C \in SUBSET ColumnNames : columns \in [C -> ColumnDefinitions]
  BY DEF ColumnLists
<1>2. ASSUME NEW c \in C
      PROVE  NormalizeColumn(columns[c]) \in StoredColumnDefinitions
  BY <1>1 DEF NormalizeColumn, StoredColumnDefinitions, ColumnDefinitions
<1>3. NormalizeColumnDefinitions(columns) \in [C -> StoredColumnDefinitions]
  BY <1>1, <1>2 DEF NormalizeColumnDefinitions
<1>4. QED
  BY <1>3 DEF Schemas

(* What is stored for an accepted input row fits the schema.                 *)
LEMMA AcceptedIsStored ==
  ASSUME NEW schema \in Schemas, NEW columns, NEW input \in InputRows(columns),
         AcceptsInputRow(schema, input)
  PROVE  ValidateInputRow(schema, input) \in StoredRows(schema)
<1>1. ASSUME NEW c \in DOMAIN schema
      PROVE  /\ ValidateInputRow(schema, input)[c] \in Values \cup {Null}
             /\ ValidValue(schema[c], ValidateInputRow(schema, input)[c])
  BY DEF AcceptsInputRow, ValidateInputRow, ValidValue, InputRows
<1>2. ValidateInputRow(schema, input) \in [DOMAIN schema -> Values \cup {Null}]
  BY <1>1 DEF ValidateInputRow
<1>3. QED
  BY <1>1, <1>2 DEF StoredRows

(* Replacing the rows of one table keeps a database well typed.              *)
LEMMA WithRowsIsDatabase ==
  ASSUME NEW db, IsDatabase(db), NEW t \in DOMAIN db,
         NEW rows \in Seq(StoredRows(db[t].schema))
  PROVE  /\ IsDatabase(WithRows(db, t, rows))
         /\ DOMAIN WithRows(db, t, rows) = DOMAIN db
         /\ \A u \in DOMAIN db : WithRows(db, t, rows)[u].schema = db[u].schema
         /\ \A u \in DOMAIN db \ {t} : WithRows(db, t, rows)[u] = db[u]
         /\ WithRows(db, t, rows)[t].rows = rows
<1> DEFINE new == WithRows(db, t, rows)
<1> DEFINE schema == db[t].schema
<1>1. db[t] = [schema |-> schema, rows |-> db[t].rows]
  BY DEF IsDatabase, IsTable
<1> HIDE DEF schema
<1>2. [db[t] EXCEPT !.rows = rows] = [schema |-> schema, rows |-> rows]
  BY <1>1
<1>3. new = [db EXCEPT ![t] = [db[t] EXCEPT !.rows = rows]]
  BY DEF WithRows
<1>4. new = [db EXCEPT ![t] = [schema |-> db[t].schema, rows |-> rows]]
  BY <1>2, <1>3 DEF schema
<1>5. /\ DOMAIN new = DOMAIN db
      /\ new = [u \in DOMAIN db |-> new[u]]
      /\ \A u \in DOMAIN db \ {t} : new[u] = db[u]
      /\ new[t] = [schema |-> db[t].schema, rows |-> rows]
  BY <1>4
<1>6. IsTable(new[t])
  BY <1>5 DEF IsDatabase, IsTable
<1>7. IsDatabase(new)
  BY <1>5, <1>6 DEF IsDatabase
<1>8. QED
  BY <1>5, <1>7

(* DELETE keeps rows of the table it has.                                    *)
LEMMA RemainingAreStored ==
  ASSUME NEW S, NEW rows \in Seq(S), NEW e \in OrderedSelections(Len(rows))
  PROVE  RemainingRows(rows, e) \in Seq(S)
<1>1. PICK k \in 0..Len(rows) : e \in [1..k -> 1..Len(rows)]
  BY DEF OrderedSelections
<1>2. RemainingRows(rows, e) = [i \in 1..k |-> rows[e[i]]]
  BY <1>1 DEF RemainingRows
<1>3. \A i \in 1..k : rows[e[i]] \in S
  BY <1>1
<1>4. QED
  BY <1>2, <1>3

----------------------------------------------------------------------------
(* Type correctness.  The step is proved for ApiNext, which has every action *)
(* of Next.                                                                  *)

LEMMA CreateTableTypeOK ==
  ASSUME TypeOK, NEW t \in TableNames, NEW columns \in ColumnLists,
         CreateTable(t, columns)
  PROVE  TypeOK'
<1> DEFINE schema == NormalizeColumnDefinitions(columns)
           new == [schema |-> schema, rows |-> <<>>]
<1>1. schema \in Schemas
  BY NormalizedIsSchema
<1> HIDE DEF schema
<1>2. IsTable(new)
  BY <1>1 DEF IsTable
<1>3. tables' = [u \in DOMAIN tables \cup {t} |-> IF u = t THEN new ELSE tables[u]]
  BY DEF CreateTable, schema
<1> HIDE DEF new
<1>4. IsDatabase(tables')
  BY <1>2, <1>3 DEF TypeOK, IsDatabase
<1>5. QED
  BY <1>4 DEF TypeOK, CreateTable, MarkDirty, Active

(* A selection of as many rows as there are keeps them all in place.         *)
LEMMA AllRowsRemain ==
  ASSUME NEW S, NEW rows \in Seq(S), NEW e \in OrderedSelections(Len(rows)),
         DOMAIN e = DOMAIN rows
  PROVE  RemainingRows(rows, e) = rows
<1>1. PICK k \in 0..Len(rows) :
        /\ e \in [1..k -> 1..Len(rows)]
        /\ \A i \in 1..k : i <= e[i] /\ e[i] <= Len(rows) - (k - i)
  BY DEF OrderedSelections
<1>2. 1..k = 1..Len(rows)
  BY <1>1
<1>3. k = Len(rows)
  BY <1>2
<1>4. \A i \in 1..k : e[i] = i
  BY <1>1, <1>3
<1>5. QED
  BY <1>1, <1>3, <1>4 DEF RemainingRows

(* INSERT, UPDATE and DELETE all replace the rows of one table by rows that  *)
(* fit its schema and that validateTableState has accepted.                  *)
ReplacesRows(t) ==
  \E rows \in Seq(StoredRows(tables[t].schema)) :
    /\ tables' = WithRows(tables, t, rows)
    /\ TableStateValid(WithRows(tables, t, rows), t)

LEMMA InsertIntoReplaces ==
  ASSUME TypeOK, NEW t \in DOMAIN tables, NEW input \in InputRows(ColumnNames),
         InsertInto(t, input)
  PROVE  ReplacesRows(t)
<1> DEFINE row == ValidateInputRow(tables[t].schema, input)
           rows == Append(tables[t].rows, row)
<1>1. row \in StoredRows(tables[t].schema)
  BY AcceptedIsStored DEF TypeOK, IsDatabase, IsTable, InsertInto
<1> HIDE DEF row
<1>2. rows \in Seq(StoredRows(tables[t].schema))
  BY <1>1 DEF TypeOK, IsDatabase, IsTable
<1>3. tables' = WithRows(tables, t, rows) /\ TableStateValid(WithRows(tables, t, rows), t)
  BY DEF InsertInto, row
<1>4. QED
  BY <1>2, <1>3 DEF ReplacesRows

LEMMA UpdateRowsReplaces ==
  ASSUME TypeOK, NEW t \in DOMAIN tables,
         NEW affected \in SUBSET DOMAIN tables[t].rows,
         NEW replacement \in [affected -> InputRows(DOMAIN tables[t].schema)],
         UpdateRows(t, replacement)
  PROVE  ReplacesRows(t)
<1> DEFINE schema == tables[t].schema
           rows == [i \in 1..Len(tables[t].rows) |->
                      IF i \in DOMAIN replacement
                      THEN ValidateInputRow(schema, replacement[i])
                      ELSE tables[t].rows[i]]
<1>1. schema \in Schemas /\ tables[t].rows \in Seq(StoredRows(schema))
  BY DEF TypeOK, IsDatabase, IsTable
<1>2. tables' = WithRows(tables, t, rows) /\ TableStateValid(WithRows(tables, t, rows), t)
  BY DEF UpdateRows
<1>3. \A i \in DOMAIN replacement : AcceptsInputRow(schema, replacement[i])
  BY DEF UpdateRows
<1> HIDE DEF schema
<1>4. \A i \in 1..Len(tables[t].rows) : rows[i] \in StoredRows(schema)
  BY <1>1, <1>3, AcceptedIsStored
<1>5. rows \in [1..Len(tables[t].rows) -> StoredRows(schema)]
  BY <1>4
<1> HIDE DEF rows
<1>6. rows \in Seq(StoredRows(schema))
  BY <1>1, <1>5
<1>7. QED
  BY <1>2, <1>6 DEF ReplacesRows, schema

LEMMA DeleteRowsReplaces ==
  ASSUME TypeOK, NEW t \in DOMAIN tables,
         NEW e \in OrderedSelections(Len(tables[t].rows)),
         DeleteRows(t, e)
  PROVE  ReplacesRows(t)
<1>1. RemainingRows(tables[t].rows, e) \in Seq(StoredRows(tables[t].schema))
  BY RemainingAreStored DEF TypeOK, IsDatabase, IsTable
<1>2. QED
  BY <1>1 DEF DeleteRows, ReplacesRows

LEMMA ReplacesIsDatabase ==
  ASSUME TypeOK, NEW t \in DOMAIN tables, ReplacesRows(t)
  PROVE  IsDatabase(tables')
BY WithRowsIsDatabase DEF TypeOK, ReplacesRows

LEMMA DropTableTypeOK ==
  ASSUME TypeOK, NEW t \in DOMAIN tables, DropTable(t)
  PROVE  TypeOK'
<1>1. IsDatabase(tables')
  BY DEF TypeOK, DropTable, IsDatabase
<1>2. QED
  BY <1>1 DEF TypeOK, DropTable, MarkDirty, Active

(* The empty column list of CreateEmpty is a column list.                    *)
LEMMA NoColumns == <<>> \in ColumnLists
<1>1. <<>> \in [{} -> ColumnDefinitions]
  OBVIOUS
<1>2. QED
  BY <1>1 DEF ColumnLists

LEMMA InitTypeOK == Init => TypeOK
BY DEF Init, TypeOK, IsDatabase, NoTables, Active, PersistedFileToSnapshot

LEMMA StepTypeOK == TypeOK /\ [ApiNext]_vars => TypeOK'
<1> SUFFICES ASSUME TypeOK, [ApiNext]_vars PROVE TypeOK'
  OBVIOUS
<1>1. CASE Create
  BY <1>1, CreateTableTypeOK, DatabaseAssumption DEF Create
<1>2. CASE Insert
  <2>1. IsDatabase(tables')
    BY <1>2, InsertIntoReplaces, ReplacesIsDatabase DEF Insert
  <2>2. QED
    BY <1>2, <2>1 DEF Insert, InsertInto, MarkDirty, TypeOK, Active
<1>3. CASE Update
  <2>1. IsDatabase(tables')
    BY <1>3, UpdateRowsReplaces, ReplacesIsDatabase DEF Update
  <2>2. QED
    BY <1>3, <2>1 DEF Update, UpdateRows, MarkDirty, TypeOK, Active
<1>4. CASE Delete
  <2>1. IsDatabase(tables')
    BY <1>4, DeleteRowsReplaces, ReplacesIsDatabase DEF Delete
  <2>2. QED
    BY <1>4, <2>1 DEF Delete, DeleteRows, MarkDirty, TypeOK, Active
<1>5. CASE Begin
  BY <1>5 DEF TypeOK, Begin, Active
<1>6. CASE Commit
  BY <1>6 DEF TypeOK, Commit, Active
<1>7. CASE Rollback
  BY <1>7 DEF TypeOK, Rollback, Active
<1>8. CASE Save
  <2>1. PersistedFileToSnapshot(saved') = Json(tables)
    BY <1>8, CodecRoundTrip DEF TypeOK, Save
  <2>2. IsDatabase(PersistedFileToSnapshot(saved)')
    BY <2>1, JsonIsDatabase DEF TypeOK
  <2>3. QED
    BY <1>8, <2>2 DEF TypeOK, Save, Active
<1>9. CASE Reopen
  BY <1>9 DEF TypeOK, Reopen, Active
<1>10. CASE CreateEmpty
  BY <1>10, CreateTableTypeOK, NoColumns DEF CreateEmpty
<1>11. CASE Drop
  BY <1>11, DropTableTypeOK DEF Drop
<1>12. CASE UNCHANGED vars
  BY <1>12 DEF vars, TypeOK, Active
<1>13. QED
  BY <1>1, <1>2, <1>3, <1>4, <1>5, <1>6, <1>7, <1>8, <1>9, <1>10, <1>11, <1>12
     DEF ApiNext, Next

(* Every stored row fits its schema, in the tables, in the snapshot of a     *)
(* transaction and in the file, whatever the Database class is asked to do.  *)
THEOREM TypeCorrect == ApiSpec => []TypeOK
<1>1. QED
  BY InitTypeOK, StepTypeOK, PTL DEF ApiSpec

----------------------------------------------------------------------------
(* Constraints.  A statement validates one table, and the rows of the others *)
(* only where they refer to it.  That is enough because the tables it does   *)
(* not look at satisfied their constraints before.                           *)

Good(db) == KeysIdentifyRows(db) /\ NoDanglingValues(db)

LEMMA ValidRowsAreKeyed ==
  ASSUME NEW t, IsTable(t), ValidateRows(t.schema, t.rows)
  PROVE  RowsKeyed(t)
<1>1. ASSUME NEW c \in DOMAIN t.schema, t.schema[c].primaryKey
      PROVE  t.schema[c].unique
  BY <1>1 DEF IsTable, Schemas, StoredColumnDefinitions, ColumnDefinitions
<1>2. QED
  BY <1>1 DEF ValidateRows, UniqueColumnValid, UniqueValues, RowsKeyed

(* Validated rows of one table keep the constraints of the whole database.   *)
LEMMA ValidatedRowsKeepGood ==
  ASSUME NEW db, IsDatabase(db), Good(db), NEW t \in DOMAIN db,
         NEW rows \in Seq(StoredRows(db[t].schema)),
         TableStateValid(WithRows(db, t, rows), t)
  PROVE  Good(WithRows(db, t, rows))
<1> DEFINE new == WithRows(db, t, rows)
<1>1. /\ IsDatabase(new)
      /\ DOMAIN new = DOMAIN db
      /\ \A u \in DOMAIN db : new[u].schema = db[u].schema
      /\ \A u \in DOMAIN db \ {t} : new[u] = db[u]
  BY WithRowsIsDatabase
<1>2. TableStateValid(new, t)
  OBVIOUS
<1> HIDE DEF new
<1>3. KeysIdentifyRows(new)
  BY <1>1, <1>2, ValidRowsAreKeyed
     DEF KeysIdentifyRows, Good, TableStateValid, IsDatabase
<1>4. ASSUME NEW u \in DOMAIN new, NEW c \in ForeignKeys(new[u].schema),
             NEW i \in DOMAIN new[u].rows, new[u].rows[i][c] # Null
      PROVE  ValueFound(new, new[u].schema[c].references, new[u].rows[i][c])
  <2> DEFINE ref == new[u].schema[c].references
  <2>1. CASE u = t
    BY <1>2, <1>4, <2>1 DEF TableStateValid, OutgoingForeignKeysValid, RowsMatch,
       HasMatchingValue, ValueFound
  <2>2. CASE u # t /\ ref.table = t
    BY <1>2, <1>4, <2>2 DEF TableStateValid, IncomingReferencesValid, RowsMatch,
       HasMatchingValue, ValueFound
  <2>3. CASE u # t /\ ref.table # t
    <3>1. ValueFound(db, ref, db[u].rows[i][c])
      BY <1>1, <1>4, <2>3 DEF Good, NoDanglingValues
    <3>2. new[u] = db[u] /\ ref.table \in DOMAIN db \ {t}
      BY <1>1, <2>3, <3>1 DEF ValueFound, Resolves
    <3>3. QED
      BY <1>1, <3>1, <3>2 DEF ValueFound, Resolves
  <2>4. QED
    BY <2>1, <2>2, <2>3
<1>5. QED
  BY <1>3, <1>4 DEF new, Good, NoDanglingValues

(* What restoreSnapshot lets through satisfies the constraints.              *)
LEMMA RestorableIsGood ==
  ASSUME NEW db, IsDatabase(db), Restorable(db)
  PROVE  Good(db)
<1>1. KeysIdentifyRows(db)
  BY ValidRowsAreKeyed DEF Restorable, KeysIdentifyRows, IsDatabase
<1>2. NoDanglingValues(db)
  BY DEF Restorable, TableStateValid, OutgoingForeignKeysValid, RowsMatch,
     HasMatchingValue, NoDanglingValues, ValueFound
<1>3. QED
  BY <1>1, <1>2 DEF Good

LEMMA CreateTableKeepsGood ==
  ASSUME TypeOK, Good(tables), NEW t \in TableNames, NEW columns \in ColumnLists,
         CreateTable(t, columns)
  PROVE  Good(tables')
<1>1. /\ t \notin DOMAIN tables
      /\ DOMAIN tables' = DOMAIN tables \cup {t}
      /\ tables'[t].rows = <<>>
      /\ \A u \in DOMAIN tables : tables'[u] = tables[u]
  BY DEF CreateTable
<1>2. KeysIdentifyRows(tables')
  BY <1>1 DEF Good, KeysIdentifyRows, RowsKeyed
<1>3. ASSUME NEW u \in DOMAIN tables', NEW c \in ForeignKeys(tables'[u].schema),
             NEW i \in DOMAIN tables'[u].rows, tables'[u].rows[i][c] # Null
      PROVE  ValueFound(tables', tables'[u].schema[c].references, tables'[u].rows[i][c])
  <2>1. u \in DOMAIN tables /\ tables'[u] = tables[u]
    BY <1>1, <1>3
  <2>2. ValueFound(tables, tables[u].schema[c].references, tables[u].rows[i][c])
    BY <1>3, <2>1 DEF Good, NoDanglingValues
  <2>3. QED
    BY <1>1, <2>1, <2>2 DEF ValueFound, Resolves
<1>4. QED
  BY <1>2, <1>3 DEF Good, NoDanglingValues

(* A drop leaves declarations behind that point nowhere, but no values.      *)
LEMMA DropTableKeepsGood ==
  ASSUME TypeOK, Good(tables), NEW t \in DOMAIN tables, DropTable(t)
  PROVE  Good(tables')
<1> DEFINE emptied == WithRows(tables, t, <<>>)
<1>1. DOMAIN tables' = DOMAIN tables \ {t} /\ \A u \in DOMAIN tables' : tables'[u] = tables[u]
  BY DEF DropTable
<1>2. /\ DOMAIN emptied = DOMAIN tables
      /\ \A u \in DOMAIN tables \ {t} : emptied[u] = tables[u]
      /\ emptied[t].rows = <<>>
  <2>1. <<>> \in Seq(StoredRows(tables[t].schema))
    OBVIOUS
  <2>2. ASSUME NEW rows \in Seq(StoredRows(tables[t].schema))
        PROVE  /\ DOMAIN WithRows(tables, t, rows) = DOMAIN tables
               /\ \A u \in DOMAIN tables \ {t} : WithRows(tables, t, rows)[u] = tables[u]
               /\ WithRows(tables, t, rows)[t].rows = rows
    BY WithRowsIsDatabase DEF TypeOK
  <2>3. QED
    BY <2>1, <2>2
<1>3. IncomingReferencesValid(emptied, t)
  BY DEF DropTable
<1> HIDE DEF emptied
<1>4. KeysIdentifyRows(tables')
  BY <1>1 DEF Good, KeysIdentifyRows
<1>5. ASSUME NEW u \in DOMAIN tables', NEW c \in ForeignKeys(tables'[u].schema),
             NEW i \in DOMAIN tables'[u].rows, tables'[u].rows[i][c] # Null
      PROVE  ValueFound(tables', tables'[u].schema[c].references, tables'[u].rows[i][c])
  <2> DEFINE ref == tables[u].schema[c].references
  <2>1. u \in DOMAIN tables \ {t} /\ tables'[u] = tables[u] /\ emptied[u] = tables[u]
    BY <1>1, <1>2, <1>5
  <2>2. ref.table # t
    <3>1. SUFFICES ASSUME ref.table = t PROVE FALSE
      OBVIOUS
    <3>2. RowsMatch(emptied, u, c)
      BY <1>2, <1>3, <1>5, <2>1, <3>1 DEF IncomingReferencesValid
    <3>3. HasMatchingValue(emptied[t].rows, ref.column, tables[u].rows[i][c])
      BY <1>5, <2>1, <3>1, <3>2 DEF RowsMatch
    <3>4. QED
      BY <1>2, <3>3 DEF HasMatchingValue
  <2>3. ValueFound(tables, ref, tables[u].rows[i][c])
    BY <1>5, <2>1 DEF Good, NoDanglingValues
  <2>4. QED
    BY <1>1, <2>1, <2>2, <2>3 DEF ValueFound, Resolves
<1>6. QED
  BY <1>4, <1>5 DEF Good, NoDanglingValues

LEMMA ReplacesKeepsGood ==
  ASSUME TypeOK, Good(tables), NEW t \in DOMAIN tables, ReplacesRows(t)
  PROVE  Good(tables')
BY ValidatedRowsKeepGood DEF TypeOK, ReplacesRows

LEMMA StepKeepsGood ==
  TypeOK /\ Good(tables) /\ [ApiNext]_vars => Good(tables')
<1> SUFFICES ASSUME TypeOK, Good(tables), [ApiNext]_vars PROVE Good(tables')
  OBVIOUS
<1>1. CASE Create
  BY <1>1, CreateTableKeepsGood, DatabaseAssumption DEF Create
<1>2. CASE Insert
  BY <1>2, InsertIntoReplaces, ReplacesKeepsGood DEF Insert
<1>3. CASE Update
  BY <1>3, UpdateRowsReplaces, ReplacesKeepsGood DEF Update
<1>4. CASE Delete
  BY <1>4, DeleteRowsReplaces, ReplacesKeepsGood DEF Delete
<1>5. CASE Begin \/ Commit \/ Save \/ UNCHANGED vars
  BY <1>5 DEF Begin, Commit, Save, vars
<1>6. CASE Rollback
  BY <1>6, RestorableIsGood DEF TypeOK, Rollback
<1>7. CASE Reopen
  BY <1>7, RestorableIsGood DEF TypeOK, Reopen
<1>8. CASE CreateEmpty
  BY <1>8, CreateTableKeepsGood, NoColumns DEF CreateEmpty
<1>9. CASE Drop
  BY <1>9, DropTableKeepsGood DEF Drop
<1>10. QED
  BY <1>1, <1>2, <1>3, <1>4, <1>5, <1>6, <1>7, <1>8, <1>9 DEF ApiNext, Next

(* Keys identify rows and no foreign key value dangles, in every state the   *)
(* Database class can reach, drops included.                                 *)
THEOREM ConstraintsAlwaysHold == ApiSpec => []ConstraintsHold
<1>1. Init => Good(tables)
  BY DEF Init, Good, NoTables, KeysIdentifyRows, NoDanglingValues
<1>2. Good(tables) <=> ConstraintsHold
  BY DEF Good, ConstraintsHold
<1>3. TypeOK /\ ConstraintsHold /\ [ApiNext]_vars => ConstraintsHold'
  BY StepKeepsGood DEF Good, ConstraintsHold
<1>4. QED
  BY <1>1, <1>2, <1>3, TypeCorrect, PTL DEF ApiSpec

----------------------------------------------------------------------------
(* Rollback, save and reopen.  A database is sound when its constraints hold *)
(* and its declarations resolve; a sound database can be restored from a     *)
(* snapshot and written to a file.  Statements keep it sound; a drop does    *)
(* not, which is why the last two theorems are about Spec.                   *)

OnePrimaryKey(db) == \A t \in DOMAIN db : SchemaConstraintsValid(db[t].schema)

Sound(db) == Good(db) /\ DeclarationsResolve(db) /\ OnePrimaryKey(db)

LEMMA KeyedRowsAreValid ==
  ASSUME NEW t, IsTable(t), RowsKeyed(t)
  PROVE  ValidateRows(t.schema, t.rows)
<1>1. ASSUME NEW c \in DOMAIN t.schema, t.schema[c].primaryKey
      PROVE  t.schema[c].unique
  BY <1>1 DEF IsTable, Schemas, StoredColumnDefinitions, ColumnDefinitions
<1>2. QED
  BY <1>1 DEF ValidateRows, UniqueColumnValid, UniqueValues, RowsKeyed

(* In a good database every foreign key finds its values.                    *)
LEMMA GoodRowsMatch ==
  ASSUME NEW db, NoDanglingValues(db),
         NEW t \in DOMAIN db, NEW c \in ForeignKeys(db[t].schema)
  PROVE  RowsMatch(db, t, c)
BY DEF NoDanglingValues, ValueFound, RowsMatch, HasMatchingValue

LEMMA SoundIsRestorable ==
  ASSUME NEW db, IsDatabase(db), Sound(db)
  PROVE  Restorable(db)
<1> SUFFICES ASSUME NEW t \in DOMAIN db
             PROVE  /\ SchemaConstraintsValid(db[t].schema)
                    /\ ValidateRows(db[t].schema, db[t].rows)
                    /\ ValidateCreateTableConstraints(db, t)
                    /\ TableStateValid(db, t)
  BY DEF Restorable
<1>1. SchemaConstraintsValid(db[t].schema)
  BY DEF Sound, OnePrimaryKey
<1>2. ValidateRows(db[t].schema, db[t].rows)
  BY KeyedRowsAreValid DEF Sound, Good, KeysIdentifyRows, IsDatabase
<1>3. \A u \in DOMAIN db : \A c \in ForeignKeys(db[u].schema) :
        Resolves(db, db[u].schema[c].references) /\ RowsMatch(db, u, c)
  BY GoodRowsMatch DEF Sound, Good, DeclarationsResolve, Declared
<1>4. ValidateCreateTableConstraints(db, t)
  BY DEF Sound, DeclarationsResolve, Declared, ValidateCreateTableConstraints,
     ForeignKeyDeclarationValid
<1>5. OutgoingForeignKeysValid(db, t) /\ IncomingReferencesValid(db, t)
  BY <1>3 DEF OutgoingForeignKeysValid, IncomingReferencesValid, Resolves
<1>6. QED
  BY <1>1, <1>2, <1>4, <1>5 DEF TableStateValid

(* A primary key that a declaration points to is unique like any other.      *)
LEMMA ValidDeclarationIsDeclared ==
  ASSUME NEW db, IsDatabase(db), NEW t, NEW c,
         ForeignKeyDeclarationValid(db, t, c)
  PROVE  Declared(db, t, c)
<1> DEFINE ref == db[t].schema[c].references
           schema == db[ref.table].schema
<1>1. ref.table \in DOMAIN db /\ ref.column \in DOMAIN schema
  BY DEF ForeignKeyDeclarationValid, Resolves
<1>2. schema[ref.column].primaryKey \/ schema[ref.column].unique
  BY DEF ForeignKeyDeclarationValid
<1>3. schema \in Schemas
  BY <1>1 DEF IsDatabase, IsTable
<1> HIDE DEF schema, ref
<1>4. schema[ref.column] \in StoredColumnDefinitions
  BY <1>1, <1>3 DEF Schemas
<1>5. schema[ref.column].unique
  BY <1>2, <1>4 DEF StoredColumnDefinitions, ColumnDefinitions
<1>6. QED
  BY <1>5 DEF schema, ref, ForeignKeyDeclarationValid, Declared

(* A declaration stays good while no table goes and no schema changes.       *)
LEMMA DeclaredPersists ==
  ASSUME NEW db, NEW new, NEW t \in DOMAIN db, NEW c, Declared(db, t, c),
         \A u \in DOMAIN db : u \in DOMAIN new /\ new[u].schema = db[u].schema
  PROVE  Declared(new, t, c)
<1>1. new[t].schema = db[t].schema
  OBVIOUS
<1> DEFINE ref == db[t].schema[c].references
<1>2. ref.table \in DOMAIN db /\ new[ref.table].schema = db[ref.table].schema
  BY DEF Declared, Resolves
<1>3. QED
  BY <1>1, <1>2 DEF Declared, Resolves

LEMMA RestorableIsSound ==
  ASSUME NEW db, IsDatabase(db), Restorable(db)
  PROVE  Sound(db)
<1>1. DeclarationsResolve(db)
  BY ValidDeclarationIsDeclared
     DEF Restorable, ValidateCreateTableConstraints, DeclarationsResolve
<1>2. QED
  BY <1>1, RestorableIsGood DEF Restorable, Sound, OnePrimaryKey

HasColumns(db) == \A t \in DOMAIN db : DOMAIN db[t].schema # {}

(* The validation of the file is as strong as the checks on the tables ...   *)
LEMMA EncodableIsSound ==
  ASSUME NEW db, IsDatabase(db), OnePrimaryKey(db), Encodable(db)
  PROVE  Sound(db) /\ HasColumns(db)
<1> DEFINE file == SnapshotToPersistedFile(db)
<1>f. file = SnapshotToPersistedFile(db)
  OBVIOUS
<1>1. TablesValid(file) /\ ForeignKeySchemasValid(file) /\ PersistedRowsValid(file)
  BY DEF Encodable, ValidatePersistedFile
<1>2. DOMAIN file = DOMAIN db
  BY DEF SnapshotToPersistedFile
<1> HIDE DEF file
<1>3. ASSUME NEW t \in DOMAIN db
      PROVE  RowsKeyed(db[t])
  <2>1. /\ \A c \in file[t].primaryKey : UniqueRowsValid(file[t], c, TRUE)
        /\ \A c \in file[t].uniqueConstraints : UniqueRowsValid(file[t], c, FALSE)
    BY <1>1, <1>2 DEF PersistedRowsValid
  <2>2. ASSUME NEW c \in DOMAIN db[t].schema, db[t].schema[c].primaryKey
        PROVE  \A i \in DOMAIN db[t].rows : db[t].rows[i][c] # Null
    <3>1. c \in file[t].primaryKey /\ file[t].rows = db[t].rows
      BY <1>f, <2>2, PersistedFields
    <3>2. QED
      BY <2>1, <3>1 DEF UniqueRowsValid
  <2>3. ASSUME NEW c \in DOMAIN db[t].schema, db[t].schema[c].unique
        PROVE  UniqueValues(db[t].rows, c)
    <3>1. c \in file[t].uniqueConstraints /\ file[t].rows = db[t].rows
      BY <1>f, <2>3, PersistedFields
    <3>2. QED
      BY <2>1, <3>1 DEF UniqueRowsValid, UniqueValues
  <2>4. QED
    BY <2>2, <2>3 DEF RowsKeyed, UniqueValues
<1>4. ASSUME NEW t \in DOMAIN db, NEW c \in ForeignKeys(db[t].schema)
      PROVE  /\ Declared(db, t, c)
             /\ \A i \in DOMAIN db[t].rows :
                  db[t].rows[i][c] # Null =>
                    ValueFound(db, db[t].schema[c].references, db[t].rows[i][c])
  <2> DEFINE ref == db[t].schema[c].references
  <2>1. /\ c \in DOMAIN file[t].foreignKeys
        /\ file[t].foreignKeys[c] = ref
        /\ file[t].rows = db[t].rows
        /\ file[t].columns[c].type = db[t].schema[c].type
    BY <1>f, PersistedFields DEF ForeignKeys
  <2>2. /\ ref.table \in DOMAIN db
        /\ ref.column \in DOMAIN file[ref.table].columns
        /\ ref.column \in file[ref.table].primaryKey
                           \cup file[ref.table].uniqueConstraints
        /\ file[t].columns[c].type = file[ref.table].columns[ref.column].type
    <3>1. t \in DOMAIN file /\ c \in DOMAIN file[t].foreignKeys
      BY <1>2, <2>1
    <3>2. LET r == file[t].foreignKeys[c]
          IN  /\ r.table \in DOMAIN file
              /\ r.column \in DOMAIN file[r.table].columns
              /\ r.column \in file[r.table].primaryKey \cup file[r.table].uniqueConstraints
              /\ file[t].columns[c].type = file[r.table].columns[r.column].type
      BY <1>1, <3>1 DEF ForeignKeySchemasValid
    <3>3. file[t].foreignKeys[c] = ref
      BY <2>1
    <3> HIDE DEF ref
    <3>4. QED
      BY <1>2, <3>2, <3>3
  <2>3. /\ ref.column \in DOMAIN db[ref.table].schema
        /\ \/ db[ref.table].schema[ref.column].primaryKey
           \/ db[ref.table].schema[ref.column].unique
        /\ db[ref.table].schema[ref.column].type = db[t].schema[c].type
        /\ file[ref.table].rows = db[ref.table].rows
    <3> DEFINE u == ref.table
               d == ref.column
    <3> HIDE DEF ref
    <3>1. u \in DOMAIN db
      BY <2>2
    <3> HIDE DEF u, d
    <3>2. /\ DOMAIN file[u].columns = DOMAIN db[u].schema
          /\ \A e \in DOMAIN db[u].schema :
               file[u].columns[e].type = db[u].schema[e].type
          /\ file[u].primaryKey = {e \in DOMAIN db[u].schema : db[u].schema[e].primaryKey}
          /\ file[u].uniqueConstraints = {e \in DOMAIN db[u].schema : db[u].schema[e].unique}
          /\ file[u].rows = db[u].rows
      BY <1>f, <3>1, PersistedFields
    <3>3. /\ d \in DOMAIN file[u].columns
          /\ d \in file[u].primaryKey \cup file[u].uniqueConstraints
          /\ file[t].columns[c].type = file[u].columns[d].type
      BY <2>2 DEF u, d
    <3>4. /\ d \in DOMAIN db[u].schema
          /\ db[u].schema[d].primaryKey \/ db[u].schema[d].unique
          /\ db[u].schema[d].type = db[t].schema[c].type
      BY <2>1, <3>2, <3>3
    <3>5. QED
      BY <3>2, <3>4 DEF u, d
  <2>4. Declared(db, t, c)
    BY <2>2, <2>3, ValidDeclarationIsDeclared DEF ForeignKeyDeclarationValid, Resolves
  <2>5. \A i \in DOMAIN db[t].rows :
          db[t].rows[i][c] = Null \/ HasMatchingValue(db[ref.table].rows, ref.column,
                                                       db[t].rows[i][c])
    BY <1>1, <1>2, <2>1, <2>3 DEF PersistedRowsValid
  <2>6. QED
    BY <2>2, <2>3, <2>4, <2>5 DEF ValueFound, Resolves, HasMatchingValue
<1>5. HasColumns(db)
  BY <1>f, <1>1, <1>2, PersistedFields DEF TablesValid, PersistedTableValid, HasColumns
<1>6. KeysIdentifyRows(db) /\ DeclarationsResolve(db) /\ NoDanglingValues(db)
  BY <1>3, <1>4 DEF KeysIdentifyRows, DeclarationsResolve, NoDanglingValues
<1>7. QED
  BY <1>5, <1>6 DEF Sound, Good

(* ... and no stronger, for tables that have columns.                        *)
LEMMA SoundIsEncodable ==
  ASSUME NEW db, IsDatabase(db), Sound(db), HasColumns(db)
  PROVE  Encodable(db)
<1> DEFINE file == SnapshotToPersistedFile(db)
<1>f. file = SnapshotToPersistedFile(db)
  OBVIOUS
<1>1. DOMAIN file = DOMAIN db
  BY DEF SnapshotToPersistedFile
<1> HIDE DEF file
<1>2. ASSUME NEW t \in DOMAIN db
      PROVE  PersistedTableValid(file[t])
  <2>1. db[t].schema \in Schemas /\ db[t].rows \in Seq(StoredRows(db[t].schema))
    BY DEF IsDatabase, IsTable
  <2>2. ASSUME NEW i \in DOMAIN db[t].rows
        PROVE  PersistedRowValid(file[t], db[t].rows[i])
    <3>1. db[t].rows[i] \in StoredRows(db[t].schema)
      BY <2>1
    <3>2. DOMAIN db[t].rows[i] = DOMAIN db[t].schema
      BY <3>1 DEF StoredRows
    <3>3. \A c \in DOMAIN db[t].schema : ValidValue(db[t].schema[c], db[t].rows[i][c])
      BY <3>1 DEF StoredRows
    <3>4. \A c \in DOMAIN db[t].schema :
            PersistedValueValid(file[t].columns[c], db[t].rows[i][c])
      <4>1. \A c \in DOMAIN db[t].schema :
              /\ file[t].columns[c].type = db[t].schema[c].type
              /\ file[t].columns[c].nullable = db[t].schema[c].nullable
        BY <1>f, PersistedFields
      <4>2. QED
        BY <3>3, <4>1 DEF ValidValue, PersistedValueValid
    <3>5. QED
      BY <3>2, <3>4, <1>f, PersistedFields DEF PersistedRowValid
  <2>3. DOMAIN db[t].schema # {}
    BY DEF HasColumns
  <2>4. DOMAIN file[t].foreignKeys \subseteq DOMAIN file[t].columns
    BY <1>f, PersistedFields DEF ForeignKeys
  <2>5. file[t].primaryKey \cup file[t].uniqueConstraints \subseteq DOMAIN file[t].columns
    BY <1>f, PersistedFields
  <2>6. QED
    BY <2>2, <2>3, <2>4, <2>5, <1>f, PersistedFields DEF PersistedTableValid
<1>3. ASSUME NEW t \in DOMAIN db, NEW c \in DOMAIN db[t].schema
      PROVE  /\ db[t].schema[c].primaryKey => UniqueRowsValid(file[t], c, TRUE)
             /\ db[t].schema[c].unique => UniqueRowsValid(file[t], c, FALSE)
  <2>1. ValidateRows(db[t].schema, db[t].rows)
    BY KeyedRowsAreValid DEF Sound, Good, KeysIdentifyRows, IsDatabase
  <2>2. file[t].rows = db[t].rows
    BY <1>f, PersistedFields
  <2>3. QED
    BY <2>1, <2>2 DEF ValidateRows, UniqueColumnValid, UniqueRowsValid, UniqueValues
<1>4. ASSUME NEW t \in DOMAIN db, NEW c \in ForeignKeys(db[t].schema)
      PROVE  LET ref == file[t].foreignKeys[c]
             IN  /\ ref.table \in DOMAIN file
                 /\ ref.column \in DOMAIN file[ref.table].columns
                 /\ ref.column \in file[ref.table].primaryKey
                                    \cup file[ref.table].uniqueConstraints
                 /\ file[t].columns[c].type = file[ref.table].columns[ref.column].type
                 /\ \A i \in DOMAIN file[t].rows :
                      \/ file[t].rows[i][c] = Null
                      \/ HasMatchingValue(file[ref.table].rows, ref.column,
                                          file[t].rows[i][c])
  <2> DEFINE ref == db[t].schema[c].references
  <2>1. /\ file[t].foreignKeys[c] = ref
        /\ file[t].rows = db[t].rows
        /\ file[t].columns[c].type = db[t].schema[c].type
    BY <1>f, PersistedFields DEF ForeignKeys
  <2>2. Declared(db, t, c) /\ RowsMatch(db, t, c)
    BY GoodRowsMatch DEF Sound, Good, DeclarationsResolve
  <2>3. ref.table \in DOMAIN db /\ ref.column \in DOMAIN db[ref.table].schema
    BY <2>2 DEF Declared, Resolves
  <2>4. /\ ref.column \in DOMAIN file[ref.table].columns
        /\ ref.column \in file[ref.table].uniqueConstraints
        /\ file[ref.table].columns[ref.column].type = db[t].schema[c].type
        /\ file[ref.table].rows = db[ref.table].rows
    <3>1. /\ db[ref.table].schema[ref.column].unique
          /\ db[ref.table].schema[ref.column].type = db[t].schema[c].type
      BY <2>2 DEF Declared
    <3> DEFINE u == ref.table
               d == ref.column
    <3> HIDE DEF ref
    <3>2. /\ u \in DOMAIN db
          /\ d \in DOMAIN db[u].schema
          /\ db[u].schema[d].unique
          /\ db[u].schema[d].type = db[t].schema[c].type
      BY <2>3, <3>1
    <3> HIDE DEF u, d
    <3>3. /\ DOMAIN file[u].columns = DOMAIN db[u].schema
          /\ \A e \in DOMAIN db[u].schema :
               file[u].columns[e].type = db[u].schema[e].type
          /\ file[u].uniqueConstraints = {e \in DOMAIN db[u].schema : db[u].schema[e].unique}
          /\ file[u].rows = db[u].rows
      BY <1>f, <3>2, PersistedFields
    <3>4. /\ d \in DOMAIN file[u].columns
          /\ d \in file[u].uniqueConstraints
          /\ file[u].columns[d].type = db[t].schema[c].type
      BY <3>2, <3>3
    <3>5. QED
      BY <3>3, <3>4 DEF u, d
  <2>5. QED
    BY <1>1, <2>1, <2>2, <2>3, <2>4 DEF RowsMatch
<1>5. TablesValid(file)
  BY <1>1, <1>2 DEF TablesValid
<1>6. ASSUME NEW t \in DOMAIN file
      PROVE  /\ DOMAIN file[t].foreignKeys = ForeignKeys(db[t].schema)
             /\ file[t].primaryKey
                  = {c \in DOMAIN db[t].schema : db[t].schema[c].primaryKey}
             /\ file[t].uniqueConstraints
                  = {c \in DOMAIN db[t].schema : db[t].schema[c].unique}
  BY <1>1, <1>f, PersistedFields
<1>7. ForeignKeySchemasValid(file)
  BY <1>1, <1>4, <1>6 DEF ForeignKeySchemasValid
<1>8. PersistedRowsValid(file)
  BY <1>1, <1>3, <1>4, <1>6 DEF PersistedRowsValid
<1>9. QED
  BY <1>f, <1>5, <1>7, <1>8 DEF Encodable, ValidatePersistedFile

(* JSON takes no constraint away: equal keys were equal before, and a value  *)
(* and the one it refers to change alike.                                    *)
LEMMA JsonKeepsSound ==
  ASSUME NEW db, IsDatabase(db), Sound(db)
  PROVE  Sound(Json(db))
<1> DEFINE new == Json(db)
<1>1. ASSUME NEW t \in DOMAIN db
      PROVE  /\ t \in DOMAIN new
             /\ new[t].schema = db[t].schema
             /\ DOMAIN new[t].rows = DOMAIN db[t].rows
             /\ \A i \in DOMAIN db[t].rows :
                  /\ new[t].rows[i] = JsonRow(db[t].rows[i])
                  /\ \A c \in DOMAIN db[t].schema :
                       /\ (new[t].rows[i][c] = Null) <=> (db[t].rows[i][c] = Null)
                       /\ db[t].rows[i][c] # Null =>
                            /\ new[t].rows[i][c] = JsonOf[db[t].rows[i][c]]
                            /\ db[t].rows[i][c] \in Values
  <2>1. db[t].schema \in Schemas /\ db[t].rows \in Seq(StoredRows(db[t].schema))
    BY DEF IsDatabase, IsTable
  <2>2. new[t] = [schema |-> db[t].schema, rows |-> JsonRows(db[t].rows)]
        /\ DOMAIN new = DOMAIN db
    BY JsonTableFields
  <2>3. /\ DOMAIN JsonRows(db[t].rows) = DOMAIN db[t].rows
        /\ \A i \in DOMAIN db[t].rows : JsonRows(db[t].rows)[i] = JsonRow(db[t].rows[i])
    BY <2>1, JsonRowsAreStored
  <2>4. ASSUME NEW i \in DOMAIN db[t].rows, NEW c \in DOMAIN db[t].schema
        PROVE  /\ (JsonRow(db[t].rows[i])[c] = Null) <=> (db[t].rows[i][c] = Null)
               /\ db[t].rows[i][c] # Null =>
                    /\ JsonRow(db[t].rows[i])[c] = JsonOf[db[t].rows[i][c]]
                    /\ db[t].rows[i][c] \in Values
    <3>1. db[t].rows[i] \in StoredRows(db[t].schema)
      BY <2>1
    <3>2. db[t].rows[i] \in [DOMAIN db[t].schema -> Values \cup {Null}]
      BY <3>1 DEF StoredRows
    <3>3. (JsonRow(db[t].rows[i])[c] = Null) <=> (db[t].rows[i][c] = Null)
      BY <2>1, <3>1, JsonRowIsStored
    <3>4. QED
      BY <3>2, <3>3 DEF JsonRow
  <2>5. new[t].schema = db[t].schema /\ new[t].rows = JsonRows(db[t].rows)
    BY <2>2
  <2>6. QED
    BY <2>2, <2>3, <2>4, <2>5
<1>2. DOMAIN new = DOMAIN db
  BY DEF Json
<1> HIDE DEF new
<1>3. ASSUME NEW t \in DOMAIN db
      PROVE  RowsKeyed(new[t])
  <2>1. RowsKeyed(db[t])
    BY DEF Sound, Good, KeysIdentifyRows
  <2>2. QED
    BY <1>1, <2>1, TableAssumption DEF RowsKeyed
<1>4. ASSUME NEW t \in DOMAIN db, NEW c \in ForeignKeys(db[t].schema)
      PROVE  /\ Declared(new, t, c)
             /\ \A i \in DOMAIN new[t].rows :
                  new[t].rows[i][c] # Null =>
                    ValueFound(new, db[t].schema[c].references, new[t].rows[i][c])
  <2> DEFINE ref == db[t].schema[c].references
  <2>1. Declared(db, t, c)
    BY DEF Sound, DeclarationsResolve
  <2>2. Declared(new, t, c)
    BY <1>1, <2>1, DeclaredPersists
  <2>3. ASSUME NEW i \in DOMAIN new[t].rows, new[t].rows[i][c] # Null
        PROVE  ValueFound(new, ref, new[t].rows[i][c])
    <3>1. c \in DOMAIN db[t].schema /\ i \in DOMAIN db[t].rows
      BY <1>1 DEF ForeignKeys
    <3>2. /\ db[t].rows[i][c] # Null
          /\ new[t].rows[i][c] = JsonOf[db[t].rows[i][c]]
      BY <1>1, <2>3, <3>1
    <3>3. ValueFound(db, ref, db[t].rows[i][c])
      BY <3>1, <3>2 DEF Sound, Good, NoDanglingValues
    <3>4. /\ ref.table \in DOMAIN db /\ ref.column \in DOMAIN db[ref.table].schema
          /\ \E j \in DOMAIN db[ref.table].rows :
               db[ref.table].rows[j][ref.column] = db[t].rows[i][c]
      BY <3>3 DEF ValueFound, Resolves
    <3>5. PICK j \in DOMAIN db[ref.table].rows :
            db[ref.table].rows[j][ref.column] = db[t].rows[i][c]
      BY <3>4
    <3>6. /\ j \in DOMAIN new[ref.table].rows
          /\ new[ref.table].rows[j][ref.column] = JsonOf[db[t].rows[i][c]]
      BY <1>1, <3>2, <3>4, <3>5
    <3>7. QED
      BY <1>1, <1>2, <3>2, <3>4, <3>6 DEF ValueFound, Resolves
  <2>4. QED
    BY <2>2, <2>3
<1>5. KeysIdentifyRows(new)
  BY <1>2, <1>3 DEF KeysIdentifyRows
<1>6. DeclarationsResolve(new) /\ NoDanglingValues(new)
  BY <1>1, <1>2, <1>4 DEF DeclarationsResolve, NoDanglingValues
<1>7. OnePrimaryKey(new)
  BY <1>1, <1>2 DEF Sound, OnePrimaryKey
<1>8. QED
  BY <1>5, <1>6, <1>7 DEF new, Sound, Good

(* The file that a save writes: what is read of it is sound, has columns and *)
(* is unchanged by JSON, and the file is what encode makes of it.            *)
Read == PersistedFileToSnapshot(saved)

FileInv ==
  /\ Sound(Read)
  /\ HasColumns(Read)
  /\ Json(Read) = Read
  /\ saved = SnapshotToPersistedFile(Read)

LEMMA SavedIsSound ==
  ASSUME TypeOK, OnePrimaryKey(tables), Save
  PROVE  FileInv'
<1>1. IsDatabase(tables) /\ Encodable(tables)
  BY DEF TypeOK, Save
<1>2. saved' = Json(SnapshotToPersistedFile(tables))
  BY DEF Save
<1>3. Sound(tables) /\ HasColumns(tables)
  BY <1>1, EncodableIsSound
<1>4. Sound(Json(tables))
  BY <1>1, <1>3, JsonKeepsSound
<1>5. HasColumns(Json(tables))
  <2>1. \A t \in DOMAIN tables :
          Json(tables)[t] = [schema |-> tables[t].schema, rows |-> JsonRows(tables[t].rows)]
    BY <1>1, JsonTableFields
  <2>2. DOMAIN Json(tables) = DOMAIN tables
    BY DEF Json
  <2>3. QED
    BY <1>3, <2>1, <2>2 DEF HasColumns
<1>6. Read' = Json(tables)
  BY <1>1, <1>2, CodecRoundTrip DEF Read
<1>7. saved' = SnapshotToPersistedFile(Json(tables))
  BY <1>1, <1>2, PersistedJson
<1>8. Json(Json(tables)) = Json(tables)
  BY <1>1, JsonIsDatabase
<1>9. QED
  BY <1>4, <1>5, <1>6, <1>7, <1>8 DEF FileInv

LEMMA FileIsReopened ==
  ASSUME TypeOK, FileInv
  PROVE  ReopenPossible
<1>1. IsDatabase(Read)
  BY DEF TypeOK, Read
<1>2. Encodable(Read)
  BY <1>1, SoundIsEncodable DEF FileInv
<1>3. ValidatePersistedFile(saved)
  BY <1>2 DEF Encodable, FileInv
<1>4. Restorable(Read)
  BY <1>1, SoundIsRestorable DEF FileInv
<1>5. QED
  BY <1>3, <1>4 DEF ReopenPossible, Read

LEMMA FileUnchanged ==
  ASSUME FileInv, UNCHANGED saved
  PROVE  FileInv'
BY DEF FileInv, Read

(* Replacing rows changes no declaration, and CREATE TABLE checks those of   *)
(* the table it adds.                                                        *)
LEMMA ReplacesKeepsSound ==
  ASSUME TypeOK, Sound(tables), NEW t \in DOMAIN tables, ReplacesRows(t)
  PROVE  Sound(tables')
<1>1. /\ DOMAIN tables' = DOMAIN tables
      /\ \A u \in DOMAIN tables : tables'[u].schema = tables[u].schema
  BY WithRowsIsDatabase DEF TypeOK, ReplacesRows
<1>2. ASSUME NEW u \in DOMAIN tables, NEW c \in ForeignKeys(tables[u].schema)
      PROVE  Declared(tables', u, c)
  BY <1>1, DeclaredPersists DEF Sound, DeclarationsResolve
<1>3. DeclarationsResolve(tables')
  BY <1>1, <1>2 DEF DeclarationsResolve
<1>4. OnePrimaryKey(tables')
  BY <1>1 DEF Sound, OnePrimaryKey
<1>5. QED
  BY <1>3, <1>4, ReplacesKeepsGood DEF Sound

LEMMA CreateTableKeepsSound ==
  ASSUME TypeOK, Sound(tables), NEW t \in TableNames, NEW columns \in ColumnLists,
         CreateTable(t, columns)
  PROVE  Sound(tables')
<1>1. /\ DOMAIN tables' = DOMAIN tables \cup {t}
      /\ t \notin DOMAIN tables
      /\ \A u \in DOMAIN tables : tables'[u] = tables[u]
      /\ SchemaConstraintsValid(tables'[t].schema)
      /\ ValidateCreateTableConstraints(tables', t)
  BY DEF CreateTable
<1>2. IsDatabase(tables')
  BY CreateTableTypeOK DEF TypeOK
<1>3. ASSUME NEW c \in ForeignKeys(tables'[t].schema)
      PROVE  Declared(tables', t, c)
  BY <1>1, <1>2, ValidDeclarationIsDeclared DEF ValidateCreateTableConstraints
<1>4. ASSUME NEW u \in DOMAIN tables, NEW c \in ForeignKeys(tables'[u].schema)
      PROVE  Declared(tables', u, c)
  <2>1. Declared(tables, u, c)
    BY <1>1 DEF Sound, DeclarationsResolve
  <2>2. QED
    BY <1>1, <2>1, DeclaredPersists
<1>5. DeclarationsResolve(tables')
  BY <1>1, <1>3, <1>4 DEF DeclarationsResolve
<1>6. OnePrimaryKey(tables')
  BY <1>1 DEF Sound, OnePrimaryKey
<1>7. QED
  BY <1>5, <1>6, CreateTableKeepsGood DEF Sound

(* The inductive invariant of the SQL engine: whatever the tables, the       *)
(* transaction snapshot and the file hold is sound and has columns.          *)
SqlInv ==
  /\ TypeOK
  /\ Sound(tables) /\ HasColumns(tables)
  /\ Active => Sound(snapshot) /\ HasColumns(snapshot)
  /\ FileInv

LEMMA ReplacesKeepsColumns ==
  ASSUME TypeOK, HasColumns(tables), NEW t \in DOMAIN tables, ReplacesRows(t)
  PROVE  HasColumns(tables')
BY WithRowsIsDatabase DEF TypeOK, ReplacesRows, HasColumns

LEMMA StepSqlInv == SqlInv /\ [Next]_vars => SqlInv'
<1> SUFFICES ASSUME SqlInv, [Next]_vars PROVE SqlInv'
  OBVIOUS
<1>1. TypeOK /\ TypeOK'
  BY StepTypeOK DEF SqlInv, ApiNext
<1>2. CASE Create
  <2>1. PICK t \in TableNames, columns \in CreateRequests : CreateTable(t, columns)
    BY <1>2 DEF Create
  <2>2. columns \in ColumnLists /\ DOMAIN columns # {}
    BY DatabaseAssumption
  <2>3. Sound(tables')
    BY <1>1, <2>1, <2>2, CreateTableKeepsSound DEF SqlInv
  <2>4. HasColumns(tables')
    BY <2>1, <2>2 DEF SqlInv, HasColumns, CreateTable, NormalizeColumnDefinitions
  <2>5. QED
    BY <1>1, <2>1, <2>3, <2>4, FileUnchanged DEF SqlInv, CreateTable, Active
<1>3. CASE Insert
  <2>1. PICK t \in DOMAIN tables, input \in InputRows(ColumnNames) : InsertInto(t, input)
    BY <1>3 DEF Insert
  <2>2. ReplacesRows(t)
    BY <1>1, <2>1, InsertIntoReplaces
  <2>3. QED
    BY <1>1, <2>1, <2>2, ReplacesKeepsSound, ReplacesKeepsColumns, FileUnchanged
       DEF SqlInv, InsertInto, Active
<1>4. CASE Update
  <2>1. PICK t \in DOMAIN tables : \E affected \in SUBSET DOMAIN tables[t].rows :
          \E replacement \in [affected -> InputRows(DOMAIN tables[t].schema)] :
            UpdateRows(t, replacement)
    BY <1>4 DEF Update
  <2>2. ReplacesRows(t)
    BY <1>1, <2>1, UpdateRowsReplaces
  <2>3. QED
    BY <1>1, <2>1, <2>2, ReplacesKeepsSound, ReplacesKeepsColumns, FileUnchanged
       DEF SqlInv, UpdateRows, Active
<1>5. CASE Delete
  <2>1. PICK t \in DOMAIN tables : \E e \in OrderedSelections(Len(tables[t].rows)) :
          DeleteRows(t, e)
    BY <1>5 DEF Delete
  <2>2. ReplacesRows(t)
    BY <1>1, <2>1, DeleteRowsReplaces
  <2>3. QED
    BY <1>1, <2>1, <2>2, ReplacesKeepsSound, ReplacesKeepsColumns, FileUnchanged
       DEF SqlInv, DeleteRows, Active
<1>6. CASE Begin
  BY <1>1, <1>6, FileUnchanged DEF SqlInv, Begin, Active
<1>7. CASE Commit
  BY <1>1, <1>7, FileUnchanged DEF SqlInv, Commit, Active
<1>8. CASE Rollback
  BY <1>1, <1>8, FileUnchanged DEF SqlInv, Rollback, Active
<1>9. CASE Save
  BY <1>1, <1>9, SavedIsSound DEF SqlInv, Save, Active, Sound
<1>10. CASE Reopen
  BY <1>1, <1>10, FileUnchanged DEF SqlInv, Reopen, Active, FileInv, Read
<1>11. CASE UNCHANGED vars
  BY <1>1, <1>11, FileUnchanged DEF SqlInv, vars, Active
<1>12. QED
  BY <1>2, <1>3, <1>4, <1>5, <1>6, <1>7, <1>8, <1>9, <1>10, <1>11 DEF Next

LEMMA EmptyIsSound == Sound(NoTables) /\ HasColumns(NoTables)
BY DEF NoTables, Sound, Good, KeysIdentifyRows, NoDanglingValues,
   DeclarationsResolve, OnePrimaryKey, HasColumns

LEMMA EmptyJson == Json(NoTables) = NoTables /\ PersistedFileToSnapshot(NoTables) = NoTables
BY DEF Json, NoTables, PersistedFileToSnapshot

LEMMA EmptyFile == Init => FileInv
<1>1. SnapshotToPersistedFile(NoTables) = NoTables
  BY DEF SnapshotToPersistedFile, NoTables
<1>2. QED
  BY <1>1, EmptyJson, EmptyIsSound DEF Init, FileInv, Read

LEMMA SqlInvariance == Spec => []SqlInv
<1>1. Init => SqlInv
  BY InitTypeOK, EmptyIsSound, EmptyFile DEF Init, SqlInv, Active
<1>2. QED
  BY <1>1, StepSqlInv, PTL DEF Spec

(* A transaction that SQL statements run in can always be rolled back.       *)
THEOREM RollbackAlwaysPossible == Spec => []RollbackPossible
<1>1. SqlInv => RollbackPossible
  BY SoundIsRestorable DEF SqlInv, RollbackPossible, TypeOK
<1>2. QED
  BY <1>1, SqlInvariance, PTL

(* The codec never refuses what SQL statements have built.                   *)
THEOREM AlwaysSaveable == Spec => []StateSaveable
<1>1. SqlInv => StateSaveable
  BY SoundIsEncodable DEF SqlInv, StateSaveable, TypeOK
<1>2. QED
  BY <1>1, SqlInvariance, PTL

----------------------------------------------------------------------------
(* Reopening.  A drop can leave tables that encode refuses, so only what was *)
(* saved is known to be sound.                                               *)

SavedInv ==
  /\ TypeOK
  /\ OnePrimaryKey(tables)
  /\ Active => OnePrimaryKey(snapshot)
  /\ FileInv

LEMMA StepSavedInv == SavedInv /\ [ApiNext]_vars => SavedInv'
<1> SUFFICES ASSUME SavedInv, [ApiNext]_vars PROVE SavedInv'
  OBVIOUS
<1>1. TypeOK /\ TypeOK'
  BY StepTypeOK DEF SavedInv
<1>2. ASSUME NEW t \in DOMAIN tables, ReplacesRows(t)
      PROVE  OnePrimaryKey(tables')
  BY <1>1, <1>2, WithRowsIsDatabase DEF SavedInv, TypeOK, ReplacesRows, OnePrimaryKey
<1>3. CASE Create \/ CreateEmpty
  <2>1. PICK t \in TableNames, columns \in ColumnLists : CreateTable(t, columns)
    BY <1>3, DatabaseAssumption, NoColumns DEF Create, CreateEmpty
  <2>2. OnePrimaryKey(tables')
    BY <2>1 DEF SavedInv, CreateTable, OnePrimaryKey
  <2>3. QED
    BY <1>1, <2>1, <2>2, FileUnchanged DEF SavedInv, CreateTable, Active
<1>4. CASE Insert
  BY <1>1, <1>2, <1>4, InsertIntoReplaces, FileUnchanged
     DEF SavedInv, Insert, InsertInto, Active
<1>5. CASE Update
  BY <1>1, <1>2, <1>5, UpdateRowsReplaces, FileUnchanged
     DEF SavedInv, Update, UpdateRows, Active
<1>6. CASE Delete
  BY <1>1, <1>2, <1>6, DeleteRowsReplaces, FileUnchanged
     DEF SavedInv, Delete, DeleteRows, Active
<1>7. CASE Drop
  BY <1>1, <1>7, FileUnchanged DEF SavedInv, Drop, DropTable, OnePrimaryKey, Active
<1>8. CASE Begin \/ Commit \/ Rollback \/ UNCHANGED vars
  BY <1>1, <1>8, FileUnchanged
     DEF SavedInv, Begin, Commit, Rollback, vars, Active
<1>9. CASE Save
  BY <1>1, <1>9, SavedIsSound DEF SavedInv, Save, Active
<1>10. CASE Reopen
  BY <1>1, <1>10, FileUnchanged DEF SavedInv, FileInv, Read, Reopen, Sound, Active
<1>11. QED
  BY <1>3, <1>4, <1>5, <1>6, <1>7, <1>8, <1>9, <1>10 DEF ApiNext, Next

(* Whatever was saved can be opened again, even if tables were dropped.      *)
THEOREM ReopenAlwaysPossible == ApiSpec => []ReopenPossible
<1>1. Init => SavedInv
  BY InitTypeOK, EmptyIsSound, EmptyFile DEF Init, SavedInv, Sound, Active
<1>2. SavedInv => ReopenPossible
  BY FileIsReopened DEF SavedInv
<1>3. QED
  BY <1>1, <1>2, StepSavedInv, PTL DEF ApiSpec

----------------------------------------------------------------------------
(* The unsaved-changes flag.  It must also be right about the snapshot, for  *)
(* a rollback restores both.                                                 *)

CleanInv ==
  /\ TypeOK
  /\ Json(Read) = Read
  /\ ~dirty => Json(tables) = Read
  /\ Active /\ ~dirtyAtBegin => Json(snapshot) = Read

LEMMA StepCleanInv == CleanInv /\ [ApiNext]_vars => CleanInv'
<1> SUFFICES ASSUME CleanInv, [ApiNext]_vars PROVE CleanInv'
  OBVIOUS
<1>1. TypeOK /\ TypeOK'
  BY StepTypeOK DEF CleanInv
<1>2. ASSUME NEW t \in DOMAIN tables
      PROVE  tables = WithRows(tables, t, tables[t].rows)
  BY <1>1 DEF TypeOK, IsDatabase, IsTable, WithRows
<1>3. CASE Create \/ CreateEmpty \/ Insert \/ Drop
  BY <1>1, <1>3 DEF Read, CleanInv, Create, CreateEmpty, CreateTable, Insert, InsertInto,
     Drop, DropTable, MarkDirty, Active
<1>4. CASE Update
  <2>1. PICK t \in DOMAIN tables : \E affected \in SUBSET DOMAIN tables[t].rows :
          \E replacement \in [affected -> InputRows(DOMAIN tables[t].schema)] :
            UpdateRows(t, replacement)
    BY <1>4 DEF Update
  <2>2. PICK affected \in SUBSET DOMAIN tables[t].rows :
          \E replacement \in [affected -> InputRows(DOMAIN tables[t].schema)] :
            UpdateRows(t, replacement)
    BY <2>1
  <2>3. PICK replacement \in [affected -> InputRows(DOMAIN tables[t].schema)] :
          UpdateRows(t, replacement)
    BY <2>2
  <2>4. CASE DOMAIN replacement = {}
    <3>1. [i \in 1..Len(tables[t].rows) |->
             IF i \in DOMAIN replacement
             THEN ValidateInputRow(tables[t].schema, replacement[i])
             ELSE tables[t].rows[i]] = tables[t].rows
      BY <1>1, <2>4 DEF TypeOK, IsDatabase, IsTable
    <3>2. tables' = tables
      BY <1>2, <2>3, <3>1 DEF UpdateRows
    <3>3. QED
      BY <1>1, <2>3, <2>4, <3>2 DEF Read, CleanInv, UpdateRows, Active
  <2>5. CASE DOMAIN replacement # {}
    BY <1>1, <2>3, <2>5 DEF Read, CleanInv, UpdateRows, MarkDirty, Active
  <2>6. QED
    BY <2>4, <2>5
<1>5. CASE Delete
  <2>1. PICK t \in DOMAIN tables : \E e \in OrderedSelections(Len(tables[t].rows)) :
          DeleteRows(t, e)
    BY <1>5 DEF Delete
  <2>2. PICK e \in OrderedSelections(Len(tables[t].rows)) : DeleteRows(t, e)
    BY <2>1
  <2>3. CASE DOMAIN e = DOMAIN tables[t].rows
    <3>1. RemainingRows(tables[t].rows, e) = tables[t].rows
      BY <1>1, <2>3, AllRowsRemain DEF TypeOK, IsDatabase, IsTable
    <3>2. tables' = tables
      BY <1>2, <2>2, <3>1 DEF DeleteRows
    <3>3. QED
      BY <1>1, <2>2, <2>3, <3>2 DEF Read, CleanInv, DeleteRows, Active
  <2>4. CASE DOMAIN e # DOMAIN tables[t].rows
    BY <1>1, <2>2, <2>4 DEF Read, CleanInv, DeleteRows, MarkDirty, Active
  <2>5. QED
    BY <2>3, <2>4
<1>6. CASE Begin
  BY <1>1, <1>6 DEF Read, CleanInv, Begin, Active
<1>7. CASE Commit
  BY <1>1, <1>7 DEF Read, CleanInv, Commit, Active
<1>8. CASE Rollback
  BY <1>1, <1>8 DEF Read, CleanInv, Rollback, Active, TypeOK
<1>9. CASE Save
  <2>1. Read' = Json(tables)
    BY <1>1, <1>9, CodecRoundTrip DEF TypeOK, Save, Read
  <2>2. Json(Json(tables)) = Json(tables)
    BY <1>1, JsonIsDatabase DEF TypeOK
  <2>3. QED
    BY <1>1, <1>9, <2>1, <2>2 DEF CleanInv, Save, Active
<1>10. CASE Reopen
  BY <1>1, <1>10 DEF CleanInv, Read, Reopen, Active
<1>11. CASE UNCHANGED vars
  BY <1>1, <1>11 DEF Read, CleanInv, vars, Active
<1>12. QED
  BY <1>3, <1>4, <1>5, <1>6, <1>7, <1>8, <1>9, <1>10, <1>11 DEF ApiNext, Next

(* A database that is shown as clean is what its file holds, if every save   *)
(* is awaited before the next call.                                          *)
THEOREM CleanAlwaysSaved == ApiSpec => []CleanIsSaved
<1>1. Init => CleanInv
  BY InitTypeOK, EmptyJson DEF Init, CleanInv, Active, Read
<1>2. CleanInv => CleanIsSaved
  BY DEF CleanInv, CleanIsSaved, Read
<1>3. QED
  BY <1>1, <1>2, StepCleanInv, PTL DEF ApiSpec
============================================================================
