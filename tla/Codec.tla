------------------------------- MODULE Codec -------------------------------
(***************************************************************************)
(* The database file: src/persistence/database-codec.ts.  A snapshot is    *)
(* turned into persisted tables, validated, and written as JSON; reading   *)
(* parses it, validates it again and turns it back.  The validation is a   *)
(* second implementation of the checks of Table and Database, and is       *)
(* translated on its own.                                                  *)
(*                                                                         *)
(* A persisted table has the columns by name, the names in its primary key *)
(* and unique constraints, the foreign keys by column, and the rows.  The  *)
(* order of tables and columns, format marker, version and time of saving  *)
(* are left out.                                                           *)
(***************************************************************************)
EXTENDS Table

PersistedTable(table) ==
  LET schema == table.schema
  IN  [columns |-> [c \in DOMAIN schema |->
                      [type |-> schema[c].type, nullable |-> schema[c].nullable]],
       primaryKey |-> {c \in DOMAIN schema : schema[c].primaryKey},
       uniqueConstraints |-> {c \in DOMAIN schema : schema[c].unique},
       foreignKeys |-> [c \in ForeignKeys(schema) |-> schema[c].references],
       rows |-> table.rows]

SnapshotToPersistedFile(db) == [t \in DOMAIN db |-> PersistedTable(db[t])]

(* JSON.stringify and JSON.parse: what becomes of the values of the rows.    *)
JsonRow(row) == [c \in DOMAIN row |-> IF row[c] = Null THEN Null ELSE JsonOf[row[c]]]
JsonRows(rows) == [i \in DOMAIN rows |-> JsonRow(rows[i])]
Json(file) == [t \in DOMAIN file |-> [file[t] EXCEPT !.rows = JsonRows(file[t].rows)]]

(* The primary key is unique and not nullable, whatever the file says.       *)
ColumnRead(table, c) ==
  [type |-> table.columns[c].type,
   nullable |-> c \notin table.primaryKey /\ table.columns[c].nullable,
   unique |-> c \in table.uniqueConstraints \cup table.primaryKey,
   primaryKey |-> c \in table.primaryKey,
   references |-> IF c \in DOMAIN table.foreignKeys THEN table.foreignKeys[c]
                                                    ELSE NoReference]

TableRead(table) ==
  [schema |-> [c \in DOMAIN table.columns |-> ColumnRead(table, c)],
   rows |-> table.rows]

PersistedFileToSnapshot(file) == [t \in DOMAIN file |-> TableRead(file[t])]

----------------------------------------------------------------------------
(* validatePersistedFile.                                                    *)

PersistedValueValid(column, v) ==
  IF v = Null THEN column.nullable ELSE v \in ValuesOf[column.type]

PersistedRowValid(table, row) ==
  /\ DOMAIN row = DOMAIN table.columns
  /\ \A c \in DOMAIN table.columns : PersistedValueValid(table.columns[c], row[c])

PersistedTableValid(table) ==
  /\ DOMAIN table.columns # {}
  /\ table.primaryKey \cup table.uniqueConstraints \subseteq DOMAIN table.columns
  /\ DOMAIN table.foreignKeys \subseteq DOMAIN table.columns
  /\ \A i \in DOMAIN table.rows : PersistedRowValid(table, table.rows[i])

ForeignKeySchemasValid(file) ==
  \A t \in DOMAIN file : \A c \in DOMAIN file[t].foreignKeys :
    LET ref == file[t].foreignKeys[c]
        target == file[ref.table]
    IN  /\ ref.table \in DOMAIN file
        /\ ref.column \in DOMAIN target.columns
        /\ ref.column \in target.primaryKey \cup target.uniqueConstraints
        /\ file[t].columns[c].type = target.columns[ref.column].type

UniqueRowsValid(table, c, rejectNull) ==
  /\ rejectNull => \A i \in DOMAIN table.rows : table.rows[i][c] # Null
  /\ \A i, j \in DOMAIN table.rows :
       LET v == table.rows[i][c]
           w == table.rows[j][c]
       IN  v # Null /\ w # Null /\ JsonOf[v] = JsonOf[w] => i = j

(* Object.is decides whether a foreign key has its value.                    *)
PersistedRowsValid(file) ==
  \A t \in DOMAIN file :
    /\ \A c \in file[t].primaryKey : UniqueRowsValid(file[t], c, TRUE)
    /\ \A c \in file[t].uniqueConstraints : UniqueRowsValid(file[t], c, FALSE)
    /\ \A c \in DOMAIN file[t].foreignKeys :
         LET ref == file[t].foreignKeys[c]
         IN  /\ ref.table \in DOMAIN file
             /\ \A i \in DOMAIN file[t].rows :
                  \/ file[t].rows[i][c] = Null
                  \/ HasMatchingValue(file[ref.table].rows, ref.column,
                                      file[t].rows[i][c])

TablesValid(file) == \A t \in DOMAIN file : PersistedTableValid(file[t])

(* Variant: each table is validated without regard to the others.            *)
ValidateTables(file) ==
  /\ TablesValid(file)
  /\ \A t \in DOMAIN file : \A c \in file[t].uniqueConstraints :
       UniqueRowsValid(file[t], c, FALSE)

ValidatePersistedFile(file) ==
  /\ TablesValid(file)
  /\ ForeignKeySchemasValid(file)
  /\ PersistedRowsValid(file)
============================================================================
