------------------------------ MODULE Database ------------------------------
(***************************************************************************)
(* The storage engine as one caller sees it: the tables of                 *)
(* src/storage/database.ts, the explicit transaction of                    *)
(* src/storage/transaction-manager.ts, the unsaved-changes flag, and the   *)
(* content of the last save.  Every operation is synchronous in the code,  *)
(* and here SAVE is one step too: the caller awaits it before its next     *)
(* call.  (AsyncDatabase drops that assumption, PersistenceManager opens   *)
(* the save up.)  A call that the code refuses throws before it changes    *)
(* anything, so a refused call is a step that changes nothing: the guards  *)
(* below are the code's checks.                                            *)
(***************************************************************************)
EXTENDS Codec

CONSTANTS
  CreateRequests,  \* the column lists that CREATE TABLE statements give
  NoSnapshot,      \* no transaction is active
  MaxRows          \* bound on the rows of a table

VARIABLES
  tables,      \* the tables Map: a function from the names in use to tables
  snapshot,    \* TransactionManager.activeSnapshot, or NoSnapshot
  dirtyAtBegin,\* TransactionManager.activeDirtySnapshot
  dirty,       \* persistenceMetadata.dirty
  saved        \* the tables in the database file, as the codec persists them

vars == <<tables, snapshot, dirtyAtBegin, dirty, saved>>

NoTables == [t \in {} |-> 0]

ASSUME DatabaseAssumption ==
  /\ CreateRequests \subseteq ColumnLists
  /\ \A columns \in CreateRequests : DOMAIN columns # {}
  /\ MaxRows \in Nat

IsDatabase(db) ==
  /\ DOMAIN db \subseteq TableNames
  /\ db = [t \in DOMAIN db |-> db[t]]
  /\ \A t \in DOMAIN db : IsTable(db[t])

----------------------------------------------------------------------------
(* The checks that span tables.                                            *)

Resolves(db, ref) ==
  ref.table \in DOMAIN db /\ ref.column \in DOMAIN db[ref.table].schema

RowsMatch(db, t, c) ==
  LET ref == db[t].schema[c].references
  IN  \A i \in DOMAIN db[t].rows :
        \/ db[t].rows[i][c] = Null
        \/ HasMatchingValue(db[ref.table].rows, ref.column, db[t].rows[i][c])

ForeignKeyDeclarationValid(db, t, c) ==
  LET ref == db[t].schema[c].references
  IN  /\ Resolves(db, ref)
      /\ LET target == db[ref.table].schema[ref.column]
         IN  /\ target.primaryKey \/ target.unique
             /\ target.type = db[t].schema[c].type

ValidateCreateTableConstraints(db, t) ==
  \A c \in ForeignKeys(db[t].schema) : ForeignKeyDeclarationValid(db, t, c)

OutgoingForeignKeysValid(db, t) ==
  \A c \in ForeignKeys(db[t].schema) :
    /\ Resolves(db, db[t].schema[c].references)
    /\ RowsMatch(db, t, c)

(* The loop resolves the referenced table of every foreign key of the        *)
(* database, t's or not, and throws if one is missing.                       *)
IncomingReferencesValid(db, t) ==
  \A r \in DOMAIN db : \A c \in ForeignKeys(db[r].schema) :
    LET ref == db[r].schema[c].references
    IN  /\ ref.table \in DOMAIN db
        /\ ref.table = t => Resolves(db, ref) /\ RowsMatch(db, r, c)

(* Variant: what refers to t is not looked at.                               *)
OwnStateValid(db, t) ==
  /\ ValidateRows(db[t].schema, db[t].rows)
  /\ OutgoingForeignKeysValid(db, t)

(* validateTableState(table, proposedRows): db already holds the proposed    *)
(* rows of t.                                                                *)
TableStateValid(db, t) ==
  /\ ValidateRows(db[t].schema, db[t].rows)
  /\ OutgoingForeignKeysValid(db, t)
  /\ IncomingReferencesValid(db, t)

WithRows(db, t, rows) == [db EXCEPT ![t].rows = rows]

(* Variant: each table is validated before the others have their rows.       *)
RestorableOneByOne(snap) ==
  \A t \in DOMAIN snap :
    TableStateValid([u \in DOMAIN snap |-> IF u = t THEN snap[u]
                                           ELSE [snap[u] EXCEPT !.rows = <<>>]], t)

(* restoreSnapshot succeeds: every table is rebuilt from its snapshot        *)
(* (Table constructor, replaceRows) and the whole is validated.              *)
Restorable(snap) ==
  \A t \in DOMAIN snap :
    /\ SchemaConstraintsValid(snap[t].schema)
    /\ ValidateRows(snap[t].schema, snap[t].rows)
    /\ ValidateCreateTableConstraints(snap, t)
    /\ TableStateValid(snap, t)

(* DatabaseCodec.encode succeeds: validatePersistedFile accepts what it      *)
(* built from the snapshot.                                                  *)
Encodable(snap) == ValidatePersistedFile(SnapshotToPersistedFile(snap))

----------------------------------------------------------------------------
Active == snapshot # NoSnapshot

MarkDirty == dirty' = TRUE

(* Database.open on a path that has no file yet.                             *)
Init ==
  /\ tables = NoTables
  /\ snapshot = NoSnapshot
  /\ dirtyAtBegin = FALSE
  /\ dirty = FALSE
  /\ saved = NoTables

CreateTable(t, columns) ==
  LET schema  == NormalizeColumnDefinitions(columns)
      created == [u \in DOMAIN tables \cup {t} |->
                    IF u = t THEN [schema |-> schema, rows |-> <<>>] ELSE tables[u]]
  IN  /\ t \notin DOMAIN tables
      /\ SchemaConstraintsValid(schema)
      /\ ValidateCreateTableConstraints(created, t)
      /\ tables' = created
      /\ MarkDirty
      /\ UNCHANGED <<snapshot, dirtyAtBegin, saved>>

InsertInto(t, input) ==
  /\ t \in DOMAIN tables
  /\ Len(tables[t].rows) < MaxRows
  /\ AcceptsInputRow(tables[t].schema, input)
  /\ LET row      == ValidateInputRow(tables[t].schema, input)
         proposed == WithRows(tables, t, Append(tables[t].rows, row))
     IN  /\ TableStateValid(proposed, t)
         /\ tables' = proposed
  /\ MarkDirty
  /\ UNCHANGED <<snapshot, dirtyAtBegin, saved>>

(* Variant: a table that refers to itself is looked up as it is stored.      *)
UpdateAgainstStored(t, replacement) ==
  /\ t \in DOMAIN tables
  /\ DOMAIN replacement \subseteq DOMAIN tables[t].rows
  /\ \A i \in DOMAIN replacement : AcceptsInputRow(tables[t].schema, replacement[i])
  /\ LET schema == tables[t].schema
         rows   == [i \in 1..Len(tables[t].rows) |->
                      IF i \in DOMAIN replacement
                      THEN ValidateInputRow(schema, replacement[i])
                      ELSE tables[t].rows[i]]
     IN  /\ ValidateRows(schema, rows)
         /\ \A c \in ForeignKeys(schema) : \A i \in DOMAIN rows :
              rows[i][c] # Null =>
                HasMatchingValue(tables[schema[c].references.table].rows,
                                 schema[c].references.column, rows[i][c])
         /\ tables' = WithRows(tables, t, rows)
  /\ IF DOMAIN replacement # {} THEN MarkDirty ELSE UNCHANGED dirty
  /\ UNCHANGED <<snapshot, dirtyAtBegin, saved>>

(* The rows that satisfy the predicate are those of DOMAIN replacement; the  *)
(* updater gives each one a new input row.  The state is validated and       *)
(* replaced even when no row is affected.                                    *)
UpdateRows(t, replacement) ==
  /\ t \in DOMAIN tables
  /\ DOMAIN replacement \subseteq DOMAIN tables[t].rows
  /\ \A i \in DOMAIN replacement : AcceptsInputRow(tables[t].schema, replacement[i])
  /\ LET rows     == [i \in 1..Len(tables[t].rows) |->
                        IF i \in DOMAIN replacement
                        THEN ValidateInputRow(tables[t].schema, replacement[i])
                        ELSE tables[t].rows[i]]
         proposed == WithRows(tables, t, rows)
     IN  /\ TableStateValid(proposed, t)
         /\ tables' = proposed
  /\ IF DOMAIN replacement # {} THEN MarkDirty ELSE UNCHANGED dirty
  /\ UNCHANGED <<snapshot, dirtyAtBegin, saved>>

(* The rows that stay are those the ordered selection e picks.               *)
DeleteRows(t, e) ==
  /\ t \in DOMAIN tables
  /\ e \in OrderedSelections(Len(tables[t].rows))
  /\ LET proposed == WithRows(tables, t, RemainingRows(tables[t].rows, e))
     IN  /\ TableStateValid(proposed, t)
         /\ tables' = proposed
  /\ IF DOMAIN e # DOMAIN tables[t].rows THEN MarkDirty ELSE UNCHANGED dirty
  /\ UNCHANGED <<snapshot, dirtyAtBegin, saved>>

(* Variants: the rows that reference t are not looked at; the database is    *)
(* not marked as changed.                                                    *)
DropTableUnchecked(t) ==
  /\ t \in DOMAIN tables
  /\ tables' = [u \in DOMAIN tables \ {t} |-> tables[u]]
  /\ MarkDirty
  /\ UNCHANGED <<snapshot, dirtyAtBegin, saved>>

DropTableUnmarked(t) ==
  /\ t \in DOMAIN tables
  /\ IncomingReferencesValid(WithRows(tables, t, <<>>), t)
  /\ tables' = [u \in DOMAIN tables \ {t} |-> tables[u]]
  /\ UNCHANGED <<snapshot, dirtyAtBegin, dirty, saved>>

(* dropTable checks the rows that reference t as if t were empty, then       *)
(* forgets t.  It leaves the foreign keys that point to t declared.          *)
DropTable(t) ==
  /\ t \in DOMAIN tables
  /\ IncomingReferencesValid(WithRows(tables, t, <<>>), t)
  /\ tables' = [u \in DOMAIN tables \ {t} |-> tables[u]]
  /\ MarkDirty
  /\ UNCHANGED <<snapshot, dirtyAtBegin, saved>>

----------------------------------------------------------------------------
Begin ==
  /\ ~Active
  /\ snapshot' = tables
  /\ dirtyAtBegin' = dirty
  /\ UNCHANGED <<tables, dirty, saved>>

Commit ==
  /\ Active
  /\ snapshot' = NoSnapshot
  /\ dirtyAtBegin' = FALSE
  /\ UNCHANGED <<tables, dirty, saved>>

(* Variant: the rollback takes the restored state for the saved one.         *)
RollbackToClean ==
  /\ Active
  /\ Restorable(snapshot)
  /\ tables' = snapshot
  /\ dirty' = FALSE
  /\ snapshot' = NoSnapshot
  /\ dirtyAtBegin' = FALSE
  /\ UNCHANGED saved

(* If the snapshot cannot be restored, ROLLBACK throws, the tables stay as   *)
(* they are and the transaction stays active.                                *)
Rollback ==
  /\ Active
  /\ Restorable(snapshot)
  /\ tables' = snapshot
  /\ dirty' = dirtyAtBegin
  /\ snapshot' = NoSnapshot
  /\ dirtyAtBegin' = FALSE
  /\ UNCHANGED saved

(* save() is refused while a transaction is active, and fails if the         *)
(* snapshot cannot be encoded.                                               *)
Save ==
  /\ ~Active
  /\ Encodable(tables)
  /\ saved' = Json(SnapshotToPersistedFile(tables))
  /\ dirty' = FALSE
  /\ UNCHANGED <<tables, snapshot, dirtyAtBegin>>

(* The process ends, at any time, and Database.open loads the file.          *)
Reopen ==
  /\ ValidatePersistedFile(saved)
  /\ Restorable(PersistedFileToSnapshot(saved))
  /\ tables' = PersistedFileToSnapshot(saved)
  /\ snapshot' = NoSnapshot
  /\ dirtyAtBegin' = FALSE
  /\ dirty' = FALSE
  /\ UNCHANGED saved

----------------------------------------------------------------------------
Create == \E t \in TableNames, columns \in CreateRequests : CreateTable(t, columns)

Insert ==
  \E t \in DOMAIN tables : \E input \in InputRows(ColumnNames) : InsertInto(t, input)

(* An update that names a column the table does not have is refused.         *)
Update ==
  \E t \in DOMAIN tables : \E affected \in SUBSET DOMAIN tables[t].rows :
    \E replacement \in [affected -> InputRows(DOMAIN tables[t].schema)] :
      UpdateRows(t, replacement)

Delete ==
  \E t \in DOMAIN tables :
    \E e \in OrderedSelections(Len(tables[t].rows)) : DeleteRows(t, e)

(* What SQL statements can do: the language has no DROP TABLE, and a CREATE  *)
(* TABLE has at least one column.                                            *)
Next ==
  \/ Create
  \/ Insert
  \/ Update
  \/ Delete
  \/ Begin
  \/ Commit
  \/ Rollback
  \/ Save
  \/ Reopen

Spec == Init /\ [][Next]_vars

(* What callers can do with the methods of Database that change tables.  The *)
(* Table that createTable and getTable return, whose own methods check no    *)
(* foreign key, and restoreSnapshot with any snapshot are left out.          *)
CreateEmpty == \E t \in TableNames : CreateTable(t, <<>>)
Drop == \E t \in DOMAIN tables : DropTable(t)

ApiNext == Next \/ CreateEmpty \/ Drop

ApiSpec == Init /\ [][ApiNext]_vars
----------------------------------------------------------------------------
(* Properties.                                                             *)

(* Every table has a well-formed schema and rows that fit it: every NOT NULL *)
(* column of every row is set, and every value has its column's type, in the *)
(* tables, in the transaction snapshot and in the file.                      *)
TypeOK ==
  /\ IsDatabase(tables)
  /\ Active => IsDatabase(snapshot)
  /\ IsDatabase(PersistedFileToSnapshot(saved))
  /\ dirtyAtBegin \in BOOLEAN
  /\ dirty \in BOOLEAN

(* A key identifies a row: no two rows of a table agree on a non-null value  *)
(* of a UNIQUE column, 0 and -0 being one, and no row has a NULL primary     *)
(* key.                                                                      *)
RowsKeyed(t) ==
  \A c \in DOMAIN t.schema :
    /\ t.schema[c].unique =>
         \A i, j \in DOMAIN t.rows :
           i # j /\ t.rows[i][c] # Null /\ t.rows[j][c] # Null =>
             JsonOf[t.rows[i][c]] # JsonOf[t.rows[j][c]]
    /\ t.schema[c].primaryKey => \A i \in DOMAIN t.rows : t.rows[i][c] # Null

KeysIdentifyRows(db) == \A t \in DOMAIN db : RowsKeyed(db[t])

(* Every non-null foreign key value is the value of a row of the referenced  *)
(* column, in a table that exists.                                           *)
ValueFound(db, ref, v) ==
  /\ Resolves(db, ref)
  /\ \E j \in DOMAIN db[ref.table].rows : db[ref.table].rows[j][ref.column] = v

NoDanglingValues(db) ==
  \A t \in DOMAIN db : \A c \in ForeignKeys(db[t].schema) :
    \A i \in DOMAIN db[t].rows :
      db[t].rows[i][c] # Null =>
        ValueFound(db, db[t].schema[c].references, db[t].rows[i][c])

(* Every declared foreign key points to a unique column, of its own type,    *)
(* of a table that exists.                                                   *)
Declared(db, t, c) ==
  LET ref == db[t].schema[c].references
  IN  /\ Resolves(db, ref)
      /\ db[ref.table].schema[ref.column].unique
      /\ db[ref.table].schema[ref.column].type = db[t].schema[c].type

DeclarationsResolve(db) ==
  \A t \in DOMAIN db : \A c \in ForeignKeys(db[t].schema) : Declared(db, t, c)

(* The constraints that README.md lists (PRIMARY KEY, UNIQUE, foreign keys)  *)
(* hold after every statement and every rollback, although a statement on    *)
(* one table checks only that table and what refers to it.                   *)
ConstraintsHold == KeysIdentifyRows(tables) /\ NoDanglingValues(tables)

(* ROLLBACK can always restore the state of BEGIN: it never leaves its       *)
(* caller in a transaction that can only be committed                        *)
(* (TRANSACTION_RESTORE_FAILED).                                             *)
RollbackPossible == Active => Restorable(snapshot)

(* Whatever SQL has run, every foreign key still has a target: the tables    *)
(* pass the checks that encode makes before it writes.  It needs that CREATE *)
(* TABLE cannot break another table's declarations and that nothing drops.   *)
StateSaveable == Encodable(tables)

(* Whatever was saved can be opened again: what encode lets through, decode  *)
(* and restoreSnapshot accept, also where JSON turns -0 into 0.              *)
ReopenPossible ==
  /\ ValidatePersistedFile(saved)
  /\ Restorable(PersistedFileToSnapshot(saved))

(* A database that is shown as clean holds what the next open finds in its   *)
(* file (but for -0, which is 0 there), also after a rollback to a state     *)
(* that was clean or unsaved when the transaction began.                     *)
CleanIsSaved == ~dirty => Json(tables) = PersistedFileToSnapshot(saved)

============================================================================
