---------------------------- MODULE BrowserClient ----------------------------
(***************************************************************************)
(* LocalKansoClient (frontend/src/engine/LocalKansoClient.ts): the         *)
(* database of the workbench, and the files it keeps in localStorage.      *)
(* Every await of it continues before the browser delivers another event,  *)
(* so a call is one step.  The operators give the clients that a call may  *)
(* leave; localStorage refuses a write when its quota is reached.          *)
(*                                                                         *)
(* A content of the tables is a version, as in AsyncDatabase.              *)
(***************************************************************************)
EXTENDS Naturals, Sequences

CONSTANTS
  Names,       \* names of browser files
  Demo,        \* demoWorkspaceDatabaseName
  NoPath,      \* the path of a database in memory
  NoFile,
  NoSnapshot,  \* no transaction is active
  Rejected,    \* databaseReady when the database could not be opened
  MaxVersions, \* bound on the contents the tables have
  MaxRefusals  \* bound on the writes that localStorage refuses

VARIABLE client

(* Versions: the tables of a new database, those of the demo script, others. *)
EmptyTables == 0
DemoTables == 1

AutoSaveModes == {"off", "on-commit", "after-mutation"}
Statements == {"change", "query", "error", "begin", "commit", "rollback", "save"}

(* The states of an open database.                                           *)
Databases ==
  [path : Names \cup {NoPath}, content : 0..MaxVersions,
   snapshot : 0..MaxVersions \cup {NoSnapshot}, dirtyAtBegin : BOOLEAN,
   dirty : BOOLEAN, autoSave : AutoSaveModes]

ASSUME BrowserAssumption ==
  /\ Demo \in Names /\ NoPath \notin Names
  /\ NoFile \notin Nat /\ NoSnapshot \notin Nat /\ Rejected \notin Databases
  /\ MaxVersions \in Nat /\ MaxVersions >= DemoTables /\ MaxRefusals \in Nat

Active(c) == c.db # Rejected /\ c.db.snapshot # NoSnapshot

(* getSessionState, which rejects when databaseReady has.                    *)
SessionOf(c) ==
  [databaseName |-> c.databaseName, storageKind |-> c.storageKind,
   active |-> Active(c), dirty |-> c.db.dirty, autoSave |-> c.db.autoSave,
   known |-> c.known]

NewDatabase(path, content) ==
  [path |-> path, content |-> content, snapshot |-> NoSnapshot,
   dirtyAtBegin |-> FALSE, dirty |-> FALSE, autoSave |-> "off"]

----------------------------------------------------------------------------
(* Files.  PersistenceManager over an adapter whose rename writes a copy.    *)
(* .bak is there only during a save: what was moved to it fits in again.     *)

(* What the next open finds in a file and its .tmp.                          *)
Stored(f) == IF f.final # NoFile THEN f.final
             ELSE IF f.tmp # NoFile THEN f.tmp ELSE EmptyTables

Recovered(f) ==
  [final |-> IF f.final = NoFile THEN f.tmp ELSE f.final, tmp |-> NoFile]

(* Promoting .tmp is a rename, and needs room for the copy.                  *)
PromotionNeeded(f) == f.final = NoFile /\ f.tmp # NoFile

Refusals(c, path, files) ==
  IF c.refusals = MaxRefusals THEN {}
  ELSE {[c EXCEPT !.files[path] = f, !.refusals = @ + 1] : f \in files}

(* Database.open.                                                            *)
Opens(c, path) ==
  LET f == c.files[path]
  IN  {[c EXCEPT !.files[path] = Recovered(f), !.db = NewDatabase(path, Stored(f))]}
      \cup IF PromotionNeeded(f)
           THEN Refusals([c EXCEPT !.db = Rejected], path, {f})
           ELSE {}

Done(c) == [client |-> c, ok |-> TRUE]
Failed(c) == [client |-> c, ok |-> FALSE]

(* Variant: a database that could not be saved is marked clean.              *)
SaveMarksClean(c) ==
  LET path == c.db.path
      found == c.files[path]
      kept == Recovered(found)
      clean == [c EXCEPT !.db.dirty = FALSE]
  IN  {Done([clean EXCEPT !.files[path] = [final |-> c.db.content, tmp |-> NoFile]])}
      \cup {Failed(d) : d \in
              Refusals(clean, path, {kept, [kept EXCEPT !.tmp = c.db.content]})}

(* Database.save, after its checks.  A save that is refused room may leave   *)
(* what it wrote as .tmp.                                                    *)
SaveFile(c) ==
  LET path == c.db.path
      found == c.files[path]
      kept == Recovered(found)
      left == {kept, [kept EXCEPT !.tmp = c.db.content]}
                \cup IF PromotionNeeded(found) THEN {found} ELSE {}
  IN  {Done([c EXCEPT !.files[path] = [final |-> c.db.content, tmp |-> NoFile],
                      !.db.dirty = FALSE])}
      \cup {Failed(d) : d \in Refusals(c, path, left)}

----------------------------------------------------------------------------
(* Statements.                                                               *)

AutoSave(c) ==
  IF c.db.autoSave # "off" /\ c.db.path # NoPath /\ ~Active(c)
  THEN SaveFile(c)
  ELSE {Done(c)}

(* markDirty: a database in memory has no persistence and is never dirty.    *)
Marked(c) == [c EXCEPT !.db.dirty = @ \/ c.db.path # NoPath]

Changed(c) ==
  IF c.versions = MaxVersions THEN {}
  ELSE {Marked([c EXCEPT !.versions = @ + 1, !.db.content = c.versions + 1])}

Ended(c) == [c EXCEPT !.db.snapshot = NoSnapshot, !.db.dirtyAtBegin = FALSE]

(* executeSqlAsync: the clients a statement may leave, and whether it ended  *)
(* without an error.                                                         *)
Executions(c, statement) ==
  CASE statement = "change" -> UNION {AutoSave(d) : d \in Changed(c)}
    [] statement = "query" -> {Done(c)}
    [] statement = "begin" /\ ~Active(c) ->
         {Done([c EXCEPT !.db.snapshot = c.db.content, !.db.dirtyAtBegin = c.db.dirty])}
    [] statement = "commit" /\ Active(c) -> AutoSave(Ended(c))
    [] statement = "rollback" /\ Active(c) ->
         {Done(Ended([c EXCEPT !.db.content = c.db.snapshot,
                               !.db.dirty = c.db.dirtyAtBegin]))}
    [] statement = "save" /\ ~Active(c) /\ c.db.path # NoPath -> SaveFile(c)
    [] OTHER -> {Failed(c)}

(* executeSqlScriptAsync, not atomic.                                        *)
Scripts(c, statements, stopOnError) ==
  LET after[i \in 0..Len(statements)] ==
        IF i = 0 THEN {Done(c)}
        ELSE UNION {IF stopOnError /\ ~r.ok THEN {r}
                    ELSE {[e EXCEPT !.ok = e.ok /\ r.ok] :
                            e \in Executions(r.client, statements[i])} :
                      r \in after[i - 1]}
  IN  after[Len(statements)]

(* executeSqlScriptAsync, atomic: one change or none, and one save.          *)
AtomicScripts(c, statements, stopOnError) ==
  LET all == {statements[i] : i \in DOMAIN statements}
      errors == {i \in DOMAIN statements : statements[i] = "error"}
      executed == {i \in DOMAIN statements : stopOnError => \A j \in errors : i <= j}
      changed == \E i \in executed : statements[i] = "change"
  IN  IF Active(c) \/ all \cap {"begin", "commit", "rollback", "save"} # {}
      THEN {Failed(c)}
      ELSE IF errors # {} THEN {Failed(IF changed THEN Marked(c) ELSE c)}
      ELSE UNION {AutoSave(d) : d \in IF changed THEN Changed(c) ELSE {c}}

(* executeWithTrace and executeScriptWithTrace wait for databaseReady, and   *)
(* fail with it.                                                             *)
Runs(c, statements, options) ==
  IF c.db = Rejected THEN {Failed(c)}
  ELSE IF Len(statements) = 1 THEN Executions(c, statements[1])
  ELSE IF options.atomic THEN AtomicScripts(c, statements, options.stopOnError)
  ELSE Scripts(c, statements, options.stopOnError)

----------------------------------------------------------------------------
(* Databases.                                                                *)

Named(c, name, kind) ==
  [c EXCEPT !.databaseName = name, !.storageKind = kind]

Remembered(c, name) == [c EXCEPT !.known = @ \cup {name}]

(* openDatabase and createFileBackedDatabase are the same.  A name that is   *)
(* new is written to the list of known databases first: if that is refused,  *)
(* nothing else is done.                                                     *)
FileDatabases(c, name) ==
  Opens(Named(Remembered(c, name), name, "browser-file"), name)
    \cup IF name \in c.known THEN {} ELSE Refusals(c, name, {c.files[name]})

(* Variant: the name of the database before stays.                           *)
MemoryKeepsName(c) ==
  {[c EXCEPT !.storageKind = "memory", !.db = NewDatabase(NoPath, EmptyTables)]}

MemoryDatabases(c) ==
  {[Named(c, NoPath, "memory") EXCEPT !.db = NewDatabase(NoPath, EmptyTables)]}

(* createSeededDatabase: the demo script runs on a database without tables   *)
(* and is not saved.                                                         *)
SeededDatabases(c) ==
  {IF d.db = Rejected \/ d.db.content # EmptyTables THEN d
   ELSE [d EXCEPT !.db.content = DemoTables, !.db.dirty = TRUE] : d \in Opens(c, Demo)}

(* loadExampleDatabase removes the file first, and not its .tmp.             *)
ExampleDatabases(c) ==
  SeededDatabases([Named(Remembered(c, Demo), Demo, "browser-file")
                     EXCEPT !.files[Demo].final = NoFile])

(* The page is loaded: the constructor.  The demo database is known from the *)
(* first page on, whose list of one name localStorage accepts; a list that   *)
(* does not change is accepted from then on.                                 *)
NewClients(files, known, versions, refusals) ==
  SeededDatabases([db |-> Rejected, databaseName |-> Demo,
                   storageKind |-> "browser-file", known |-> known \cup {Demo},
                   files |-> files, versions |-> versions, refusals |-> refusals])

(* setAutoSaveMode                                                           *)
WithAutoSave(c, mode) ==
  IF c.db = Rejected THEN c ELSE [c EXCEPT !.db.autoSave = mode]
============================================================================
