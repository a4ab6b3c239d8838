# KansoDB in TLA+

KansoDB is a small SQL database in TypeScript: an engine that keeps tables in
memory and can save them to one JSON file, and a browser workbench on top of it.
This directory holds TLA+ specifications of it, TLC configurations that
model-check them, and TLAPS proofs about all of its parts, of the language where no
syntax tree is built or walked.
Paths below are relative to the repository (`src/...` is the engine,
`frontend/src/...` the workbench).

## 1. The system

| Component | State | Operations | Talks to |
|---|---|---|---|
| Tables and columns (`storage/table.ts`, `column.ts`) | schema and rows of one table | validate a row, validate a set of rows, replace the rows | Database |
| Database (`storage/database.ts`) | the map of tables, the dirty flag, the auto-save mode | createTable, dropTable, insertInto, updateRows, deleteRows, createSnapshot, restoreSnapshot, open, save | Transaction manager, Persistence manager |
| Transactions (`storage/transaction-manager.ts`) | the snapshot and the dirty flag of BEGIN, or nothing | begin, commit, rollback; internal snapshots for scripts | Database |
| Persistence manager (`persistence/persistence-manager.ts`) | the files `p`, `p.tmp`, `p.bak` | load, save, recover | file adapters, codec |
| Storage format (`persistence/database-codec.ts`) | none | encode, decode, both with complete validation | Persistence manager |
| Statement executor (`execution/executor.ts`) | none | one statement, synchronous or with auto-save | Database, query execution |
| Script executor (`execution/script-executor.ts`) | execution history | atomic and non-atomic scripts | statement executor, Transactions, save |
| Lexer, parser, script parser (`lexer/`, `parser/`) | none | text to statements, with the text of each | executors |
| Expressions (`expression-evaluator.ts`, `truth-value.ts`, `expression-formatter.ts`) | none | values, predicates, labels | query execution, statement executor |
| Query execution (`join-executor.ts`, `query-scope.ts`) | none | SELECT: joins, filters, groups, order, limit | Tables |
| Browser client (`frontend/src/engine/LocalKansoClient.ts`) | the open database, its name and storage key, localStorage | open, execute, save, session state, example database | engine, localStorage |
| Workbench (`Workspace.tsx`, `App.tsx`, `useQueryExecution.ts`) | the session state shown, dialogs, preferences | runs, menus, dialogs, the transaction safeguard | Browser client, tabs, history |
| Tabs and history (`useQueryTabs.ts`, `useQueryHistory.ts`) | tabs, active tab, entries and details | add, close, rename, persist | localStorage |

The engine runs in one JavaScript thread. Every operation of the storage engine
is synchronous; only file operations, and what awaits them (`open`, `save`,
auto-save, scripts), can be interleaved with other callers. The process can die
between any two file operations, and any of them can fail. In the browser every
await continues before the next event, so the workbench interleaves events,
timers and page loads, and not file operations.

What is hard, and what makes each part correct:

* **Constraints across tables.** A statement on one table validates that table
  and the rows of others that refer to it. Correct: no sequence of statements
  ends in a duplicate key or a foreign key value without its row.
* **Transactions.** ROLLBACK rebuilds every table from a snapshot and validates
  the whole database again, and it restores a dirty flag it remembered. Correct:
  it can always succeed, and a database shown as clean equals its file.
* **Saving.** The constraint checks exist twice, in the database and in the
  codec, with two ways to compare values (the JSON text and `Object.is`), which
  JSON's treatment of -0 makes different. Correct: what SQL can build can be
  saved, what was saved can be opened.
* **Crash recovery.** A save is nine file operations, a recovery up to ten;
  either stops anywhere, and the next recovery starts from what is there.
  Correct: an acknowledged save is never lost, an undecided one is decided once.
* **Interleaved callers.** A save that waits for the disk while another caller
  changes the tables, two saves at once, scripts that share a transaction.
* **Texts.** The editor counts statements in characters, the parsers read
  tokens; precedence is the nesting of functions and loops; labels are written
  with as few parentheses as needed. Correct: all of them agree on every text.
* **NULL.** Three-valued logic with short-circuits, joins that extend by nulls,
  NULL as a group and as an end of an order.
* **The workbench.** A safeguard that decides by the session state last shown;
  timers that store what may have been cleared; a quota in the middle of a save, or
  between the two writes of the tabs.

`PROJECT.json` lists each hazard at its line, with the property that covers it.

## 2. Modules

    Table <- Codec <- Database <- MCDatabase
                               <- DatabaseProofs
    DurableStore <- PersistenceManager <- MCPersistence
                                       <- PersistenceProofs
    AsyncDatabase <- AsyncProofs
                  <- MCAsyncRace
                  <- Scripts <- MCScripts
    AsyncProofs, Scripts <- ScriptsProofs
    Lexer <- Ast <- Parser, Scalars
             StatementTexts
    Ast <- CreateTable
    Parser, Scalars <- Expressions
    Expressions, StatementTexts, CreateTable <- Language <- MCLanguage
    Scalars, Lists <- Query
    Query, Expressions <- MCQuery
    BrowserClient, QueryTabs, QueryHistory <- Workbench <- MCWorkbench
    Lists <- QueryTabs, QueryHistory
          <- ListsProofs <- WorkbenchProofs
                         <- QueryProofs
    StatementTexts, Scalars, CreateTable, ListsProofs <- TextProofs

Each family details what the others abstract. Database has rows and constraints,
but one caller and atomic files. PersistenceManager has the files, but a database
is just a version. AsyncDatabase and Scripts have several callers and saves that
take time, over versions and over what DurableStore says of the file. Query has
what statements compute, and no keys and no transactions. Workbench has the events
of a user over versions again.

**Storage engine.**

* **Table** has no state: columns, input rows and stored rows, `ValidateRows`
  and the other checks one table makes alone. Names are normalised names,
  because the code compares `toLowerCase()` everywhere. `ValuesOf[d]` is the set
  of values `validateType` accepts for data type `d`, so a row with a value of a
  wrong type is just a row that is not accepted. `JsonOf` is what
  `JSON.stringify` and `JSON.parse` make of a value.
* **Codec** is `database-codec.ts` in both directions. `PersistedTable` and
  `TableRead` convert, `Json` is the text in between, and `ValidatePersistedFile`
  is translated on its own, as the code has it: it shares no check with Database
  but the comparison of two values.
* **Database** is the storage engine with one caller. `tables` is the `Map`,
  `snapshot` and `dirtyAtBegin` are the two fields of `TransactionManager`,
  `dirty` is `persistenceMetadata.dirty` (the database has a path, without one
  the flag is not used), `saved` is the content of the file. There is one action
  per public operation; each builds the proposed state and validates it with the
  same calls as the code. A refused call throws before it changes anything and is
  therefore no step. `Next` is what SQL can do; `ApiNext` adds `dropTable` and
  tables without columns, which only callers of the class can reach. The `Table` that
  `getTable` and `createTable` return and the public `restoreSnapshot` are left out (section 5).
  UPDATE may replace any subset of the rows by any input rows, and DELETE may
  keep any of them, so this model does not depend on expressions. `Save` and
  `Reopen` are one step here: `PersistenceManager` opens them up. Auto-save is
  off, the default of `Database.open`; AsyncDatabase has it.
* **PersistenceManager** is `load`, `save` and `recover` with one step for each
  awaited file operation. `pc` is the line of `persistence-manager.ts` at which
  the process waits, so each action can be laid beside its line. Every save
  attempt writes a version of its own (`attempts`); `dir` says which version each
  of the three files holds, `whole` which versions were written completely, and
  `synced` and `disk` what survives a power failure. A rejected save leaves the
  process running, a rejected load gives no database and is followed by another
  open.
* **DurableStore** is the abstract specification of the same: a register whose
  write may end undecided. Its state is the set of versions the next load may
  return. `PersistenceManager!ImplementsStore` is the refinement: the candidates
  are the readable versions in the directory, or "nothing saved" if there are none.

**Callers.**

* **AsyncDatabase** is `executeAsync`: statements, transactions, atomic scripts,
  auto-save and SAVE of several callers on one database. Up to the snapshot that a
  save writes a statement runs synchronously, so it is one step, and so is a
  whole atomic script; then the caller is in `saving` until `SaveSucceeds` or
  `SaveFails`, where `markClean` comes, and the others go on. A transaction
  belongs to the database, not to a caller, so one caller's COMMIT can end
  another's BEGIN. `candidates` is what the next open may find, as in
  DurableStore. Two saves that overlap write the same `.tmp` and `.bak`; the
  model lets them leave any version they involve, or nothing readable.
* **Scripts** is `ScriptExecutor.executeAsync` over it: scripts statement by
  statement, with the record of each, and the atomic mode on an internal snapshot
  with its refusals. `ImplementsAsyncDatabase` is the refinement: it forgets scripts
  and records, and an atomic script becomes one step. `made` is a history
  variable, to compare what a script reports with what it did.

**Language and queries.**

* **Lexer** and **Parser** are the recursive descent, as operators on sequences.
  A text is a sequence of pieces: a character, or a run of letters, which the
  lexer never looks into but to fold its case. A parser is a record of its tokens,
  its position, whether it has thrown, and what the methods have returned so far;
  each method of the code is an operator on it, and `Call` names those that call
  each other. Every statement of the grammar is there.
* **Ast** has the nodes that the parser makes. **Scalars** has the values, their
  comparison, `truth-value.ts`, and AND and OR with their short-circuits
  (`EvaluateLogical`). Every `ExecutionError` is one value. For reference there is Kleene's
  logic (`Kleene`), and what it makes of errors if the left operand is evaluated first
  and the right one only if it is needed (`ThreeValued`).
* **Expressions** is `evaluateScalar`, `evaluatePredicate`, and the formatter that makes
  labels, over trees of any depth. `NumberText` is `String(value)` of a number: digits, an
  exponent from `ExponentFrom` on, and `Infinity` from `InfiniteFrom` on. The two limits
  stand for 10^21 and 2^1024, scaled to 100 and 1000 so that a text of a few digits reaches them.
* **StatementTexts** is what is known of statements without parsing them: how many the
  editor counts (`DetectStatementMode`, a scan over characters), up to which token the
  script parser takes one, and the text it records for it (`StatementEnd`, `Slice`).
* **CreateTable** is what CREATE TABLE makes of its columns and of its table constraints,
  which the executor applies one after the other, and what the storage makes of those.
* **Language** is the way of a text from the editor to its statements (`ParseScript`).
  Its state is a text that is typed. It also has the left-recursive grammar of expressions for reference (`Trees`).
* **Query** is SELECT from its names to its labels, and the rows that INSERT,
  UPDATE and DELETE leave; its state is the rows of the tables. A joined row has the
  position of the row it took from each relation, because the code finds rows
  without a match by their identity. The executors call the evaluator and the
  formatter and look at no more than what these return, so Query takes them as
  constants (`ScopedScalar`, `ScopedPredicate`, `SubexpressionsOf`, `TextOf`).
  `localeCompare` is another (`LocaleBefore`, on the `Texts` that rows hold): it belongs to
  the JavaScript runtime, and is assumed to be a strict weak order (`LocaleAssumption`).
  A query whose ORDER BY meets values of different types is refused, as the code throws
  TYPE_MISMATCH when the sort compares them. MCQuery gives Query what Expressions
  computes, and statements out of Parser; the theorems hold for any evaluator.
* **Lists** is `Array.prototype.filter`, by a recursive function on the indices that
  proofs can unfold, and `Array.prototype.sort`, as the arrangement of the positions that
  puts each after those that come before it (`Sorted`).

**Workbench.**

* **BrowserClient** has operators and no actions: for each call of
  `LocalKansoClient` the set of clients it may leave, because its callers go on
  with the result in the same event. A localStorage rename is a read, a copy and a
  remove, and any copy may be refused for the quota (`MaxRefusals`), and so may the
  list of names that a new database is entered in (`rememberBrowserDatabase`).
* **QueryTabs** and **QueryHistory** are the two hooks, with the timers that store
  what is in memory and the copies in localStorage. The tabs are stored in two writes,
  the tabs and then the active one; localStorage may refuse either, and the call ends
  there (`StoreTabs`). `tabsWritten` is a history variable: what was accepted since the
  last change. `historyTimers` has, for each timer of the history that runs, the entries
  that its effect saw.
* **Workbench** composes them. A step is an event with everything its handlers
  await. `session` is what the screen shows, and by it the safeguard decides;
  that it equals the client's own is a property and not a definition.

**MCDatabase**, **MCPersistence**, **MCScripts**, **MCLanguage**, **MCQuery** and
**MCWorkbench** give the constants their values for TLC; **MCAsyncRace** is a program
that never has two saves under way. Operators with a comment that
begins "Variant" are faulty versions of the operator that follows them. No
specification uses them; each property of a run was seen to fail when the variant
takes the operator's place.

The modules that end in **Proofs** have the theorems of section 4, and the lemmas they
rest on; ListsProofs has lemmas only.

## 3. Runs

| Run | Asks | Bounds |
|---|---|---|
| `database_sql` | rollback, save and constraints of the SQL interface, for a table and one that refers to it, and for one that refers to itself | 2 rows per table; values 0, -0 and 1, the reference NOT NULL; to itself 0, 1 and NULL |
| `database_api` | types, constraints and reopening with dropTable, tables recreated under a name with other columns, tables without columns | 1 row, INTEGER and TEXT, the reference nullable |
| `database_drop` | that rollback stays possible after dropTable: **violated** | as `database_api` |
| `persistence_crash` | crashes and failed operations: refinement of DurableStore, and that the database opens again | 3 saves, 2 crashes, 2 failed operations |
| `persistence_faults` | acknowledged saves survive, loads are recent and never go back, the last readable file is kept | power: 3 saves, 2 power failures, 1 crash, 1 failed operation; reads: 3 saves, 1 failed read, 2 crashes, 2 failed operations; found files: 1 save after any directory, 1 crash, 1 failed operation |
| `persistence_unreadable` | the same with two failed reads: **violated** | 2 saves, 1 crash, 1 failed operation, 2 failed reads |
| `scripts` | two callers with scripts: what they report, what they leave in the file, refinement of AsyncDatabase | 2 changes, 4 scripts of two statements, modes off and on-commit |
| `async_race` | clean means saved, with one save under way at most and calls meanwhile: **violated** | 2 callers, 1 change |
| `workbench` | sessions, quota, safeguard, tabs and history | 6 users, 3 changes, 1 refused write, up to 3 tabs |
| `workbench_dialog` | that no database is left with a transaction: **violated** | the user of the dialogs |
| `language` | mode, slices, grammar, labels, logic, constraints | 7 keyboards, 4 to 6 chunks |
| `query` | joins, groups, orders, and UPDATE and DELETE against SELECT | 3 rows in all, 25 SELECT and 20 other statements |

**Database bounds.** A violation of a constraint needs at most two rows (two
equal keys) or one row on each side of a foreign key, and an update that moves
several keys at once needs two rows; the checks never look at more rows together.
Two tables are enough for both directions of a reference; the third role, a table
that is not involved, is played by the parent when the child is changed. A table that
refers to itself plays both roles at once; two rows are enough for one statement to
change a key and the reference to it; beside it there is no other table (`TreeIsAlone`).
States with two full tables are checked and not continued (`RoomIsLeft`), because three
rows are enough for an update of two keys with a reference to one of them. 0, -0 and 1 are two values that one comparison tells apart and another does not, and one
that differs from both. The properties of these runs are also proved without bounds (section 4).

**Persistence bounds.** One save passes through every line of `save`; a crash in
it and a crash in the recovery that follows reach every combination of files, and
a third save starts from the result of both. `persistence_faults` does not rely
on that: some of its behaviours start from all 27 states of a directory with three
files. TLC does not check for deadlock in these runs, because after the last save and
the last fault nothing is left to do.

**Script bounds.** A version is only compared with others, and a violation needs
one before BEGIN and one inside the transaction. The scripts have a BEGIN that one
caller leaves to the other, a COMMIT with a statement that must fail after it, two
changes (the atomic case), and a query with a SAVE; statements, saves and restarts
fail and interleave at every await without bound. The callers are symmetric.
`AutoSaved` does not ask anything after a failed auto-save or a mode that was
switched on while changes were unsaved (`excused`), because the code does not retry
either, and `CleanIsSaved` and `AutoSaved` do not ask anything after a call that was
made while another awaited a save (`overlapped`): that is finding 3.

**Language bounds.** A keyboard has the chunks that one part of the code tells
apart: all characters for the editor and the lexer; statements with strings;
operators of every level, signs and parentheses; predicates whose operands are
unknown, errors or neither; constraints in every order; the clauses of SELECT. A *careful*
user goes on only from texts that may become a statement, which leaves out
nothing, for a parser that reads from the left. Parser and formatter look one
operator up and one down, which needs three. The keyboard of the labels has numbers on
both sides of the two limits of `NumberText`.

**Query bounds.** The states are all rows that the statements can leave, up to the
limit, so each SELECT meets equal rows, rows that are all NULL and empty tables in
every order. Two LEFT JOINs in a row need three relations, a group of two
and another need three rows, which one table can have, or both together. `a`, `A` and `b` are values whose two orders differ.

**Workbench bounds.** The users differ in the kinds of events that they take part
in; the properties relate events of one user's kinds. The history's limit
(`MAX_HISTORY_ENTRIES`) is 2 and not 200. One write is refused, at any place: a copy in a
save or a recovery, the name of a new database, the tabs, their active one, or the history.
Three tabs, of one user, have two to close around a third. Versions are bounded at 3:
the empty tables, those of the demo and two changes.

**Fairness.** Only `persistence_crash` checks liveness, with weak fairness of
`Step`: a file operation that was started is answered, and a database that
is down is opened again. Faults and new saves are not fair; `Reopens` says that
when faults end, an open succeeds. The timers of tabs and history need none: what
is asked of them is asked of the state after they have fired.

**The disk.** In `PowerFailure` changes of the directory reach the disk in their
order and the contents of a file only for certain when it was synced; that is what
`syncFile` before the renames and `syncDirectory` after them are written for.

**Findings.**

1. `dropTable` leaves foreign keys declared on the table it drops. `BEGIN` then
   succeeds and `ROLLBACK` fails for ever (`database_drop`: create parent,
   create child, drop parent, BEGIN). Only the API reaches it: SQL has no DROP.
2. `isValid` takes a file it cannot read for a corrupt one, and recovery
   removes it. One such read is harmless (`persistence_faults`); two of them lose an
   acknowledged save (`persistence_unreadable`: a save that fails, a recovery that cannot
   read the final file, a crash, a recovery that cannot read the `.tmp`).
3. `save` marks the database clean after the file is written, although another
   caller may have changed the tables meanwhile; the flag is then clean for a change
   that is in memory only (`async_race`: SAVE by one caller, a change by another, the
   save succeeds), where `tests/integration/persistence-workflow.test.ts` expects
   `dirty` to be true for an insert that is in memory only. Only one save is under way, so
   these are not the concurrent writers that the project's README excludes: `save` returns a
   promise, and `insertRow` and the others are synchronous. Callers that wait for the
   saves of others cannot produce it, and neither can the browser.
4. The command palette opens the database dialog without the safeguard for
   transactions, and the dialog replaces the database without it (`workbench_dialog`:
   BEGIN, palette, another database). The menu asks first.

**Seen while modelling**, and stated by the models rather than checked against
a promise:

* The two modes of auto-save differ in name only: a mutation outside a
  transaction is saved at once in both, although the settings describe "On commit" as
  saving after COMMIT.
* A foreign key value 0 is refused when the parent has -0, and accepted after a
  reopening, when both are 0.
* `a INTEGER NULL, PRIMARY KEY (a)` is accepted, `a INTEGER NULL PRIMARY KEY` is not.
* A comparison on the left of another comparison or of IS NULL is labelled
  without parentheses, and the label does not parse. A number is labelled as
  `String(value)` writes it, and the lexer reads neither `1e+21` nor `Infinity`
  (`LabelsParseBack` says exactly which labels do not parse). Two labels that differ in letter case only are refused as duplicates.
* A join condition may name a relation that is joined later, and is then UNKNOWN.
  ORDER BY is validated only when there are rows, and the qualifier of a column in
  UPDATE and DELETE only when a row is evaluated.
* ORDER BY, MIN and MAX compare texts by `localeCompare`, `<` by characters.
  ORDER BY `t.a` fails in a grouped query whose label is `a`.
* The example queries are loaded again when the workspace is mounted again.
* A database that cannot be opened leaves the status of the one before; if it is the
  one of the page, "Loading KansoDB..." stays.
* The auto-save preference is applied when the workspace is mounted and when it
  changes, and not to a database that is opened later.
* `loadExampleDatabase` leaves `.tmp`: a version that was never acknowledged may
  come back.
* What is removed from the history within 250 ms of a page load, and a tab
  within 300 ms, is as if it had not happened. Clearing the history is immediate.
* The timers that store tabs and history do not catch what `setItem` throws at the quota.
  A page that is loaded then finds the tabs, or the history, of an earlier time; or the new
  tabs and the active one of the old, and makes the first tab active if that one is gone.
* A new database whose name localStorage refuses is not opened, and the one before it stays.

## 4. Proofs

The provers check each theorem for every value of the constants. TLC checked the
invariants that they are proved from on the runs' instances first.

`DatabaseProofs` proves, for all table names, column names, types, values, create
statements and any `JsonOf` that keeps types and changes nothing twice, from
`TableAssumption` and `DatabaseAssumption` (NULL is not a value, "no reference" is
not a reference, a CREATE TABLE statement has a column):

| Theorem | Says |
|---|---|
| `CodecRoundTrip` | reading what was written gives the same tables, but for the values JSON changes |
| `TypeCorrect` | `ApiSpec => []TypeOK` |
| `ConstraintsAlwaysHold` | `ApiSpec => []ConstraintsHold` |
| `RollbackAlwaysPossible` | `Spec => []RollbackPossible` |
| `AlwaysSaveable` | `Spec => []StateSaveable` |
| `ReopenAlwaysPossible` | `ApiSpec => []ReopenPossible` |
| `CleanAlwaysSaved` | `ApiSpec => []CleanIsSaved` |

`AsyncProofs` proves, for any callers and any number of versions, from
`AsyncAssumption` (the two markers are no version and no save):

| Theorem | Says |
|---|---|
| `AsyncTypeCorrect` | `Spec => []TypeOK` |
| `FileAlwaysCommitted` | `Spec => []FileIsCommitted` |
| `CleanAlwaysMeansSaved` | `Spec => []CleanIsSaved` |
| `AutoSaveAlwaysSaves` | `Spec => []AutoSaved` |

`PersistenceProofs` proves, for any number of saves and of each fault.
`SpecAnywhere` starts from a path where nothing was saved or from any directory of the
three files:

| Theorem | With | Says |
|---|---|---|
| `TypeCorrect` | any faults | `SpecAnywhere => []TypeOK` |
| `ReadableKept` | any faults | `SpecAnywhere => LastReadableKept` |
| `AckedSurvivesFaults` | `PowerOrMisread` | `SpecAnywhere => []AckedSurvives` |
| `LoadsAreRecent` | `PowerOrMisread` | `SpecAnywhere => LoadIsRecent` |
| `LoadsOnlyAdvance` | `OneMisread` | `SpecAnywhere => LoadsNeverGoBack` |
| `ImplementsDurableStore` | `StopsOnly` | `Spec => ImplementsStore` |

Crashes and failed operations are unbounded in all of them. `PowerOrMisread` is any
number of power failures, or one failed read; `OneMisread` is at most one failed read;
`StopsOnly` is neither kind. No more holds of the code: two failed reads lose an
acknowledged save (finding 2), and so does one together with a power failure, because
a recovery that could not read the final file takes a `.tmp` in its place whose
contents may not be on the disk. DurableStore promises nothing about a disk that loses
what it was given.

`ScriptsProofs` proves, for any callers, scripts and number of versions, from
`AsyncAssumption` and `ScriptAssumption` (a script is a sequence of the kinds of
statements):

| Theorem | Says |
|---|---|
| `ScriptsTypeCorrect` | `SpecScripts => []ScriptsTypeOK` |
| `ReportsAlwaysMatch` | `SpecScripts => []ReportsMatchEffects` |
| `ScriptsImplement` | `SpecScripts => ImplementsAsyncDatabase` |
| `ScriptsKeepFile` | `SpecScripts => [](FileIsCommitted /\ CleanIsSaved /\ AutoSaved)` |

`WorkbenchProofs` proves, for any users, names, texts, limits, and number of versions and of
refused writes:

| Theorem | Says |
|---|---|
| `WorkbenchTypeCorrect` | `Spec => []TypeOK` |
| `ShownAlwaysReal` | `Spec => []ShownIsReal` |
| `CleanAlwaysStored` | `Spec => []CleanMeansStored` |
| `MenuAlwaysKeeps` | `Spec => []MenuKeepsTransactions` |
| `AlwaysOneActiveTab` | `Spec => []OneActiveTab` |
| `DetailsAlwaysHaveEntries` | `Spec => []DetailsHaveEntries` |
| `GoneForGood` | `Spec => []GoneStaysGone` |
| `ReloadsKeepTabs` | `Spec => ReloadKeepsTabs`, of what localStorage accepted |

`QueryProofs` proves, for any tables, statements and number of rows, and any evaluator and
formatter, from `QueryAssumption` (what the parser and CREATE TABLE have seen to: the
columns of a table differ in name, GROUP BY names a column, LIMIT is a number) and
`LocaleAssumption` (some texts come before others, as in any alphabet):

| Theorem | Says |
|---|---|
| `QueryTypeCorrect` | `Spec => []TypeOK` |
| `JoinsAlwaysComplete` | `Spec => []JoinsAreComplete` |
| `MutationsAlwaysTouchWhatSelectShows` | `Spec => []MutationsTouchWhatSelectShows` |
| `GroupsAlwaysClasses` | `Spec => []GroupsAreClasses` |
| `OrderAlwaysRespected` | `Spec => []OrderIsRespected` |

`TextProofs` proves, for every text, without an assumption:

| Theorem | Says |
|---|---|
| `TokensTileText` | the tokens of a text lie side by side with nothing but blanks between them, each is what is scanned where it begins, and they go up to the end or the error |
| `StatementsLexAlike` | the text that a script records for a statement has, on its own, the tokens the statement was parsed from, moved to where that text begins |
| `ModeCountsStatements` | for a text that lexes, the editor's mode is that of the number of statements its tokens make |
| `ShortCircuitsAreKleene` | AND and OR give what Kleene's logic gives, and an error if an operand is one, unless it is the right one and the left decides |
| `ColumnsAreDeclared` | a column of a new table is what all constraints together say of it, and the table is refused for a name twice, a constraint on no column, two keys, or two references of one column, and for nothing else in it; a primary key is NOT NULL and UNIQUE, whatever it was declared |
| `ConstraintsInEveryOrder` | with its columns and its constraints permuted, a CREATE TABLE is refused too, or makes the same columns, permuted |

The second and the third are what the lexer and the editor bring to `SlicesReparse` and
`ModeAgrees`; that the parser then makes the same of the same tokens, and takes one
statement up to each semicolon, is TLC's part. The fourth is `PredicatesAreKleene` for
one operator and any truth values of its operands. The last is `ConstraintsInAnyOrder` for
any number of columns and of table constraints, from the syntax tree on; how the parser
reads the constraints of one column in any order is TLC's part.

The argument, theorem by theorem:

* *Constraints.* `TypeOK /\ ConstraintsHold` is inductive, because a rollback and
  a reopening replace the tables only by what `Restorable` accepts, and what it
  accepts satisfies the constraints (`RestorableIsGood`). The statements share one
  lemma (`ValidatedRowsKeepGood`): if `TableStateValid` accepts the proposed rows
  of one table, the constraints hold for all tables, because the other tables'
  rows are unchanged and their references into this one are what
  `IncomingReferencesValid` looked at. A drop is the same with no rows.
* *Rollback and saving.* The invariant `SqlInv` says that the tables, the snapshot and
  what is read of the file are each *sound*: the constraints hold, every declared foreign
  key resolves to a unique column of its type, there is one primary key at most, and
  every table has a column. All three are needed, because ROLLBACK brings the
  snapshot back and a reopening the file. `SoundIsRestorable`, `SoundIsEncodable` and
  `EncodableIsSound` are the facts that join the database's checks to the codec's.
  A drop breaks soundness, which is why these theorems are about `Spec`; see finding 1.
* *The file.* `FileInv` says that the file is the persisted form of a sound
  database that JSON no longer changes. It holds because encode validates, and because
  JSON keeps soundness (`JsonKeepsSound`): the unique checks compare what JSON
  makes of the values, so rows that differ still differ, and two equal values stay equal,
  so references keep their rows. With unique checks that compare the values themselves
  the lemma is false, and so is `StateSaveable` (the variant `DifferentValues`).
* *Reopening.* With drops only the file stays sound (`SavedInv`): `encode` refuses what is not.
* *The dirty flag.* `CleanInv` adds what a rollback needs: if the flag remembered at
  BEGIN is FALSE, the snapshot equals the file. Equal means after JSON.
* *Interleaved callers.* `CommitInv`: the versions that were rolled back or are not
  committed are none of those in the file or in a save under way, and the snapshot
  is committed. It is inductive because a save starts only outside a
  transaction, where `uncommitted` is empty and the content was not taken back; the
  content itself must be known to be outside `undone`, and a new version to be
  larger than all in the file.
* *Clean means saved, and auto-save.* `QuietInv` and `AutoSaveInv` add, as long as no
  calls overlapped, that at most one save is under way, that it is alone and writes
  the content, and what the file holds while a transaction is active: the snapshot, if
  auto-save is on. A failed atomic script leaves the dirty flag set with nothing
  changed, so the flag and the file are related in one direction only.

* *Crash recovery.* The invariant `Careful` grows in layers: `Base` says which version may
  be in which file, `Shape` which of the files exist at each line, `Checked` and
  `Written` what the checks, the write and the sync before a line found or did. With it
  each remove and rename is seen to leave a readable file (`ReadableKept`). A
  version is *kept* by a directory (`Kept`) if the file that a recovery would take is as new and
  whole, and where one more read may fail, so is the file it would take then.
  `Acked` says that the acknowledged version is kept by every directory that a power
  failure may leave, and `Returned` the same of the version last returned.
  These are inductive; the properties themselves are not, because they say nothing
  of what a recovery is about to remove.
* *The durable store.* The candidates are the readable versions, and `NotYetWhole` says
  that the version a save is writing is not among them until its write ended. Then
  every file operation either leaves the candidates, or begins, decides or drops the
  write that is undecided.
* *Scripts.* `ScriptsInv` is `CommitInv` with, for each script, how far it is and whether it waits
  (`Progress`), and what its records tell of the versions it made (`Told`). With it a
  statement of a script is a step of AsyncDatabase's caller, and an atomic script one
  call. So the theorems of AsyncProofs hold of scripts too (`ScriptsKeepFile`).
* *The session.* `WorkbenchInv` joins what is true of the client, of the tabs, of the history and
  of the dialogs. `FileTells` says that a clean database is in localStorage, and that
  the tables a rollback would bring back as clean are too. `MenuSafe` says that a
  user who opens databases by the menu alone never has the dialog or its warning open, and
  has passed the onboarding while a transaction is active.
* *Tabs and history.* What localStorage accepted since the last change is what is shown, and
  every change empties `tabsWritten`; so nothing needs to be known of when the timer fires, or of
  what is refused. Stored tabs have different ids, whichever active tab is stored with them.
  `GoneStaysGone` needs that no id is given twice, to an entry that is gone, and that the
  timer that runs has seen the entries as they are.
* *Joins.* `RowsInv` says that each table is a list of rows of its schema. By induction on the
  number of joins the joined rows are those that fit the relations and meet the
  conditions so far, in the lexicographic order of their positions (`JoinedOK`). That the order is
  strict is what makes each of them come once.
* *UPDATE, DELETE and SELECT.* With one table, and no alias, a column resolves in the scope of the
  SELECT if and only if it is known in that of the mutation, and has the same value
  (`SameContext`). So the contexts are equal, and with them the evaluator's results.
* *Groups.* By induction on the rows that were put in groups (`GroupsOK`): each group has all rows with the
  key of its first row, in order, no two groups have the same key, and the first rows of
  the groups are in order. The last two make one group the place of a row.
* *Orders.* The values of one type are ordered by `Smaller`, a strict weak order for each
  type: fractions by cross multiplication, texts by `LocaleAssumption` (`SmallerOrders`). So
  the number of smaller values in a column, by which the property ranks a value, grows as
  the code's comparison says (`RanksAgree`), and the first item that tells two rows apart
  is the same for both (`FirstThatTells`). With ties left to the positions this is a strict total
  order, and sorting by it gives each position one place, as many as come before it
  (`SortedSorts`, by counting). LIMIT takes the first records of that.
* *Tokens.* `Tiles` says what the tokens of a text are without saying how they are found,
  and a text has them in one way only (`TilesAreTokens`). What is scanned at a place
  depends on the text up to the end of the token and the one piece after it. In a *window*, a
  part of the text that ends where a token ends, the same tokens are scanned, moved
  (`ScanInWindow`): a run of letters or digits ends there too, and so does a string,
  because the quote that closes it is not followed by another. So the moved tokens tile the window.
* *Statements counted.* Before each token the editor is in a statement if the token before it is
  no semicolon, and between statements otherwise (`TokensRead`). A token without quotes is passed over
  piece by piece (`PlainRead`), and a string by the lexer's own recursion from its end
  (`StringRead`), so quotes written twice are read alike. A semicolon that is counted is
  therefore a token, and no two are counted for one statement.
* *Constraints of a new table.* The executor changes the columns for each constraint in turn. If no
  two columns share a name, what it has after m constraints is what the first m say
  together (`Declared`), if they fit, and an error otherwise (`BuildsDeclared`). `Declared` and
  `Fit` are about sets of constraints, so their order does not matter
  (`ReorderedColumns`, `SoundInAnyOrder`). If two columns share a name, the names stay,
  and the storage refuses them in the end (`BuiltNames`).

Induction over the length of a list, or over the joins of a statement, is to rule out a
least counterexample (`LeastNumber`), because the library's induction theorems take an
operator as parameter. What a recursive function computes is known only once it is
shown to exist, which has lemmas of its own (`KeptExists`, `JoinsExist`, `GroupsExist`,
`RestExists`, `TokensExist`, `ReadingExists`, `BuiltExists`).

Only model-checked: liveness (`Reopens`), which is beyond the prover; and the
properties of Language, because Parser and Expressions are recursive operators over trees
and the SMT backend has no support for modules that reach one. TextProofs has what of
them is decided before a tree is built, at one node, or on a list of nodes.

## 5. Not modelled

* **`traceMapper.ts`, error and result mappers**: they derive what the inspector shows
  from the tokens, the tree and two snapshots; no later step reads it.
* **Presentational components, styles, examples**: rendering and sample data. Their
  callbacks are events of Workbench.
* **`expression-analyser.ts`, `sqlNot`**: no caller. **`aggregate-executor.ts`,
  `projection-executor.ts`**: wrappers without state around what Query models.
* **Wording and positions of errors.** A refusal is a refusal.
* **Numbers** are integers in Query, without overflow; decimals are written with the
  fraction 0, so labels of small numbers (`1e-7`) are not there, and those of large ones
  (`1e+21`, `Infinity`) are; AVG is a fraction of two integers, and `/` is taken where it is an
  integer. -0 is a value in Table, Codec and Database only.
* **Malformed files** (duplicate names, wrong JSON types): decode refuses them,
  which PersistenceManager has as files that are not whole.
* **localStorage**: the quota may refuse database files, names of new ones, tabs, the
  active tab and the history. The list of names is accepted when it has the demo
  database alone, and when it does not change. Preferences are stored without refusal:
  `saveUiPreferences` has no try/catch either, and an effect calls it, so a refusal takes
  the page down; what follows is a page load with the preferences that were stored.
* **Two ways past the Database class**: the rows of a `Table` that `getTable` or `createTable`
  returned can be changed without the checks between tables and without the dirty flag, and
  `restoreSnapshot` takes a snapshot at any time. Transactions and scripts restore
  snapshots, which is modelled; a `Table` is changed only by the sample program and by
  the wrapper around `JoinExecutor`, in databases of one table without a file.
* **Two savers**: what two overlapping saves leave is any version involved or
  nothing readable (`Leftovers`). The project README excludes concurrent writers.
* `cancelDisplay` of a running query takes effect only between two events, and no
  run of the browser client lasts that long, so it is not an action.

Worth adding next: the expressions over a bounded depth without recursive operators, so
that Kleene's logic could be proved of whole predicates.
