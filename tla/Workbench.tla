------------------------------ MODULE Workbench ------------------------------
(***************************************************************************)
(* The workbench: App.tsx and Workspace.tsx over the browser client, the   *)
(* query tabs and the history.  A step is an event (a click, a key, a      *)
(* timer, a page that is loaded) with everything its handlers await: none  *)
(* of these awaits waits for another event.  What React renders after an   *)
(* event is the state after the step.                                      *)
(*                                                                         *)
(* A user takes part in some kinds of events only (user, chosen in Init):  *)
(* it bounds the events that one behaviour combines.                       *)
(***************************************************************************)
EXTENDS BrowserClient, QueryTabs, QueryHistory

CONSTANTS
  Users,     \* [does : kinds of events, texts : SQL texts, tabs : how many tabs
             \*  the user opens, limit : MAX_HISTORY_ENTRIES]
  Loading,   \* sessionState is null
  NoWarning  \* transactionWarning is null

ASSUME WorkbenchAssumption ==
  /\ Texts \subseteq Seq(Statements) /\ <<>> \in Texts
  /\ \A u \in Users : u.texts \subseteq Texts /\ u.limit \in Nat
  /\ NoWarning \notin {"file", "memory", "dialog"}

VARIABLES
  session,     \* sessionState
  onboarded,   \* preferences.onboardingComplete
  autoSave,    \* preferences.autoSaveMode
  exampleLoad, \* exampleLoadToken > 0
  dialog,      \* databaseDialogOpen
  warning,     \* transactionWarning: the action that waits for an answer
  options,     \* atomicScript and stopOnError
  dropped,     \* history: a database was left with a transaction active
  user         \* the user's kinds of events

shellVars == <<onboarded, autoSave, exampleLoad, dialog, warning, options>>
vars == <<client, tabVars, historyVars, session, shellVars, dropped, user>>

Does(kind) == kind \in user.does
Mounted == onboarded /\ session # Loading
DefaultOptions == [atomic |-> FALSE, stopOnError |-> TRUE]

Init ==
  /\ user \in Users
  /\ \E c \in NewClients([n \in Names |-> [final |-> NoFile, tmp |-> NoFile]], {}, DemoTables, 0) :
       client = c /\ session = SessionOf(c)
  /\ InitTabs
  /\ InitHistory
  /\ onboarded = FALSE /\ autoSave = "off" /\ exampleLoad = FALSE
  /\ dialog = FALSE /\ warning = NoWarning /\ options = DefaultOptions
  /\ dropped = FALSE

----------------------------------------------------------------------------
(* The session that is shown.  onSessionStateRefresh asks the client for it; *)
(* a client whose database could not be opened rejects, and the shown one    *)
(* stays.                                                                    *)
Becomes(c) ==
  /\ client' = c
  /\ session' = IF c.db = Rejected THEN session ELSE SessionOf(c)

(* useQueryExecution and executeAdHocSql end a run alike, with a result or   *)
(* an error: a snapshot for the tab, a history entry, the session anew.      *)
Recorded ==
  IF activeTabId = NoTab THEN UNCHANGED <<tabVars, historyVars>>
  ELSE UpdateExecution(activeTabId) /\ AddHistoryRecord(user.limit)

(* Variant: a run that failed does not refresh the session.                  *)
RunRefreshesOnSuccess(statements) ==
  /\ \E r \in Runs(client, statements, options) :
       IF r.ok THEN Becomes(r.client) ELSE client' = r.client /\ UNCHANGED session
  /\ Recorded
  /\ UNCHANGED <<shellVars, dropped, user>>

Run(statements) ==
  /\ \E r \in Runs(client, statements, options) : Becomes(r.client)
  /\ Recorded
  /\ UNCHANGED <<shellVars, dropped, user>>

(* The client c is given another database, as applySessionChange does, or is *)
(* left as it is if the call fails before that.                              *)
Replace(c, clients) ==
  /\ \E d \in clients : Becomes(d)
  /\ dropped' = (dropped \/ (Active(c) /\ ~Active(client')))

(* setAutoSaveMode(...).then(onSessionStateChange)                           *)
AutoSaveBecomes(mode) == Becomes(WithAutoSave(client, mode))

----------------------------------------------------------------------------
(* The page, and the screens before the workspace.                           *)

(* The workspace is mounted; its effects load the example queries when the   *)
(* token says so, and set the auto-save mode to the preference.              *)
Mount(c, mode, examples) ==
  /\ client' = WithAutoSave(c, mode)
  /\ session' = SessionOf(client')
  /\ IF examples THEN MountExamples ELSE MountTabs

Reload ==
  /\ \E c \in NewClients(client.files, client.known, client.versions, client.refusals) :
       IF onboarded /\ c.db # Rejected
       THEN Mount(c, autoSave, FALSE)
       ELSE /\ client' = c
            /\ session' = IF c.db = Rejected THEN Loading ELSE SessionOf(c)
            /\ UnmountTabs
  /\ LoadHistory
  /\ exampleLoad' = FALSE
  /\ dialog' = FALSE /\ warning' = NoWarning /\ options' = DefaultOptions
  /\ UNCHANGED <<onboarded, autoSave, dropped, user>>

(* A database is chosen on the welcome screen.  If it cannot be opened, the  *)
(* welcome screen stays.                                                     *)
Start(kind, clients) ==
  /\ session # Loading /\ ~onboarded /\ Does(kind)
  /\ \E c \in clients :
       IF c.db = Rejected
       THEN client' = c /\ UNCHANGED <<session, tabVars, onboarded, exampleLoad>>
       ELSE /\ onboarded' = TRUE
            /\ exampleLoad' = (exampleLoad \/ kind = "example")
            /\ Mount(c, autoSave, exampleLoad')
  /\ dropped' = (dropped \/ Active(client))
  /\ UNCHANGED <<historyVars, autoSave, dialog, warning, options, user>>

StartExampleWorkspace == Start("example", ExampleDatabases(client))
StartMemoryWorkspace == Start("memory", MemoryDatabases(client))
OpenDefaultWorkspace == Start("open", FileDatabases(client, Demo))

----------------------------------------------------------------------------
(* Runs: the active tab, and the commands and buttons for one statement.     *)

RunTab ==
  /\ Mounted /\ Does("runs")
  /\ activeTabId # NoTab /\ ActiveTab.sql # <<>>
  /\ Run(ActiveTab.sql)

RunControl(statement) ==
  /\ Mounted /\ Does("runs")
  /\ statement \in {"begin", "commit", "rollback", "save"}
  /\ Run(<<statement>>)

SetScriptOptions ==
  /\ Mounted /\ Does("scripts")
  /\ options' \in [atomic : BOOLEAN, stopOnError : BOOLEAN]
  /\ UNCHANGED <<client, tabVars, historyVars, session, onboarded, autoSave,
                 exampleLoad, dialog, warning, dropped, user>>

----------------------------------------------------------------------------
(* Databases: DatabaseMenu with the safeguard for transactions, the palette  *)
(* and OpenDatabaseDialog without it.                                        *)

(* A menu item: a new browser file, a new database in memory, the dialog.    *)
Perform(c, item) ==
  CASE item = "file" ->
         /\ \E name \in Names \ c.known : Replace(c, FileDatabases(c, name))
         /\ UNCHANGED dialog
    [] item = "memory" -> Replace(c, MemoryDatabases(c)) /\ UNCHANGED dialog
    [] item = "dialog" -> Becomes(c) /\ dialog' = TRUE /\ UNCHANGED dropped

(* Variant: the action is performed whatever the session shows.              *)
WithoutSafeguard(item) == Perform(client, item) /\ UNCHANGED warning

WithTransactionSafeguard(item) ==
  IF session.active
  THEN warning' = item /\ UNCHANGED <<client, session, dialog, dropped>>
  ELSE Perform(client, item) /\ UNCHANGED warning

Menu(item) ==
  /\ Mounted /\ activeTabId # NoTab
  /\ Does(IF item = "dialog" THEN "dialog" ELSE "databases")
  /\ WithTransactionSafeguard(item)
  /\ UNCHANGED <<tabVars, historyVars, onboarded, autoSave, exampleLoad, options, user>>

(* rollbackThenContinue: whatever becomes of the rollback.                   *)
RollbackThenContinue ==
  /\ Mounted /\ warning # NoWarning
  /\ \E r \in Runs(client, <<"rollback">>, options) : Perform(r.client, warning)
  /\ warning' = NoWarning
  /\ Recorded
  /\ UNCHANGED <<onboarded, autoSave, exampleLoad, options, user>>

CancelWarning ==
  /\ Mounted /\ warning # NoWarning
  /\ warning' = NoWarning
  /\ UNCHANGED <<client, tabVars, historyVars, session, onboarded, autoSave,
                 exampleLoad, dialog, options, dropped, user>>

OpenDialog ==
  /\ Mounted /\ Does("dialog")
  /\ dialog' = TRUE
  /\ UNCHANGED <<client, tabVars, historyVars, session, onboarded, autoSave,
                 exampleLoad, warning, options, dropped, user>>

CloseDialog ==
  /\ Mounted /\ dialog
  /\ dialog' = FALSE
  /\ UNCHANGED <<tabVars, historyVars, onboarded, autoSave, exampleLoad, warning,
                 options, user>>

CancelDialog == CloseDialog /\ UNCHANGED <<client, session, dropped>>

(* onCreateFile with any name, and onOpen with one of the known names.       *)
DialogFile(name) == CloseDialog /\ Replace(client, FileDatabases(client, name))

DialogMemory == CloseDialog /\ Replace(client, MemoryDatabases(client))

----------------------------------------------------------------------------
(* Settings.                                                                 *)

SetAutoSave(mode) ==
  /\ Mounted /\ Does("settings") /\ activeTabId # NoTab
  /\ AutoSaveBecomes(mode)
  /\ UNCHANGED <<tabVars, historyVars, shellVars, dropped, user>>

(* An effect gives a preference that changed to the database that is open.   *)
ChangePreference(mode) ==
  /\ Mounted /\ Does("settings") /\ mode # autoSave
  /\ autoSave' = mode
  /\ AutoSaveBecomes(mode)
  /\ UNCHANGED <<tabVars, historyVars, onboarded, exampleLoad, dialog, warning,
                 options, dropped, user>>

(* defaultUiPreferences bring the welcome screen back.                       *)
ResetPreferences ==
  /\ Mounted /\ Does("reset")
  /\ onboarded' = FALSE /\ autoSave' = "off"
  /\ UnmountTabs
  /\ dialog' = FALSE /\ warning' = NoWarning /\ options' = DefaultOptions
  /\ UNCHANGED <<client, historyVars, session, exampleLoad, dropped, user>>

----------------------------------------------------------------------------
(* Tabs and history.                                                         *)

(* localStorage refuses a write of the tabs or the history.                  *)
Refused ==
  /\ client.refusals < MaxRefusals
  /\ client' = [client EXCEPT !.refusals = @ + 1]

OnTabs ==
  /\ Mounted
  /\ UNCHANGED <<client, historyVars, session, shellVars, dropped, user>>

OpenTab(sql) == Len(tabs) < user.tabs /\ AddTab(sql)

EditTab(sql) ==
  OnTabs /\ Does("edits") /\ activeTabId # NoTab /\ UpdateSql(activeTabId, sql)

TabEvent ==
  /\ OnTabs /\ Does("tabs")
  /\ \/ OpenTab(<<>>)
     \/ \E i \in DOMAIN tabs :
          \/ RequestClose(tabs[i])
          \/ SelectTab(tabs[i].id)
          \/ Does("edits") /\ RenameTab(tabs[i].id)
     \/ Does("edits") /\ activeTabId # NoTab /\ SaveTab(activeTabId)
     \/ ConfirmClose
     \/ CancelClose

TabsTimer ==
  /\ Mounted /\ Does("tabs")
  /\ \E written \in Writes :
       /\ StoreTabs(written)
       /\ IF written = Everything THEN UNCHANGED client ELSE Refused
  /\ UNCHANGED <<historyVars, session, shellVars, dropped, user>>

(* reopenSql, and replaceCurrentSql for an entry or for a loaded script.     *)
Reopen(sql) == OnTabs /\ Does("history") /\ OpenTab(sql)

ReplaceCurrent(sql) ==
  /\ OnTabs /\ Does("history")
  /\ IF activeTabId = NoTab THEN OpenTab(sql) ELSE UpdateSql(activeTabId, sql)

HistoryEvent ==
  /\ Mounted /\ Does("history")
  /\ UNCHANGED <<client, tabVars, session, shellVars, dropped, user>>
  /\ ClearHistory \/ \E id \in Range(entries) : RemoveHistoryEntry(id)

(* The hook belongs to App, and is there from the first moment on.           *)
HistoryTimer ==
  /\ Does("history")
  /\ \/ StoreHistory /\ UNCHANGED client
     \/ StoreHistoryRefused /\ Refused
  /\ UNCHANGED <<tabVars, session, shellVars, dropped, user>>

----------------------------------------------------------------------------
Next ==
  \/ Reload
  \/ StartExampleWorkspace \/ StartMemoryWorkspace \/ OpenDefaultWorkspace
  \/ RunTab \/ SetScriptOptions
  \/ \E statement \in Statements : RunControl(statement)
  \/ \E item \in {"file", "memory", "dialog"} : Menu(item)
  \/ RollbackThenContinue \/ CancelWarning
  \/ OpenDialog \/ CancelDialog \/ DialogMemory
  \/ \E name \in Names : DialogFile(name)
  \/ \E mode \in AutoSaveModes : SetAutoSave(mode) \/ ChangePreference(mode)
  \/ ResetPreferences
  \/ TabEvent \/ TabsTimer
  \/ \E sql \in user.texts : EditTab(sql) \/ Reopen(sql) \/ ReplaceCurrent(sql)
  \/ HistoryEvent \/ HistoryTimer

Spec == Init /\ [][Next]_vars

----------------------------------------------------------------------------
(* Properties.                                                               *)

TypeOK ==
  /\ client.db \in Databases \cup {Rejected}
  /\ client.known \subseteq Names
  /\ client.databaseName \in Names \cup {NoPath}
  /\ (client.storageKind = "memory") <=> (client.databaseName = NoPath)
  /\ warning \in {"file", "memory", "dialog", NoWarning}
  /\ options \in [atomic : BOOLEAN, stopOnError : BOOLEAN]
  /\ TabsTypeOK

(* The session that the workbench shows, and by which its safeguard and its  *)
(* buttons decide, is that of the open database after every event, also      *)
(* after a run that failed, a failed save, or a mount with its effects; an   *)
(* open that failed is the only exception.                                   *)
ShownIsReal ==
  session # Loading /\ client.db # Rejected => session = SessionOf(client)

(* When the status says Clean for a browser file, a page that is loaded      *)
(* finds these tables in the file or in its .tmp, whatever writes            *)
(* localStorage refused.                                                     *)
CleanMeansStored ==
  client.db # Rejected /\ client.db.path # NoPath /\ ~client.db.dirty =>
    Stored(client.files[client.db.path]) = client.db.content

(* For a user who creates databases with the menu alone no transaction is    *)
(* left behind: the safeguard, which decides by the session shown, stops the *)
(* action, and rolls back before it goes on.                                 *)
MenuKeepsTransactions ==
  {"dialog", "reset"} \cap user.does = {} => ~dropped

(* TransactionWarningDialog: no database is left with a transaction active.  *)
TransactionKept == ~dropped

(* What localStorage has accepted of the tabs since they were last changed,  *)
(* a page that is loaded shows: the same tabs, which ask no more about those *)
(* that were saved, and the same one active.                                 *)
ReloadKeepsTabs ==
  [][Reload /\ Mounted /\ session' # Loading /\ tabs # <<>> =>
       /\ "tabs" \in tabsWritten => tabs' = tabs
       /\ "active" \in tabsWritten => activeTabId' = activeTabId]_vars
============================================================================
