------------------------------ MODULE QueryTabs ------------------------------
(***************************************************************************)
(* The query tabs (frontend/src/features/editor/useQueryTabs.ts and        *)
(* queryTabStorage.ts).  Tabs are in memory; an effect saves them to       *)
(* localStorage 300 ms after the last change, in two writes, of which      *)
(* either may be refused at the quota; and a page that is loaded begins    *)
(* with what it finds there.                                               *)
(***************************************************************************)
EXTENDS Lists, FiniteSets, Functions

CONSTANTS
  Texts,        \* the SQL texts: sequences of statements
  InitialSql,   \* INITIAL_SQL, the text of the default tab
  ExampleSql,   \* the texts of exampleQueries, a sequence
  NoTab         \* no active tab, or no tab to be closed

ASSUME TabsAssumption ==
  /\ InitialSql \in Texts
  /\ ExampleSql \in Seq(Texts) /\ ExampleSql # <<>>
  /\ NoTab \notin Nat

VARIABLES
  tabs,         \* the tabs: id, SQL text and isDirty
  activeTabId,
  tabsTimer,    \* the tabs are to be saved
  storedTabs,   \* localStorage: tabs and active tab
  closing,      \* closeConfirmation: the tab that is to be discarded
  tabsWritten   \* history: what localStorage accepted since the last change

tabVars == <<tabs, activeTabId, tabsTimer, storedTabs, closing, tabsWritten>>

(* The tabs are written first; without them, their active tab is not.        *)
Everything == {"tabs", "active"}
Writes == {{}, {"tabs"}, Everything}

Ids(ts) == {ts[i].id : i \in DOMAIN ts}

(* createQueryTabId: ids that are not in use (UUIDs).                        *)
FreshIds(n) ==
  LET used == Ids(tabs) \cup Ids(storedTabs.tabs) \cup {closing}
  IN  CHOOSE ids \in [1..n -> (1..(n + Cardinality(used))) \ used] : IsInjective(ids)

NewTab(id, sql) == [id |-> id, sql |-> sql, isDirty |-> FALSE]

(* The tab that is active, with its text.                                    *)
ActiveTab == CHOOSE t \in Range(tabs) : t.id = activeTabId

NoTabs == [tabs |-> <<>>, active |-> NoTab]

(* loadStoredQueryTabs: without tabs in localStorage, one default tab; and   *)
(* the first one is active if the stored active tab is not there.            *)
Restored(stored, id) ==
  IF stored.tabs = <<>>
  THEN [tabs |-> <<NewTab(id, InitialSql)>>, active |-> id]
  ELSE [stored EXCEPT !.active =
          IF @ \in Ids(stored.tabs) THEN @ ELSE stored.tabs[1].id]

Show(state) == tabs' = state.tabs /\ activeTabId' = state.active

----------------------------------------------------------------------------
Touched == tabsTimer' = TRUE /\ tabsWritten' = {}

(* The hook is not mounted: no tabs are in memory, and no timer runs.        *)
InitTabs ==
  /\ storedTabs = NoTabs
  /\ tabs = <<>>
  /\ activeTabId = NoTab
  /\ tabsTimer = FALSE
  /\ tabsWritten = {}
  /\ closing = NoTab

(* The hook is unmounted; its effect takes the timer with it.                *)
UnmountTabs ==
  /\ Show(NoTabs)
  /\ tabsTimer' = FALSE /\ tabsWritten' = {}
  /\ closing' = NoTab
  /\ UNCHANGED storedTabs

MountTabs ==
  /\ Show(Restored(storedTabs, FreshIds(1)[1]))
  /\ Touched
  /\ closing' = NoTab
  /\ UNCHANGED storedTabs

(* loadTabs with exampleQueries, in an effect of the mount.                  *)
MountExamples ==
  /\ LET ids == FreshIds(Len(ExampleSql))
     IN  Show([tabs |-> [i \in DOMAIN ExampleSql |-> NewTab(ids[i], ExampleSql[i])],
               active |-> ids[1]])
  /\ Touched
  /\ closing' = NoTab
  /\ UNCHANGED storedTabs

AddTab(sql) ==
  /\ LET id == FreshIds(1)[1]
     IN  Show([tabs |-> Append(tabs, NewTab(id, sql)), active |-> id])
  /\ Touched
  /\ UNCHANGED <<storedTabs, closing>>

(* Variant: the neighbour is looked up in the tabs before the close.         *)
NextActiveBefore(ts, id, rest) ==
  LET i == CHOOSE j \in DOMAIN ts : ts[j].id = id
  IN  IF rest = <<>> THEN NoTab
      ELSE ts[IF i <= Len(rest) THEN i ELSE Len(rest)].id

(* findNextActiveTabId: the tab that takes the place of the closed one, or   *)
(* the last.                                                                 *)
NextActive(ts, id, rest) ==
  LET i == CHOOSE j \in DOMAIN ts : ts[j].id = id
  IN  IF rest = <<>> THEN NoTab
      ELSE rest[IF i <= Len(rest) THEN i ELSE Len(rest)].id

(* closeTab; nothing happens to the tabs if there is no such tab.            *)
CloseTab(id) ==
  LET rest == Without(tabs, {i \in DOMAIN tabs : tabs[i].id = id})
  IN  /\ Show([tabs |-> rest,
               active |-> IF activeTabId # id THEN activeTabId
                          ELSE NextActive(tabs, id, rest)])
      /\ Touched
      /\ UNCHANGED storedTabs

(* requestCloseTab: a tab with changes is closed after a confirmation.       *)
RequestClose(tab) ==
  IF tab.isDirty
  THEN closing' = tab.id /\ UNCHANGED <<tabs, activeTabId, tabsTimer, storedTabs, tabsWritten>>
  ELSE CloseTab(tab.id) /\ UNCHANGED closing

ConfirmClose ==
  /\ closing # NoTab
  /\ CloseTab(closing)
  /\ closing' = NoTab

CancelClose ==
  /\ closing # NoTab
  /\ closing' = NoTab
  /\ UNCHANGED <<tabs, activeTabId, tabsTimer, storedTabs, tabsWritten>>

SelectTab(id) ==
  /\ activeTabId' = id
  /\ Touched
  /\ UNCHANGED <<tabs, storedTabs, closing>>

UpdateTab(id, Update(_)) ==
  /\ tabs' = [i \in DOMAIN tabs |-> IF tabs[i].id = id THEN Update(tabs[i]) ELSE tabs[i]]
  /\ Touched
  /\ UNCHANGED <<activeTabId, storedTabs, closing>>

(* updateTabExecution, updateTabSql, renameTab and saveTab.  What a tab shows *)
(* of an execution is not kept here.                                         *)
UpdateExecution(id) == UpdateTab(id, LAMBDA t : t)

UpdateSql(id, sql) ==
  UpdateTab(id, LAMBDA t : [t EXCEPT !.sql = sql, !.isDirty = TRUE])

RenameTab(id) == UpdateTab(id, LAMBDA t : [t EXCEPT !.isDirty = TRUE])

SaveTab(id) == UpdateTab(id, LAMBDA t : [t EXCEPT !.isDirty = FALSE])

(* Variant: the active tab is not saved.                                     *)
StoreTabsOnly(written) ==
  /\ tabsTimer
  /\ storedTabs' = IF "tabs" \in written THEN [storedTabs EXCEPT !.tabs = tabs] ELSE storedTabs
  /\ tabsTimer' = FALSE
  /\ tabsWritten' = written
  /\ UNCHANGED <<tabs, activeTabId, closing>>

(* saveStoredQueryTabs, when the timer fires: localStorage accepts what is   *)
(* in written, and the first write that it refuses ends the call.  That no   *)
(* tab is active is a key that is removed, which is never refused.           *)
StoreTabs(written) ==
  /\ tabsTimer
  /\ written = {"tabs"} => activeTabId # NoTab
  /\ storedTabs' =
       [tabs |-> IF "tabs" \in written THEN tabs ELSE storedTabs.tabs,
        active |-> IF "active" \in written THEN activeTabId ELSE storedTabs.active]
  /\ tabsTimer' = FALSE
  /\ tabsWritten' = written
  /\ UNCHANGED <<tabs, activeTabId, closing>>

----------------------------------------------------------------------------
(* Properties.                                                             *)

TabsTypeOK ==
  /\ tabs \in Seq([id : Nat, sql : Texts, isDirty : BOOLEAN])
  /\ activeTabId \in Nat \cup {NoTab}
  /\ tabsTimer \in BOOLEAN
  /\ storedTabs.tabs \in Seq([id : Nat, sql : Texts, isDirty : BOOLEAN])
  /\ closing \in Nat \cup {NoTab}
  /\ tabsWritten \in Writes

(* Whatever is closed, confirmed late or loaded, with what localStorage has  *)
(* accepted of it, the active tab is one of the tabs, there is one as long   *)
(* as there are tabs, and no two tabs share an id (a tab is found by its id  *)
(* everywhere).                                                              *)
OneActiveTab ==
  /\ IF tabs = <<>> THEN activeTabId = NoTab ELSE activeTabId \in Ids(tabs)
  /\ \A i, j \in DOMAIN tabs : tabs[i].id = tabs[j].id => i = j
============================================================================
