--------------------------- MODULE WorkbenchProofs ---------------------------
(***************************************************************************)
(* Proofs about the workbench, its tabs, its history and its browser       *)
(* client, for any users, any names and texts, any limit of the history    *)
(* and any number of refused writes: what the workbench shows is what the  *)
(* open database is, Clean means stored, the menu loses no transaction,    *)
(* and a page that is loaded shows the tabs that localStorage accepted.    *)
(***************************************************************************)
EXTENDS Workbench, ListsProofs

----------------------------------------------------------------------------
(* Fresh ids.                                                                *)

(* Tabs are finitely many, and so are their ids.                           *)
LEMMA IdsFinite ==
  ASSUME NEW S, NEW ts \in Seq(S)
  PROVE  IsFiniteSet(Ids(ts))
<1> DEFINE f == [i \in 1..Len(ts) |-> ts[i].id]
<1>1. Len(ts) \in Nat /\ DOMAIN ts = 1..Len(ts)
  BY LenProperties
<1>2. f \in Surjection(1..Len(ts), Ids(ts))
  BY <1>1 DEF Surjection, Ids
<1>3. IsFiniteSet(1..Len(ts))
  BY <1>1, FS_Interval
<1> QED BY <1>2, <1>3, FS_Surjection

(* Among the first numbers, n more than there are used ones, n are unused.   *)
LEMMA EnoughUnused ==
  ASSUME NEW used, IsFiniteSet(used), NEW n \in Nat
  PROVE  \E ids \in [1..n -> (1..(n + Cardinality(used))) \ used] : IsInjective(ids)
<1> DEFINE all == 1..(n + Cardinality(used))
           unused == all \ used
<1>1. Cardinality(used) \in Nat
  BY FS_CardinalityType
<1>2. IsFiniteSet(all) /\ Cardinality(all) = n + Cardinality(used)
  <2> DEFINE k == n + Cardinality(used)
  <2>1. 1 \in Int /\ k \in Int /\ k >= 0
    BY <1>1
  <2>2. all = 1..k
    OBVIOUS
  <2> HIDE DEF k, all
  <2>3. IsFiniteSet(1..k) /\ Cardinality(1..k) = IF 1 > k THEN 0 ELSE k - 1 + 1
    BY <2>1, FS_Interval
  <2> QED BY <2>1, <2>2, <2>3 DEF k
<1>3. Cardinality(all \cap used) \in Nat /\ Cardinality(all \cap used) <= Cardinality(used)
  <2>1. all \cap used \in SUBSET used
    OBVIOUS
  <2>2. IsFiniteSet(all \cap used) /\ Cardinality(all \cap used) <= Cardinality(used)
    BY <2>1, FS_Subset
  <2> QED BY <2>2, FS_CardinalityType
<1>4. IsFiniteSet(unused) /\ Cardinality(unused) = Cardinality(all) - Cardinality(all \cap used)
  BY <1>2, FS_Difference
<1>5. PICK f : f \in Bijection(1..Cardinality(unused), unused)
  BY <1>4, FS_CardinalityType DEF ExistsBijection
<1>6. Cardinality(unused) >= n /\ Cardinality(unused) \in Nat
  BY <1>1, <1>2, <1>3, <1>4
<1> DEFINE c == Cardinality(unused)
           ids == [i \in 1..n |-> f[i]]
<1> HIDE DEF unused, c
<1>7. f \in [1..c -> unused] /\ \A i, j \in 1..c : f[i] = f[j] => i = j
  <2>1. f \in Injection(1..c, unused)
    BY <1>5 DEF Bijection, c
  <2>2. f \in [1..c -> unused] /\ IsInjective(f)
    BY <2>1 DEF Injection
  <2> QED BY <2>2 DEF IsInjective
<1>8. \A i \in 1..n : i \in 1..c
  BY <1>6 DEF c
<1>9. ids \in [1..n -> unused] /\ IsInjective(ids)
  BY <1>7, <1>8 DEF IsInjective
<1> QED BY <1>9 DEF unused

----------------------------------------------------------------------------
(* The tabs.                                                                 *)

Tabs == [id : Nat, sql : Texts, isDirty : BOOLEAN]
TabIds == Nat \cup {NoTab}

NoTwoShare(ts) == \A i, j \in DOMAIN ts : ts[i].id = ts[j].id => i = j

(* The tabs ts, with one of them active.                                     *)
ShownOK(ts, active) ==
  /\ ts \in Seq(Tabs) /\ active \in TabIds
  /\ IF ts = <<>> THEN active = NoTab ELSE active \in Ids(ts)
  /\ NoTwoShare(ts)

(* What is stored was shown once; the active tab may be one that is not      *)
(* stored.                                                                   *)
StoredOK(stored) ==
  stored \in [tabs : Seq(Tabs), active : TabIds] /\ NoTwoShare(stored.tabs)

(* The inductive invariant of the tabs: what was written since the last      *)
(* change is stored, and an active tab is written after the tabs only.       *)
TabsInv ==
  /\ ShownOK(tabs, activeTabId)
  /\ StoredOK(storedTabs)
  /\ tabsTimer \in BOOLEAN
  /\ closing \in TabIds
  /\ tabsWritten \in Writes
  /\ "tabs" \in tabsWritten => storedTabs.tabs = tabs
  /\ "active" \in tabsWritten =>
       "tabs" \in tabsWritten /\ storedTabs.active = activeTabId

(* A new id is used by no tab.                                               *)
LEMMA FreshIdsOK ==
  ASSUME TabsInv, NEW n \in Nat
  PROVE  LET ids == FreshIds(n)
         IN  /\ \A i \in 1..n : ids[i] \in Nat /\ ids[i] \notin Ids(tabs)
             /\ \A i, j \in 1..n : ids[i] = ids[j] => i = j
<1> DEFINE used == Ids(tabs) \cup Ids(storedTabs.tabs) \cup {closing}
           ids == FreshIds(n)
<1>1. IsFiniteSet(used)
  <2>1. tabs \in Seq(Tabs) /\ storedTabs.tabs \in Seq(Tabs)
    BY DEF TabsInv, ShownOK, StoredOK
  <2>2. IsFiniteSet(Ids(tabs)) /\ IsFiniteSet(Ids(storedTabs.tabs))
    BY <2>1, IdsFinite
  <2>3. IsFiniteSet(Ids(tabs) \cup Ids(storedTabs.tabs))
    BY <2>2, FS_Union
  <2> QED BY <2>3, FS_AddElement
<1>2. Cardinality(used) \in Nat
  BY <1>1, FS_CardinalityType
<1>3. ids = CHOOSE m \in [1..n -> (1..(n + Cardinality(used))) \ used] : IsInjective(m)
  BY DEF FreshIds
<1> HIDE DEF used, ids
<1>4. \E m \in [1..n -> (1..(n + Cardinality(used))) \ used] : IsInjective(m)
  BY <1>1, EnoughUnused
<1>5. ids \in [1..n -> (1..(n + Cardinality(used))) \ used] /\ IsInjective(ids)
  BY <1>3, <1>4
<1>6. \A i \in 1..n : ids[i] \in Nat /\ ids[i] \notin used
  BY <1>2, <1>5
<1>7. \A i, j \in 1..n : ids[i] = ids[j] => i = j
  BY <1>5 DEF IsInjective
<1> QED BY <1>6, <1>7 DEF used, ids

(* A change starts the timer, and needs only show tabs that are right.       *)
LEMMA ChangeOK ==
  ASSUME TabsInv, ShownOK(tabs', activeTabId'), Touched, UNCHANGED storedTabs,
         closing' \in TabIds
  PROVE  TabsInv'
  BY DEF TabsInv, Touched, Writes

(* Without tabs there is no active tab.                                    *)
LEMMA NothingShownOK ==
  ASSUME Show(NoTabs)
  PROVE  ShownOK(tabs', activeTabId')
<1>1. tabs' = <<>> /\ activeTabId' = NoTab
  BY DEF Show, NoTabs
<1>2. tabs' \in Seq(Tabs) /\ DOMAIN tabs' = {}
  BY <1>1, EmptySeq
<1> QED BY <1>1, <1>2 DEF ShownOK, NoTwoShare, TabIds

(* At first there are no tabs, and none are stored.                        *)
LEMMA InitTabsOK == InitTabs => TabsInv
<1> SUFFICES ASSUME InitTabs
             PROVE  TabsInv
  OBVIOUS
<1>1. tabs = <<>> /\ activeTabId = NoTab /\ storedTabs = NoTabs /\ closing = NoTab
      /\ tabsTimer = FALSE /\ tabsWritten = {}
  BY DEF InitTabs
<1>2. <<>> \in Seq(Tabs) /\ DOMAIN <<>> = {}
  BY EmptySeq
<1>3. ShownOK(tabs, activeTabId)
  BY <1>1, <1>2 DEF ShownOK, NoTwoShare, TabIds
<1>4. StoredOK(storedTabs)
  BY <1>1, <1>2 DEF StoredOK, NoTwoShare, TabIds, NoTabs
<1> QED BY <1>1, <1>3, <1>4 DEF TabsInv, TabIds, Writes

(* Without the hook there are no tabs in memory.                           *)
LEMMA UnmountTabsOK == ASSUME TabsInv, UnmountTabs PROVE TabsInv'
<1>1. /\ tabs' = <<>> /\ tabsTimer' = FALSE /\ tabsWritten' = {}
      /\ closing' = NoTab /\ storedTabs' = storedTabs
  BY DEF UnmountTabs, Show, NoTabs
<1>2. ShownOK(tabs', activeTabId')
  BY NothingShownOK DEF UnmountTabs
<1> QED BY <1>1, <1>2 DEF TabsInv, TabIds, Writes

(* A page that is loaded shows what is stored, or the default tab.           *)
LEMMA MountTabsOK == ASSUME TabsInv, MountTabs PROVE TabsInv'
<1> DEFINE id == FreshIds(1)[1]
           shown == Restored(storedTabs, id)
<1>1. id \in Nat
  BY FreshIdsOK
<1>2. tabs' = shown.tabs /\ activeTabId' = shown.active
  BY DEF MountTabs, Show
<1>3. storedTabs \in [tabs : Seq(Tabs), active : TabIds] /\ NoTwoShare(storedTabs.tabs)
  BY DEF TabsInv, StoredOK
<1> HIDE DEF id
<1>4. CASE storedTabs.tabs = <<>>
  <2> DEFINE tab == NewTab(id, InitialSql)
  <2>1. tab \in Tabs /\ tab.id = id
    BY <1>1, TabsAssumption DEF NewTab, Tabs
  <2>2. tabs' = <<tab>> /\ activeTabId' = id
    BY <1>2, <1>4 DEF Restored
  <2> HIDE DEF tab
  <2>3. tabs' \in Seq(Tabs) /\ DOMAIN tabs' = {1} /\ tabs'[1] = tab
    BY <2>1, <2>2
  <2>4. ShownOK(tabs', activeTabId')
    BY <1>1, <2>1, <2>2, <2>3 DEF ShownOK, NoTwoShare, Ids, TabIds
  <2> QED BY <2>4, ChangeOK DEF MountTabs, TabIds
<1>5. CASE storedTabs.tabs # <<>>
  <2>1. /\ tabs' = storedTabs.tabs
        /\ activeTabId' = IF storedTabs.active \in Ids(storedTabs.tabs) THEN storedTabs.active
                          ELSE storedTabs.tabs[1].id
    BY <1>2, <1>3, <1>5 DEF Restored
  <2>2. tabs' \in Seq(Tabs) /\ 1 \in DOMAIN tabs'
    BY <1>3, <1>5, <2>1, EmptySeq, LenProperties
  <2>3. tabs'[1] \in Tabs
    BY <2>2, ElementOfSeq, LenProperties
  <2>4. activeTabId' \in Ids(tabs') /\ activeTabId' \in TabIds
    BY <1>3, <2>1, <2>2, <2>3 DEF Ids, Tabs, TabIds
  <2>5. ShownOK(tabs', activeTabId')
    BY <1>3, <1>5, <2>1, <2>2, <2>4 DEF ShownOK
  <2> QED BY <2>5, ChangeOK DEF MountTabs, TabIds
<1> QED BY <1>4, <1>5

(* The example queries replace the tabs.                                     *)
LEMMA MountExamplesOK == ASSUME TabsInv, MountExamples PROVE TabsInv'
<1> DEFINE n == Len(ExampleSql)
           ids == FreshIds(n)
<1>1. n \in Nat /\ DOMAIN ExampleSql = 1..n /\ n # 0 /\ \A i \in 1..n : ExampleSql[i] \in Texts
  BY TabsAssumption, LenProperties, EmptySeq, ElementOfSeq
<1>2. /\ \A i \in 1..n : ids[i] \in Nat
      /\ \A i, j \in 1..n : ids[i] = ids[j] => i = j
  BY <1>1, FreshIdsOK
<1>3. /\ tabs' = [i \in 1..n |-> NewTab(ids[i], ExampleSql[i])]
      /\ activeTabId' = ids[1]
  BY <1>1 DEF MountExamples, Show
<1> HIDE DEF n, ids
<1>4. \A i \in 1..n : tabs'[i] \in Tabs /\ tabs'[i].id = ids[i]
  BY <1>1, <1>2, <1>3 DEF NewTab, Tabs
<1>5. tabs' \in Seq(Tabs) /\ DOMAIN tabs' = 1..n
  BY <1>1, <1>3, <1>4, IsASeq
<1>6. tabs' # <<>> /\ activeTabId' \in Ids(tabs') /\ activeTabId' \in TabIds
  BY <1>1, <1>2, <1>3, <1>4, <1>5, EmptySeq DEF Ids, TabIds
<1>7. NoTwoShare(tabs')
  BY <1>2, <1>4, <1>5 DEF NoTwoShare
<1>8. ShownOK(tabs', activeTabId')
  BY <1>5, <1>6, <1>7 DEF ShownOK
<1> QED BY <1>8, ChangeOK DEF MountExamples, TabIds

(* A new tab is the last one, and active.                                    *)
LEMMA AddTabOK == ASSUME TabsInv, NEW sql \in Texts, AddTab(sql) PROVE TabsInv'
<1> DEFINE id == FreshIds(1)[1]
           tab == NewTab(id, sql)
<1>1. id \in Nat /\ id \notin Ids(tabs)
  BY FreshIdsOK
<1>2. tabs' = Append(tabs, tab) /\ activeTabId' = id
  BY DEF AddTab, Show
<1> HIDE DEF id
<1>3. tab \in Tabs /\ tab.id = id
  BY <1>1 DEF NewTab, Tabs
<1> HIDE DEF tab
<1>4. tabs \in Seq(Tabs) /\ NoTwoShare(tabs)
  BY DEF TabsInv, ShownOK
<1>5. /\ Len(tabs) \in Nat /\ DOMAIN tabs = 1..Len(tabs)
      /\ tabs' \in Seq(Tabs) /\ DOMAIN tabs' = 1..(Len(tabs) + 1)
      /\ \A i \in 1..Len(tabs) : tabs'[i] = tabs[i]
      /\ tabs'[Len(tabs) + 1] = tab
  BY <1>2, <1>3, <1>4, AppendProperties, LenProperties
<1>6. tabs' # <<>> /\ activeTabId' \in Ids(tabs') /\ activeTabId' \in TabIds
  BY <1>1, <1>2, <1>3, <1>5, EmptySeq DEF Ids, TabIds
<1>7. \A i \in 1..Len(tabs) : tabs[i].id # id
  BY <1>1, <1>5 DEF Ids
<1>8. NoTwoShare(tabs')
  BY <1>3, <1>4, <1>5, <1>7 DEF NoTwoShare
<1>9. ShownOK(tabs', activeTabId')
  BY <1>5, <1>6, <1>8 DEF ShownOK
<1>10. closing' \in TabIds
  BY DEF AddTab, TabsInv
<1> QED BY <1>9, <1>10, ChangeOK DEF AddTab

(* A closed tab takes none of the others with it, and hands the activity on. *)
LEMMA CloseShowsOK ==
  ASSUME TabsInv, NEW id, CloseTab(id)
  PROVE  ShownOK(tabs', activeTabId')
<1> DEFINE removed == {i \in DOMAIN tabs : tabs[i].id = id}
           rest == Without(tabs, removed)
<1>1. /\ tabs' = rest
      /\ activeTabId' = IF activeTabId # id THEN activeTabId ELSE NextActive(tabs, id, rest)
  BY DEF CloseTab, Show
<1>2. tabs \in Seq(Tabs) /\ NoTwoShare(tabs)
  BY DEF TabsInv, ShownOK
<1>3. /\ rest \in Seq(Tabs)
      /\ \A k \in DOMAIN rest : \E i \in DOMAIN tabs \ removed : rest[k] = tabs[i]
      /\ \A i \in DOMAIN tabs \ removed : \E k \in DOMAIN rest : rest[k] = tabs[i]
      /\ \A j, k \in DOMAIN rest : j # k =>
           \E i, h \in DOMAIN tabs \ removed : i # h /\ rest[j] = tabs[i] /\ rest[k] = tabs[h]
  <2> HIDE DEF removed
  <2> QED BY <1>2, WithoutElements
<1>4. \A i \in DOMAIN tabs : tabs[i].id # id => i \in DOMAIN tabs \ removed
  OBVIOUS
<1> HIDE DEF rest, removed
<1>6. NoTwoShare(rest)
  <2> SUFFICES ASSUME NEW j \in DOMAIN rest, NEW k \in DOMAIN rest, j # k,
                      rest[j].id = rest[k].id
               PROVE  FALSE
    BY DEF NoTwoShare
  <2>1. PICK i \in DOMAIN tabs, h \in DOMAIN tabs :
          i # h /\ rest[j] = tabs[i] /\ rest[k] = tabs[h]
    BY <1>3
  <2> QED BY <1>2, <2>1 DEF NoTwoShare
<1>7. /\ Len(rest) \in Nat /\ DOMAIN rest = 1..Len(rest) /\ (rest = <<>> <=> Len(rest) = 0)
      /\ Len(tabs) \in Nat /\ DOMAIN tabs = 1..Len(tabs)
  BY <1>2, <1>3, LenProperties, EmptySeq
<1>8. /\ IF rest = <<>> THEN activeTabId' = NoTab ELSE activeTabId' \in Ids(rest)
      /\ activeTabId' \in TabIds
  <2>1. CASE activeTabId # id /\ tabs # <<>>
    <3>1. activeTabId' = activeTabId /\ activeTabId \in TabIds
      BY <1>1, <2>1 DEF TabsInv, ShownOK
    <3>2. PICK i \in DOMAIN tabs : tabs[i].id = activeTabId
      BY <2>1 DEF TabsInv, ShownOK, Ids
    <3>3. PICK k \in DOMAIN rest : rest[k] = tabs[i]
      BY <1>3, <1>4, <2>1, <3>2
    <3>4. activeTabId \in Ids(rest)
      BY <3>2, <3>3 DEF Ids
    <3>5. rest # <<>>
      BY <1>7, <3>3
    <3> QED BY <3>1, <3>4, <3>5
  <2>2. CASE activeTabId # id /\ tabs = <<>>
    <3>1. activeTabId' = NoTab
      BY <1>1, <2>2 DEF TabsInv, ShownOK
    <3>2. rest = <<>>
      BY <1>3, <1>7, <2>2, EmptySeq
    <3> QED BY <3>1, <3>2 DEF TabIds
  <2>3. CASE activeTabId = id /\ rest = <<>>
    BY <1>1, <2>3 DEF NextActive, TabIds
  <2>4. CASE activeTabId = id /\ rest # <<>>
    <3> DEFINE i == CHOOSE j \in DOMAIN tabs : tabs[j].id = id
               k == IF i <= Len(rest) THEN i ELSE Len(rest)
    <3>1. activeTabId' = rest[k].id
      BY <1>1, <2>4 DEF NextActive
    <3>2. tabs # <<>>
      BY <1>3, <1>7, <2>4, EmptySeq
    <3>3. i \in DOMAIN tabs
      BY <2>4, <3>2 DEF TabsInv, ShownOK, Ids
    <3> HIDE DEF i
    <3>4. k \in DOMAIN rest
      BY <1>7, <2>4, <3>3
    <3> HIDE DEF k
    <3>5. rest[k] \in Tabs
      BY <1>3, <1>7, <3>4, ElementOfSeq
    <3>6. rest[k].id \in Ids(rest) /\ rest[k].id \in Nat
      BY <3>4, <3>5 DEF Ids, Tabs
    <3> QED BY <2>4, <3>1, <3>6 DEF TabIds
  <2> QED BY <2>1, <2>2, <2>3, <2>4
<1> QED BY <1>1, <1>3, <1>6, <1>8 DEF ShownOK

(* A close, whatever it means for a confirmation that waits.               *)
LEMMA CloseTabOK ==
  ASSUME TabsInv, NEW id, CloseTab(id), closing' \in TabIds
  PROVE  TabsInv'
  BY CloseShowsOK, ChangeOK DEF CloseTab

(* A tab that would lose changes waits for a confirmation.                   *)
LEMMA RequestCloseOK ==
  ASSUME TabsInv, NEW i \in DOMAIN tabs, RequestClose(tabs[i])
  PROVE  TabsInv'
<1>1. CASE tabs[i].isDirty
  <2>1. tabs[i] \in Tabs
    BY ElementOfSeq, LenProperties DEF TabsInv, ShownOK
  <2> QED BY <1>1, <2>1 DEF RequestClose, TabsInv, Tabs, TabIds
<1>2. CASE ~tabs[i].isDirty
  <2>1. CloseTab(tabs[i].id) /\ closing' = closing
    BY <1>2 DEF RequestClose
  <2> QED BY <2>1, CloseTabOK DEF TabsInv
<1> QED BY <1>1, <1>2

(* The answer to it, whatever happened to the tab meanwhile.                 *)
LEMMA AnswerCloseOK == ASSUME TabsInv, ConfirmClose \/ CancelClose PROVE TabsInv'
<1>1. CASE ConfirmClose
  <2>1. CloseTab(closing) /\ closing' \in TabIds
    BY <1>1 DEF ConfirmClose, TabIds
  <2> QED BY <2>1, CloseTabOK
<1>2. CASE CancelClose
  BY <1>2 DEF CancelClose, TabsInv, TabIds
<1> QED BY <1>1, <1>2

(* Another tab becomes the active one.                                       *)
LEMMA SelectTabOK ==
  ASSUME TabsInv, NEW i \in DOMAIN tabs, SelectTab(tabs[i].id)
  PROVE  TabsInv'
<1>1. tabs[i] \in Tabs /\ tabs # <<>>
  BY ElementOfSeq, LenProperties, EmptySeq DEF TabsInv, ShownOK
<1>2. activeTabId' = tabs[i].id /\ tabs' = tabs
  BY DEF SelectTab
<1>3. activeTabId' \in Ids(tabs') /\ activeTabId' \in TabIds
  BY <1>1, <1>2 DEF Ids, Tabs, TabIds
<1>4. ShownOK(tabs', activeTabId')
  BY <1>1, <1>2, <1>3 DEF TabsInv, ShownOK
<1> QED BY <1>4, ChangeOK DEF SelectTab, TabsInv

(* A change inside of tabs leaves their ids alone.                           *)
LEMMA SameIdsOK ==
  ASSUME TabsInv, DOMAIN tabs' = DOMAIN tabs, tabs' = [i \in DOMAIN tabs |-> tabs'[i]],
         \A i \in DOMAIN tabs : tabs'[i] \in Tabs /\ tabs'[i].id = tabs[i].id,
         Touched, UNCHANGED <<activeTabId, storedTabs, closing>>
  PROVE  TabsInv'
<1>1. tabs \in Seq(Tabs) /\ NoTwoShare(tabs)
  BY DEF TabsInv, ShownOK
<1>2. Len(tabs) \in Nat /\ DOMAIN tabs = 1..Len(tabs) /\ (tabs = <<>> <=> Len(tabs) = 0)
  BY <1>1, LenProperties, EmptySeq
<1>3. tabs' \in Seq(Tabs) /\ Len(tabs') = Len(tabs)
  BY <1>1, <1>2, IsASeq, LenProperties
<1>4. tabs' = <<>> <=> tabs = <<>>
  BY <1>2, <1>3, EmptySeq
<1>5. Ids(tabs') = Ids(tabs)
  BY DEF Ids
<1>6. NoTwoShare(tabs')
  BY <1>1 DEF NoTwoShare
<1>7. ShownOK(tabs', activeTabId')
  BY <1>3, <1>4, <1>5, <1>6 DEF TabsInv, ShownOK
<1> QED BY <1>7, ChangeOK DEF TabsInv

(* A change of text, name or state, or the snapshot of a run.              *)
LEMMA UpdateTabsOK ==
  ASSUME TabsInv, NEW id, NEW sql \in Texts,
         UpdateExecution(id) \/ UpdateSql(id, sql) \/ RenameTab(id) \/ SaveTab(id)
  PROVE  TabsInv'
<1>1. \A i \in DOMAIN tabs : tabs[i] \in Tabs
  BY ElementOfSeq, LenProperties DEF TabsInv, ShownOK
<1>2. /\ Touched /\ UNCHANGED <<activeTabId, storedTabs, closing>>
      /\ DOMAIN tabs' = DOMAIN tabs /\ tabs' = [i \in DOMAIN tabs |-> tabs'[i]]
      /\ \A i \in DOMAIN tabs :
           tabs'[i] \in {tabs[i], [tabs[i] EXCEPT !.sql = sql, !.isDirty = TRUE],
                        [tabs[i] EXCEPT !.isDirty = TRUE],
                        [tabs[i] EXCEPT !.isDirty = FALSE]}
  <2>1. CASE UpdateExecution(id)
    BY <2>1 DEF UpdateExecution, UpdateTab
  <2>2. CASE UpdateSql(id, sql)
    BY <2>2 DEF UpdateSql, UpdateTab
  <2>3. CASE RenameTab(id)
    BY <2>3 DEF RenameTab, UpdateTab
  <2>4. CASE SaveTab(id)
    BY <2>4 DEF SaveTab, UpdateTab
  <2> QED BY <2>1, <2>2, <2>3, <2>4
<1>4. \A i \in DOMAIN tabs : tabs'[i] \in Tabs /\ tabs'[i].id = tabs[i].id
  BY <1>1, <1>2 DEF Tabs
<1> QED BY <1>2, <1>4, SameIdsOK

(* The timer fires, and localStorage accepts both writes, one or none.       *)
LEMMA StoreTabsOK ==
  ASSUME TabsInv, NEW written \in Writes, StoreTabs(written)
  PROVE  TabsInv'
<1>1. /\ tabs' = tabs /\ activeTabId' = activeTabId /\ closing' = closing
      /\ tabsTimer' = FALSE /\ tabsWritten' = written
  BY DEF StoreTabs
<1>2. ShownOK(tabs', activeTabId')
  BY <1>1 DEF TabsInv
<1>3. /\ storedTabs'.tabs = IF "tabs" \in written THEN tabs ELSE storedTabs.tabs
      /\ storedTabs'.active = IF "active" \in written THEN activeTabId ELSE storedTabs.active
      /\ storedTabs' = [tabs |-> storedTabs'.tabs, active |-> storedTabs'.active]
  BY DEF StoreTabs
<1>4. StoredOK(storedTabs')
  BY <1>3 DEF TabsInv, ShownOK, StoredOK
<1>5. "active" \in written => "tabs" \in written
  BY DEF Writes, Everything
<1> QED BY <1>1, <1>2, <1>3, <1>4, <1>5 DEF TabsInv

(* The invariant says what the runs check.                                   *)
LEMMA TabsInvSays == ASSUME TabsInv PROVE TabsTypeOK /\ OneActiveTab
  BY DEF TabsInv, ShownOK, StoredOK, NoTwoShare, Tabs, TabIds, TabsTypeOK, OneActiveTab

(* A page that is loaded shows what was written of the tabs.                 *)
LEMMA StoredAreShown ==
  ASSUME TabsInv, "tabs" \in tabsWritten, tabs # <<>>, MountTabs
  PROVE  tabs' = tabs /\ ("active" \in tabsWritten => activeTabId' = activeTabId)
<1>1. /\ storedTabs \in [tabs : Seq(Tabs), active : TabIds]
      /\ storedTabs.tabs = tabs /\ activeTabId \in Ids(tabs)
      /\ "active" \in tabsWritten => storedTabs.active = activeTabId
  BY DEF TabsInv, ShownOK, StoredOK
<1> QED BY <1>1 DEF MountTabs, Show, Restored

----------------------------------------------------------------------------
(* The history.                                                              *)

(* The inductive invariant of the history: no entry that is gone is kept, the *)
(* timer that runs has seen these entries, and an id that is not in use can  *)
(* be found as what is gone is finite.                                       *)
HistoryInv ==
  /\ entries \in Seq(Nat)
  /\ storedHistory \in Seq(Nat)
  /\ historyTimers \subseteq {entries}
  /\ IsFiniteSet(gone)
  /\ DetailsHaveEntries
  /\ GoneStaysGone

(* A new entry has an id that no entry has, or had.                          *)
LEMMA FreshEntryOK ==
  ASSUME HistoryInv
  PROVE  FreshEntry \in Nat /\ FreshEntry \notin gone
<1> DEFINE used == Range(entries) \cup Range(storedHistory) \cup details \cup gone
<1>1. IsFiniteSet(used)
  <2>1. IsFiniteSet(Range(entries)) /\ IsFiniteSet(Range(storedHistory)) /\ IsFiniteSet(gone)
    BY ElementsFinite DEF HistoryInv
  <2>2. IsFiniteSet(details)
    BY <2>1, FS_Subset DEF HistoryInv, DetailsHaveEntries
  <2>3. IsFiniteSet(Range(entries) \cup Range(storedHistory))
    BY <2>1, FS_Union
  <2>4. IsFiniteSet(Range(entries) \cup Range(storedHistory) \cup details)
    BY <2>2, <2>3, FS_Union
  <2> QED BY <2>1, <2>4, FS_Union
<1>2. Cardinality(used) \in Nat
  BY <1>1, FS_CardinalityType
<1>3. FreshEntry = CHOOSE id \in 1..(Cardinality(used) + 1) : id \notin used
  BY DEF FreshEntry
<1>4. gone \subseteq used
  OBVIOUS
<1> HIDE DEF used
<1>5. PICK ids \in [1..1 -> (1..(1 + Cardinality(used))) \ used] : IsInjective(ids)
  BY <1>1, EnoughUnused
<1>6. ids[1] \in 1..(Cardinality(used) + 1) /\ ids[1] \notin used
  BY <1>2, <1>5
<1>7. FreshEntry \in 1..(Cardinality(used) + 1) /\ FreshEntry \notin used
  BY <1>3, <1>6
<1> QED BY <1>2, <1>4, <1>7

(* At first there are no entries.                                          *)
LEMMA InitHistoryOK == InitHistory => HistoryInv
<1> SUFFICES ASSUME InitHistory
             PROVE  HistoryInv
  OBVIOUS
<1>1. <<>> \in Seq(Nat) /\ Range(<<>>) = {}
  BY EmptySeq DEF Range
<1> QED BY <1>1, FS_EmptySet DEF InitHistory, HistoryInv, DetailsHaveEntries, GoneStaysGone

(* An entry is added and others leave at the limit, with their details.      *)
LEMMA AddRecordOK ==
  ASSUME HistoryInv, NEW limit \in Nat, AddHistoryRecord(limit)
  PROVE  HistoryInv'
<1> DEFINE id == FreshEntry
           all == <<id>> \o entries
           n == IF Len(all) < limit THEN Len(all) ELSE limit
<1>1. id \in Nat /\ id \notin gone
  BY FreshEntryOK
<1>2. /\ entries' = SubSeq(all, 1, n)
      /\ details' = (details \cup {id}) \cap Range(entries')
      /\ storedHistory' = storedHistory /\ gone' = gone
      /\ historyTimers' = {entries'}
  BY DEF AddHistoryRecord, TrimDetails, FirstOf, RestartTimer
<1>3. entries \in Seq(Nat)
  BY DEF HistoryInv
<1> HIDE DEF id
<1>4. <<id>> \in Seq(Nat) /\ Len(<<id>>) = 1 /\ <<id>>[1] = id
  BY <1>1
<1>5. /\ Len(entries) \in Nat /\ DOMAIN entries = 1..Len(entries)
      /\ all \in Seq(Nat) /\ Len(all) = 1 + Len(entries)
      /\ \A i \in 1..Len(all) : all[i] = IF i <= 1 THEN id ELSE entries[i - 1]
  BY <1>3, <1>4, ConcatProperties, LenProperties
<1> HIDE DEF all
<1>6. n \in 0..Len(all)
  BY <1>5
<1> HIDE DEF n
<1>7. /\ entries' \in Seq(Nat) /\ Len(entries') = n
      /\ \A i \in 1..n : entries'[i] = all[i]
  BY <1>2, <1>5, <1>6, SubSeqProperties
<1>8. DOMAIN entries' = 1..n
  BY <1>7, LenProperties
<1>9. Range(entries') \subseteq Range(entries) \cup {id}
  <2> SUFFICES ASSUME NEW i \in 1..n
               PROVE  entries'[i] \in Range(entries) \cup {id}
    BY <1>8 DEF Range
  <2>1. i \in 1..Len(all) /\ entries'[i] = all[i]
    BY <1>5, <1>6, <1>7
  <2>2. CASE i = 1
    BY <1>5, <2>1, <2>2
  <2>3. CASE i # 1
    <3>1. i - 1 \in DOMAIN entries /\ all[i] = entries[i - 1]
      BY <1>5, <2>1, <2>3
    <3> QED BY <2>1, <3>1 DEF Range
  <2> QED BY <2>2, <2>3
<1> QED BY <1>1, <1>2, <1>7, <1>9 DEF HistoryInv, DetailsHaveEntries, GoneStaysGone

(* An entry is removed, with its details.                                    *)
LEMMA RemoveEntryOK ==
  ASSUME HistoryInv, NEW id, RemoveHistoryEntry(id)
  PROVE  HistoryInv'
<1> DEFINE removed == {i \in DOMAIN entries : entries[i] = id}
           rest == Without(entries, removed)
<1>1. /\ entries' = rest /\ details' = details \ {id}
      /\ storedHistory' = storedHistory /\ gone' = gone
      /\ historyTimers' = {entries'}
  BY DEF RemoveHistoryEntry, RestartTimer
<1>2. entries \in Seq(Nat)
  BY DEF HistoryInv
<1>3. /\ rest \in Seq(Nat)
      /\ \A k \in DOMAIN rest : \E i \in DOMAIN entries \ removed : rest[k] = entries[i]
      /\ \A i \in DOMAIN entries \ removed : \E k \in DOMAIN rest : rest[k] = entries[i]
  <2> DEFINE S == Nat
  <2>1. entries \in Seq(S)
    BY <1>2
  <2> HIDE DEF S, removed
  <2>2. /\ rest \in Seq(S)
        /\ \A k \in DOMAIN rest : \E i \in DOMAIN entries \ removed : rest[k] = entries[i]
        /\ \A i \in DOMAIN entries \ removed : \E k \in DOMAIN rest : rest[k] = entries[i]
        /\ \A j, k \in DOMAIN rest : j # k =>
             \E i, h \in DOMAIN entries \ removed : i # h /\ rest[j] = entries[i] /\ rest[k] = entries[h]
    BY <2>1, WithoutElements
  <2> HIDE DEF rest
  <2> QED BY <2>2 DEF S
<1>4. \A i \in DOMAIN entries : entries[i] # id => i \in DOMAIN entries \ removed
  OBVIOUS
<1> HIDE DEF rest, removed
<1>5. Range(rest) \subseteq Range(entries)
  BY <1>3 DEF Range
<1>6. Range(entries) \ {id} \subseteq Range(rest)
  BY <1>3, <1>4 DEF Range
<1> QED BY <1>1, <1>3, <1>5, <1>6 DEF HistoryInv, DetailsHaveEntries, GoneStaysGone

(* Memory and localStorage are cleared at once.                              *)
LEMMA ClearHistoryOK == ASSUME HistoryInv, ClearHistory PROVE HistoryInv'
<1>1. /\ entries' = <<>> /\ storedHistory' = <<>> /\ details' = {}
      /\ gone' = gone \cup Range(entries) /\ historyTimers' = {entries'}
  BY DEF ClearHistory, RestartTimer
<1>2. entries' \in Seq(Nat) /\ storedHistory' \in Seq(Nat)
      /\ Range(entries') = {} /\ Range(storedHistory') = {}
  BY <1>1, EmptySeq DEF Range
<1>3. IsFiniteSet(gone')
  BY <1>1, ElementsFinite, FS_Union DEF HistoryInv
<1> QED BY <1>1, <1>2, <1>3 DEF HistoryInv, DetailsHaveEntries, GoneStaysGone

(* The timer fires: what it leaves out is gone.                              *)
LEMMA StoreHistoryOK == ASSUME HistoryInv, StoreHistory PROVE HistoryInv'
<1>1. /\ entries' = entries /\ storedHistory' = entries /\ details' = details
      /\ gone' = gone \cup (Range(storedHistory) \ Range(entries))
      /\ historyTimers' \subseteq {entries}
  BY DEF StoreHistory, HistoryInv
<1>2. IsFiniteSet(gone')
  <2>1. IsFiniteSet(Range(storedHistory)) /\ IsFiniteSet(gone)
    BY ElementsFinite DEF HistoryInv
  <2>2. IsFiniteSet(Range(storedHistory) \ Range(entries))
    BY <2>1, FS_Subset
  <2> QED BY <1>1, <2>1, <2>2, FS_Union
<1>3. /\ entries' \in Seq(Nat) /\ storedHistory' \in Seq(Nat)
      /\ Range(entries') = Range(entries) /\ Range(storedHistory') = Range(entries)
  BY <1>1 DEF HistoryInv
<1> QED BY <1>1, <1>2, <1>3 DEF HistoryInv, DetailsHaveEntries, GoneStaysGone

(* Or the write is refused.                                                  *)
LEMMA StoreHistoryRefusedOK == ASSUME HistoryInv, StoreHistoryRefused PROVE HistoryInv'
<1>1. /\ UNCHANGED <<entries, details, storedHistory, gone>>
      /\ historyTimers' \subseteq historyTimers
  BY DEF StoreHistoryRefused
<1>2. Range(entries') = Range(entries) /\ Range(storedHistory') = Range(storedHistory)
  BY <1>1
<1> QED BY <1>1, <1>2 DEF HistoryInv, DetailsHaveEntries, GoneStaysGone

(* A page is loaded.                                                         *)
LEMMA LoadHistoryOK == ASSUME HistoryInv, LoadHistory PROVE HistoryInv'
<1>1. /\ entries' = storedHistory /\ storedHistory' = storedHistory /\ details' = {}
      /\ gone' = gone /\ historyTimers' = {entries'}
  BY DEF LoadHistory, RestartTimer
<1>2. Range(entries') = Range(storedHistory) /\ Range(storedHistory') = Range(storedHistory)
  BY <1>1
<1>3. /\ entries' \in Seq(Nat) /\ storedHistory' \in Seq(Nat) /\ IsFiniteSet(gone')
      /\ historyTimers' \subseteq {entries'}
  BY <1>1 DEF HistoryInv
<1>4. DetailsHaveEntries'
  BY <1>1 DEF DetailsHaveEntries
<1>5. GoneStaysGone'
  BY <1>1, <1>2 DEF HistoryInv, GoneStaysGone
<1> QED BY <1>3, <1>4, <1>5 DEF HistoryInv

----------------------------------------------------------------------------
(* The client.                                                               *)

Contents == 0..MaxVersions

Files == [final : Contents \cup {NoFile}, tmp : Contents \cup {NoFile}]

(* The demo database is always known.                                        *)
Known == {names \in SUBSET Names : Demo \in names}

Clients ==
  [db : Databases \cup {Rejected}, databaseName : Names \cup {NoPath},
   storageKind : {"memory", "browser-file"}, known : Known,
   files : [Names -> Files], versions : Contents, refusals : Nat]

(* What is Clean is in the file; and so is what a rollback makes Clean.      *)
FileTells(db, files) ==
  db.path # NoPath =>
    /\ ~db.dirty => Stored(files[db.path]) = db.content
    /\ db.snapshot # NoSnapshot /\ ~db.dirtyAtBegin =>
         Stored(files[db.path]) = db.snapshot

(* A client without regard to its database.                                  *)
ClientOK(c) ==
  c \in Clients /\ (c.storageKind = "memory" <=> c.databaseName = NoPath)

(* The inductive invariant of the client.                                    *)
ClientInv(c) ==
  ClientOK(c) /\ (c.db # Rejected => FileTells(c.db, c.files))

(* A client whose database could be opened.                                  *)
Opened(c) == ClientOK(c) /\ c.db # Rejected /\ FileTells(c.db, c.files)

(* The constants.                                                            *)
LEMMA ContentsOK ==
  /\ NoFile \notin Contents /\ NoSnapshot \notin Contents
  /\ EmptyTables \in Contents /\ DemoTables \in Contents
  /\ \A v \in Contents : v \in Nat /\ (v # MaxVersions => v + 1 \in Contents)
  BY BrowserAssumption DEF Contents, EmptyTables, DemoTables

(* A file holds what the next open finds, also when it has been recovered,   *)
(* and when a save that was refused has left the same content as .tmp.       *)
LEMMA StoredOf ==
  ASSUME NEW f \in Files
  PROVE  /\ Stored(f) \in Contents
         /\ Recovered(f) \in Files /\ Stored(Recovered(f)) = Stored(f)
         /\ \A v \in Contents :
              /\ [final |-> v, tmp |-> NoFile] \in Files
              /\ Stored([final |-> v, tmp |-> NoFile]) = v
              /\ [Recovered(f) EXCEPT !.tmp = v] \in Files
              /\ Stored([Recovered(f) EXCEPT !.tmp = v]) \in {Stored(f), v}
  BY ContentsOK DEF Files, Stored, Recovered

(* A new database has no transaction.                                        *)
LEMMA NewDatabaseOK ==
  ASSUME NEW path \in Names \cup {NoPath}, NEW content \in Contents
  PROVE  LET db == NewDatabase(path, content)
         IN  /\ db \in Databases /\ db # Rejected
             /\ db.path = path /\ db.content = content /\ ~db.dirty
             /\ db.snapshot = NoSnapshot
<1>1. NewDatabase(path, content) \in Databases
  BY DEF NewDatabase, Databases, Contents, AutoSaveModes
<1> QED BY <1>1, BrowserAssumption DEF NewDatabase

(* A refused write leaves one of the files that it may leave.                *)
LEMMA RefusalsOK ==
  ASSUME NEW c, ClientOK(c), NEW path \in Names, NEW files \in SUBSET Files,
         NEW d \in Refusals(c, path, files)
  PROVE  /\ ClientOK(d) /\ d.db = c.db
         /\ \E f \in files : d.files = [c.files EXCEPT ![path] = f]
<1>1. PICK f \in files : d = [c EXCEPT !.files[path] = f, !.refusals = @ + 1]
  BY DEF Refusals
<1>2. ClientOK(d)
  <2> DEFINE files2 == [c.files EXCEPT ![path] = f]
             refusals2 == c.refusals + 1
  <2>1. files2 \in [Names -> Files] /\ refusals2 \in Nat
    BY DEF ClientOK, Clients
  <2>2. d = [c EXCEPT !.files = files2, !.refusals = refusals2]
    BY <1>1
  <2> HIDE DEF files2, refusals2
  <2> QED BY <2>1, <2>2 DEF ClientOK, Clients
<1>3. d.db = c.db /\ d.files = [c.files EXCEPT ![path] = f]
  BY <1>1 DEF ClientOK, Clients
<1> QED BY <1>2, <1>3

(* An open.                                                                  *)
LEMMA OpensOK ==
  ASSUME NEW c, ClientOK(c), NEW path \in Names, NEW d \in Opens(c, path)
  PROVE  ClientInv(d) /\ ~Active(d)
<1> DEFINE f == c.files[path]
           db == NewDatabase(path, Stored(f))
<1>1. f \in Files /\ c.files \in [Names -> Files] /\ c.refusals \in Nat
  BY DEF ClientOK, Clients
<1>2. CASE d = [c EXCEPT !.files[path] = Recovered(f), !.db = db]
  <2> DEFINE files == [c.files EXCEPT ![path] = Recovered(f)]
  <2>1. Stored(f) \in Contents /\ Recovered(f) \in Files /\ Stored(Recovered(f)) = Stored(f)
    BY <1>1, StoredOf
  <2>2. /\ db \in Databases /\ db # Rejected /\ db.path = path
        /\ db.content = Stored(f) /\ db.snapshot = NoSnapshot
    BY <2>1, NewDatabaseOK
  <2>3. files \in [Names -> Files] /\ files[path] = Recovered(f)
    BY <1>1, <2>1
  <2> HIDE DEF db, f
  <2>4. d.db = db /\ d.files = files
    BY <1>2 DEF ClientOK, Clients
  <2>5. ClientOK(d)
    BY <1>1, <1>2, <2>1, <2>2 DEF ClientOK, Clients
  <2> HIDE DEF files
  <2>6. FileTells(db, files)
    BY <2>1, <2>2, <2>3 DEF FileTells
  <2> QED BY <2>2, <2>4, <2>5, <2>6 DEF ClientInv, Active
<1>3. CASE d \in Refusals([c EXCEPT !.db = Rejected], path, {f})
  <2> DEFINE none == [c EXCEPT !.db = Rejected]
  <2>1. ClientOK(none) /\ none.db = Rejected
    BY DEF ClientOK, Clients
  <2> HIDE DEF none, f
  <2>2. {f} \in SUBSET Files
    BY <1>1
  <2>3. d \in Refusals(none, path, {f})
    BY <1>3 DEF none
  <2>4. ClientOK(d) /\ d.db = Rejected
    BY <2>1, <2>2, <2>3, RefusalsOK
  <2> QED BY <2>4 DEF ClientInv, Active
<1> QED BY <1>2, <1>3 DEF Opens

(* Another state of the database.                                            *)
LEMMA WithDatabase ==
  ASSUME NEW c, Opened(c), NEW db \in Databases, FileTells(db, c.files),
         NEW versions \in Contents
  PROVE  LET d == [c EXCEPT !.db = db, !.versions = versions]
         IN  Opened(d) /\ d.db = db /\ d.files = c.files
<1> DEFINE d == [c EXCEPT !.db = db, !.versions = versions]
<1>1. ClientOK(d) /\ d.db = db /\ d.files = c.files
  BY DEF Opened, ClientOK, Clients
<1>2. db # Rejected
  BY BrowserAssumption
<1> HIDE DEF d
<1> QED BY <1>1, <1>2 DEF Opened, d

(* The types of an opened client's parts.                                  *)
LEMMA OpenedFields ==
  ASSUME NEW c, Opened(c)
  PROVE  /\ c.db \in Databases /\ c.files \in [Names -> Files] /\ c.versions \in Contents
         /\ c = [c EXCEPT !.versions = c.versions]
         /\ c.db.path \in Names \cup {NoPath}
         /\ c.db.content \in Contents /\ c.db.snapshot \in Contents \cup {NoSnapshot}
         /\ c.db.dirty \in BOOLEAN /\ c.db.dirtyAtBegin \in BOOLEAN
         /\ Active(c) <=> c.db.snapshot # NoSnapshot
         /\ FileTells(c.db, c.files)
<1>1. c \in Clients /\ c.db # Rejected /\ FileTells(c.db, c.files)
  BY DEF Opened, ClientOK
<1>2. c.db \in Databases /\ c.files \in [Names -> Files] /\ c.versions \in Contents
  BY <1>1 DEF Clients
<1>3. c = [c EXCEPT !.versions = c.versions]
  BY <1>1 DEF Clients
<1>4. /\ c.db.path \in Names \cup {NoPath}
      /\ c.db.content \in Contents /\ c.db.snapshot \in Contents \cup {NoSnapshot}
      /\ c.db.dirty \in BOOLEAN /\ c.db.dirtyAtBegin \in BOOLEAN
  BY <1>2 DEF Databases, Contents
<1> QED BY <1>1, <1>2, <1>3, <1>4 DEF Active

(* A save: afterwards Clean is in the file, and a refused one leaves a file  *)
(* that the next open understands as before.                                 *)
LEMMA SaveFileOK ==
  ASSUME NEW c, Opened(c), c.db.path # NoPath, ~Active(c), NEW r \in SaveFile(c)
  PROVE  Opened(r.client) /\ ~Active(r.client)
<1> DEFINE path == c.db.path
           found == c.files[path]
           kept == Recovered(found)
           content == c.db.content
           saved == [final |-> content, tmp |-> NoFile]
           left == {kept, [kept EXCEPT !.tmp = content]}
                     \cup IF PromotionNeeded(found) THEN {found} ELSE {}
           d == r.client
<1>1. /\ path \in Names /\ found \in Files /\ content \in Contents
      /\ c.files \in [Names -> Files] /\ c.db \in Databases /\ c.db.snapshot = NoSnapshot
  BY OpenedFields
<1>2. ~c.db.dirty => Stored(found) = content
  BY DEF Opened, FileTells
<1>3. \/ d = [c EXCEPT !.files[path] = saved, !.db.dirty = FALSE]
      \/ d \in Refusals(c, path, left)
  BY DEF SaveFile, Done, Failed
<1> HIDE DEF d
<1>4. CASE d = [c EXCEPT !.files[path] = saved, !.db.dirty = FALSE]
  <2> DEFINE files2 == [c.files EXCEPT ![path] = saved]
             db2 == [c.db EXCEPT !.dirty = FALSE]
  <2>1. /\ db2 \in Databases /\ db2.path = path /\ db2.content = content
        /\ db2.snapshot = NoSnapshot /\ db2 # Rejected
    BY <1>1, BrowserAssumption DEF Databases
  <2>2. saved \in Files /\ Stored(saved) = content
    BY <1>1, StoredOf
  <2> HIDE DEF saved
  <2>3. files2 \in [Names -> Files] /\ files2[path] = saved
    BY <1>1, <2>2
  <2>4. FileTells(db2, files2)
    BY <2>1, <2>2, <2>3 DEF FileTells
  <2>5. d = [c EXCEPT !.files = files2, !.db = db2]
    BY <1>4
  <2> HIDE DEF files2, db2
  <2>6. ClientOK(d) /\ d.db = db2 /\ d.files = files2
    BY <2>1, <2>3, <2>5 DEF Opened, ClientOK, Clients
  <2> QED BY <2>1, <2>4, <2>6 DEF Opened, Active, d
<1>5. CASE d \in Refusals(c, path, left)
  <2>1. \A f \in left : f \in Files /\ Stored(f) \in {Stored(found), content}
    BY <1>1, StoredOf
  <2> HIDE DEF left
  <2>2. PICK f \in left : d.files = [c.files EXCEPT ![path] = f]
    BY <1>1, <1>5, <2>1, RefusalsOK DEF Opened
  <2>3. ClientOK(d) /\ d.db = c.db
    BY <1>1, <1>5, <2>1, RefusalsOK DEF Opened
  <2>4. d.files[path] = f
    BY <1>1, <2>2
  <2>5. FileTells(d.db, d.files)
    BY <1>1, <1>2, <2>1, <2>3, <2>4 DEF FileTells
  <2>6. d.db # Rejected
    BY <2>3 DEF Opened
  <2> QED BY <1>1, <2>3, <2>5, <2>6 DEF Opened, Active, d
<1> QED BY <1>3, <1>4, <1>5

(* The save after a statement.                                               *)
LEMMA AutoSaveOK ==
  ASSUME NEW c, Opened(c), NEW r \in AutoSave(c)
  PROVE  Opened(r.client) /\ (~Active(c) => ~Active(r.client))
<1>1. CASE r = Done(c)
  BY <1>1 DEF Done
<1>2. CASE c.db.path # NoPath /\ ~Active(c) /\ r \in SaveFile(c)
  BY <1>2, SaveFileOK
<1> QED BY <1>1, <1>2 DEF AutoSave

(* A change.                                                                 *)
LEMMA ChangedOK ==
  ASSUME NEW c, Opened(c), NEW d \in Changed(c)
  PROVE  Opened(d)
<1> DEFINE n == c.versions + 1
           db == [c.db EXCEPT !.content = n, !.dirty = c.db.dirty \/ c.db.path # NoPath]
<1>1. n \in Contents
  BY OpenedFields, ContentsOK DEF Changed
<1>2. d = [c EXCEPT !.db = db, !.versions = n]
  BY OpenedFields DEF Changed, Marked, Opened, ClientOK, Clients, Databases
<1> HIDE DEF n
<1>3. /\ db \in Databases /\ db.path = c.db.path /\ db.snapshot = c.db.snapshot
      /\ db.dirtyAtBegin = c.db.dirtyAtBegin /\ (db.path # NoPath => db.dirty)
  BY <1>1, OpenedFields DEF Databases, Contents
<1> HIDE DEF db
<1>4. FileTells(db, c.files)
  BY <1>3, OpenedFields DEF FileTells
<1> QED BY <1>1, <1>2, <1>3, <1>4, WithDatabase

(* Another state of the database, with the same versions.                    *)
LEMMA WithState ==
  ASSUME NEW c, Opened(c), NEW db \in Databases, FileTells(db, c.files)
  PROVE  LET d == [c EXCEPT !.db = db]
         IN  Opened(d) /\ d.db = db /\ d.files = c.files
<1> DEFINE d == [c EXCEPT !.db = db]
<1>1. ClientOK(d) /\ d.db = db /\ d.files = c.files
  BY DEF Opened, ClientOK, Clients
<1>2. db # Rejected
  BY BrowserAssumption
<1> HIDE DEF d
<1> QED BY <1>1, <1>2 DEF Opened, d

(* Two assignments to fields of the database are one to the database.        *)
LEMMA OneAssignment ==
  ASSUME NEW c, c \in Clients
  PROVE  /\ \A x, y : [c EXCEPT !.db.snapshot = x, !.db.dirtyAtBegin = y] =
                      [c EXCEPT !.db = [c.db EXCEPT !.snapshot = x, !.dirtyAtBegin = y]]
         /\ \A x, y : [c EXCEPT !.db.content = x, !.db.dirty = y] =
                      [c EXCEPT !.db = [c.db EXCEPT !.content = x, !.dirty = y]]
<1>1. ASSUME NEW x, NEW y
      PROVE  [c EXCEPT !.db.snapshot = x, !.db.dirtyAtBegin = y] =
             [c EXCEPT !.db = [c.db EXCEPT !.snapshot = x, !.dirtyAtBegin = y]]
  BY DEF Clients
<1>2. ASSUME NEW x, NEW y
      PROVE  [c EXCEPT !.db.content = x, !.db.dirty = y] =
             [c EXCEPT !.db = [c.db EXCEPT !.content = x, !.dirty = y]]
  BY DEF Clients
<1> QED BY <1>1, <1>2

(* The end of a transaction.                                                 *)
LEMMA EndedOK ==
  ASSUME NEW c, Opened(c)
  PROVE  Opened(Ended(c)) /\ ~Active(Ended(c))
<1> DEFINE db == [c.db EXCEPT !.snapshot = NoSnapshot, !.dirtyAtBegin = FALSE]
           d == Ended(c)
<1>1. db \in Databases /\ FileTells(db, c.files) /\ db.snapshot = NoSnapshot
  BY OpenedFields DEF Databases, FileTells
<1>2. d = [c EXCEPT !.db = db]
  BY OneAssignment DEF Ended, Opened, ClientOK
<1> HIDE DEF db, d
<1>3. Opened(d) /\ d.db = db
  BY <1>1, <1>2, WithState
<1> QED BY <1>1, <1>3 DEF Active, d

(* A statement keeps what Clean and a transaction tell, and after a rollback *)
(* no transaction is active.                                                 *)
LEMMA ExecutionsOK ==
  ASSUME NEW c, Opened(c), NEW s, NEW r \in Executions(c, s)
  PROVE  Opened(r.client) /\ (s = "rollback" => ~Active(r.client))
<1> DEFINE begun == [c.db EXCEPT !.snapshot = c.db.content, !.dirtyAtBegin = c.db.dirty]
           back == [c.db EXCEPT !.content = c.db.snapshot, !.dirty = c.db.dirtyAtBegin]
<1>1. CASE s = "change"
  <2>1. PICK d \in Changed(c) : r \in AutoSave(d)
    BY <1>1 DEF Executions
  <2>2. Opened(d)
    BY <2>1, ChangedOK
  <2> QED BY <1>1, <2>1, <2>2, AutoSaveOK
<1>2. CASE s = "begin" /\ ~Active(c)
  <2>1. begun \in Databases /\ FileTells(begun, c.files)
    BY OpenedFields DEF Databases, FileTells, Contents
  <2>2. r = Done([c EXCEPT !.db.snapshot = c.db.content, !.db.dirtyAtBegin = c.db.dirty])
    BY <1>2 DEF Executions
  <2>3. r = Done([c EXCEPT !.db = begun])
    BY <2>2, OneAssignment DEF Opened, ClientOK
  <2> HIDE DEF begun
  <2>4. r.client = [c EXCEPT !.db = begun]
    BY <2>3 DEF Done
  <2> QED BY <1>2, <2>1, <2>4, WithState
<1>3. CASE s = "commit" /\ Active(c)
  <2>1. Opened(Ended(c)) /\ r \in AutoSave(Ended(c))
    BY <1>3, EndedOK DEF Executions
  <2> DEFINE e == Ended(c)
  <2> HIDE DEF e
  <2>2. Opened(e) /\ r \in AutoSave(e)
    BY <2>1 DEF e
  <2> QED BY <1>3, <2>2, AutoSaveOK
<1>4. CASE s = "rollback" /\ Active(c)
  <2> DEFINE d == [c EXCEPT !.db = back]
  <2>1. back \in Databases /\ FileTells(back, c.files)
    BY <1>4, OpenedFields DEF Databases, FileTells, Contents
  <2>2. r = Done(Ended([c EXCEPT !.db.content = c.db.snapshot,
                                 !.db.dirty = c.db.dirtyAtBegin]))
    BY <1>4 DEF Executions
  <2>3. r = Done(Ended(d))
    BY <2>2, OneAssignment DEF Opened, ClientOK
  <2> HIDE DEF back
  <2>4. Opened(d)
    BY <2>1, WithState
  <2> HIDE DEF d
  <2>5. r.client = Ended(d)
    BY <2>3 DEF Done
  <2> QED BY <2>4, <2>5, EndedOK
<1>5. CASE s = "save" /\ ~Active(c) /\ c.db.path # NoPath
  <2>1. r \in SaveFile(c)
    BY <1>5 DEF Executions
  <2> QED BY <1>5, <2>1, SaveFileOK
<1>6. CASE r \in {Done(c), Failed(c)} /\ ~(s = "rollback" /\ Active(c))
  BY <1>6 DEF Done, Failed
<1> QED BY <1>1, <1>2, <1>3, <1>4, <1>5, <1>6 DEF Executions

----------------------------------------------------------------------------
(* Scripts.                                                                  *)

(* The clients after one statement more.                                     *)
AfterNext(results, statement, stopOnError) ==
  UNION {IF stopOnError /\ ~r.ok THEN {r}
         ELSE {[e EXCEPT !.ok = e.ok /\ r.ok] : e \in Executions(r.client, statement)} :
           r \in results}

(* f[i] are the clients after i statements, for i up to n.                   *)
RunsThrough(c, statements, stopOnError, n, f) ==
  f = [i \in 0..n |-> IF i = 0 THEN {Done(c)}
                      ELSE UNION {IF stopOnError /\ ~r.ok THEN {r}
                                  ELSE {[e EXCEPT !.ok = e.ok /\ r.ok] :
                                          e \in Executions(r.client, statements[i])} :
                                    r \in f[i - 1]}]

(* The same in terms of AfterNext.                                         *)
LEMMA RunsThroughSays ==
  ASSUME NEW c, NEW statements, NEW stopOnError, NEW n, NEW f
  PROVE  RunsThrough(c, statements, stopOnError, n, f) <=>
           f = [i \in 0..n |-> IF i = 0 THEN {Done(c)}
                               ELSE AfterNext(f[i - 1], statements[i], stopOnError)]
BY DEF RunsThrough, AfterNext

(* There is such a function: what the definition of Scripts computes.        *)
LEMMA RunThroughExists ==
  ASSUME NEW c, NEW statements, NEW stopOnError, NEW n \in Nat
  PROVE  \E f : RunsThrough(c, statements, stopOnError, n, f)
<1> DEFINE T == {k \in Nat : ~\E f : RunsThrough(c, statements, stopOnError, k, f)}
<1>1. SUFFICES ASSUME T # {} PROVE FALSE
  OBVIOUS
<1>2. PICK k \in T : \A j \in T : k <= j
  BY <1>1, LeastNumber
<1>3. CASE k = 0
  <2> DEFINE g == [i \in 0..0 |-> {Done(c)}]
  <2>1. g = [i \in 0..0 |-> IF i = 0 THEN {Done(c)}
                            ELSE AfterNext(g[i - 1], statements[i], stopOnError)]
    OBVIOUS
  <2>2. RunsThrough(c, statements, stopOnError, k, g)
    BY <1>3, <2>1, RunsThroughSays
  <2> QED BY <2>2
<1>4. CASE k # 0
  <2>1. k - 1 \in Nat /\ k - 1 \notin T
    BY <1>2, <1>4
  <2>2. PICK f : RunsThrough(c, statements, stopOnError, k - 1, f)
    BY <2>1
  <2> DEFINE last == AfterNext(f[k - 1], statements[k], stopOnError)
             g == [i \in 0..k |-> IF i = k THEN last ELSE f[i]]
  <2>3. f = [i \in 0..(k - 1) |-> IF i = 0 THEN {Done(c)}
                                  ELSE AfterNext(f[i - 1], statements[i], stopOnError)]
    BY <2>2, RunsThroughSays
  <2>4. \A i \in 0..(k - 1) :
          f[i] = IF i = 0 THEN {Done(c)}
                 ELSE AfterNext(f[i - 1], statements[i], stopOnError)
    BY <2>1, <2>3
  <2>5. ASSUME NEW i \in 0..k
        PROVE  g[i] = IF i = 0 THEN {Done(c)}
                      ELSE AfterNext(g[i - 1], statements[i], stopOnError)
    <3>1. CASE i = k
      <4>1. g[i - 1] = f[i - 1] /\ g[i] = last
        BY <1>4, <2>1, <3>1
      <4> HIDE DEF g
      <4> QED BY <1>4, <3>1, <4>1
    <3>2. CASE i # k
      <4>1. i \in 0..(k - 1) /\ (i # 0 => i - 1 \in 0..(k - 1))
        BY <1>4, <2>1, <3>2
      <4>2. g[i] = f[i] /\ (i # 0 => g[i - 1] = f[i - 1])
        BY <2>1, <3>2, <4>1
      <4> HIDE DEF g
      <4> QED BY <2>4, <4>1, <4>2
    <3> QED BY <3>1, <3>2
  <2>6. g = [i \in 0..k |-> g[i]]
    OBVIOUS
  <2> HIDE DEF g
  <2>7. g = [i \in 0..k |-> IF i = 0 THEN {Done(c)}
                            ELSE AfterNext(g[i - 1], statements[i], stopOnError)]
    BY <2>5, <2>6
  <2>8. RunsThrough(c, statements, stopOnError, k, g)
    BY <2>7, RunsThroughSays
  <2> QED BY <2>8
<1> QED BY <1>3, <1>4

(* A result is a client and how the statement ended.                         *)
LEMMA ResultsOfExecutions ==
  ASSUME NEW c, NEW s, NEW r \in Executions(c, s)
  PROVE  \E d, ok : r = [client |-> d, ok |-> ok]
<1>1. \A x : \A e \in SaveFile(x) : \E d, ok : e = [client |-> d, ok |-> ok]
  BY DEF SaveFile, Done, Failed
<1>2. \A x : \A e \in AutoSave(x) : \E d, ok : e = [client |-> d, ok |-> ok]
  BY <1>1 DEF AutoSave, Done
<1>3. \/ \E d : r \in SaveFile(d)
      \/ \E d : r \in AutoSave(d)
      \/ \E d : r = Done(d) \/ r = Failed(d)
  BY DEF Executions
<1> QED BY <1>1, <1>2, <1>3 DEF Done, Failed

(* A script that is not atomic, and one that stopped in it.                  *)
LEMMA ScriptsOK ==
  ASSUME NEW c, Opened(c), NEW statements \in Seq(Statements), NEW stopOnError,
         NEW r \in Scripts(c, statements, stopOnError)
  PROVE  Opened(r.client)
<1> DEFINE n == Len(statements)
           f == CHOOSE g : RunsThrough(c, statements, stopOnError, n, g)
           OK(k) == \A e \in f[k] : Opened(e.client)
           T == {k \in Nat : k <= n /\ ~OK(k)}
<1>1. n \in Nat
  BY LenProperties
<1>2. RunsThrough(c, statements, stopOnError, n, f)
  BY <1>1, RunThroughExists
<1>3. Scripts(c, statements, stopOnError) = f[n]
  BY DEF Scripts, RunsThrough
<1> HIDE DEF n, f
<1>4. \A i \in 0..n : f[i] = IF i = 0 THEN {Done(c)}
                           ELSE AfterNext(f[i - 1], statements[i], stopOnError)
  <2>1. f = [i \in 0..n |-> IF i = 0 THEN {Done(c)}
                            ELSE AfterNext(f[i - 1], statements[i], stopOnError)]
    BY <1>2, RunsThroughSays
  <2> QED BY <2>1
<1>5. ASSUME T # {}
      PROVE  FALSE
  <2>1. PICK k \in T : \A j \in T : k <= j
    BY <1>5, LeastNumber
  <2>2. CASE k = 0
    <3>1. 0 \in 0..n
      BY <1>1
    <3>2. f[k] = {Done(c)}
      BY <1>4, <2>2, <3>1
    <3> QED BY <2>1, <3>2 DEF Done
  <2>3. CASE k # 0
    <3>1. k \in Nat /\ k <= n /\ k - 1 \in Nat /\ k - 1 <= n /\ k - 1 \notin T
      <4>1. k \in Nat /\ k <= n
        BY <2>1
      <4>2. k - 1 \in Nat /\ k - 1 <= n /\ ~(k <= k - 1)
        BY <1>1, <2>3, <4>1
      <4> QED BY <2>1, <4>1, <4>2
    <3>2. OK(k - 1)
      BY <3>1
    <3>3. f[k] = AfterNext(f[k - 1], statements[k], stopOnError)
      <4>1. k \in 0..n
        BY <1>1, <3>1
      <4> QED BY <1>4, <2>3, <4>1
    <3>4. ASSUME NEW e \in f[k]
          PROVE  Opened(e.client)
      <4>1. PICK d \in f[k - 1] :
              \/ e = d
              \/ \E x \in Executions(d.client, statements[k]) : e = [x EXCEPT !.ok = x.ok /\ d.ok]
        BY <3>3 DEF AfterNext
      <4>2. Opened(d.client)
        BY <3>2
      <4>3. CASE \E x \in Executions(d.client, statements[k]) : e = [x EXCEPT !.ok = x.ok /\ d.ok]
        <5>1. PICK x \in Executions(d.client, statements[k]) : e = [x EXCEPT !.ok = x.ok /\ d.ok]
          BY <4>3
        <5>2. Opened(x.client)
          BY <4>2, ExecutionsOK
        <5>3. e.client = x.client
          <6>1. PICK d2, ok2 : x = [client |-> d2, ok |-> ok2]
            BY ResultsOfExecutions
          <6> QED BY <5>1, <6>1
        <5> QED BY <5>2, <5>3
      <4> QED BY <4>1, <4>2, <4>3
    <3> QED BY <2>1, <3>4
  <2> QED BY <2>2, <2>3
<1>6. OK(n)
  BY <1>1, <1>5
<1> QED BY <1>3, <1>6

(* An opened client is one whose invariant holds and whose database is open. *)
LEMMA OpenedIsOpen ==
  ASSUME NEW c
  PROVE  Opened(c) <=> ClientInv(c) /\ c.db # Rejected
BY DEF Opened, ClientInv

(* A mark changes no table.                                                  *)
LEMMA MarkedOK ==
  ASSUME NEW c, Opened(c)
  PROVE  Opened(Marked(c))
<1> DEFINE db == [c.db EXCEPT !.dirty = c.db.dirty \/ c.db.path # NoPath]
<1>1. db \in Databases /\ FileTells(db, c.files)
  BY OpenedFields DEF Databases, FileTells
<1>2. Marked(c) = [c EXCEPT !.db = db]
  BY DEF Marked, Opened, ClientOK, Clients
<1> HIDE DEF db
<1> QED BY <1>1, <1>2, WithState

(* An atomic script.                                                         *)
LEMMA AtomicScriptsOK ==
  ASSUME NEW c, Opened(c), NEW statements, NEW stopOnError,
         NEW r \in AtomicScripts(c, statements, stopOnError)
  PROVE  Opened(r.client)
<1>1. \/ r = Failed(c)
      \/ r = Failed(Marked(c))
      \/ \E d \in Changed(c) \cup {c} : r \in AutoSave(d)
  BY DEF AtomicScripts
<1>2. CASE r = Failed(c)
  BY <1>2 DEF Failed
<1>3. CASE r = Failed(Marked(c))
  BY <1>3, MarkedOK DEF Failed
<1>4. CASE \E d \in Changed(c) \cup {c} : r \in AutoSave(d)
  <2>1. PICK d \in Changed(c) \cup {c} : r \in AutoSave(d)
    BY <1>4
  <2>2. Opened(d)
    BY <2>1, ChangedOK
  <2> QED BY <2>1, <2>2, AutoSaveOK
<1> QED BY <1>1, <1>2, <1>3, <1>4

(* A run of any statements, with any options.                                *)
LEMMA RunsOK ==
  ASSUME NEW c, ClientInv(c), NEW statements \in Seq(Statements), NEW opts,
         NEW r \in Runs(c, statements, opts)
  PROVE  ClientInv(r.client)
<1>1. CASE c.db = Rejected
  BY <1>1 DEF Runs, Failed
<1>2. CASE c.db # Rejected
  <2>1. Opened(c)
    BY <1>2, OpenedIsOpen
  <2>2. \/ r \in Executions(c, statements[1])
        \/ r \in AtomicScripts(c, statements, opts.stopOnError)
        \/ r \in Scripts(c, statements, opts.stopOnError)
    BY <1>2 DEF Runs
  <2>3. Opened(r.client)
    BY <2>1, <2>2, ExecutionsOK, AtomicScriptsOK, ScriptsOK
  <2> QED BY <2>3, OpenedIsOpen
<1> QED BY <1>1, <1>2

(* After a rollback, be there a database or not, no transaction is active. *)
LEMMA RollbackOK ==
  ASSUME NEW c, ClientInv(c), NEW opts, NEW r \in Runs(c, <<"rollback">>, opts)
  PROVE  ClientInv(r.client) /\ ~Active(r.client)
<1>1. <<"rollback">> \in Seq(Statements)
  BY DEF Statements
<1>2. ClientInv(r.client)
  BY <1>1, RunsOK
<1>3. CASE c.db = Rejected
  BY <1>3 DEF Runs, Failed, Active
<1>4. CASE c.db # Rejected
  <2>1. r \in Executions(c, "rollback")
    BY <1>4 DEF Runs
  <2> QED BY <1>2, <1>4, <2>1, OpenedIsOpen, ExecutionsOK
<1> QED BY <1>2, <1>3, <1>4

----------------------------------------------------------------------------
(* Databases.                                                                *)

(* A browser file is opened or created; a name that is new may be refused,   *)
(* and then the database is the one before.                                  *)
LEMMA FileDatabasesOK ==
  ASSUME NEW c, ClientInv(c), NEW name \in Names, NEW d \in FileDatabases(c, name)
  PROVE  ClientInv(d) /\ (~Active(c) \/ name \in c.known => ~Active(d))
<1> DEFINE e == Named(Remembered(c, name), name, "browser-file")
           file == c.files[name]
<1>1. CASE d \in Opens(e, name)
  <2>1. c \in Clients /\ c.known \cup {name} \in Known
    BY DEF ClientInv, ClientOK, Clients, Known
  <2>2. ClientOK(e)
    BY <2>1, BrowserAssumption DEF ClientOK, Clients, Named, Remembered
  <2> HIDE DEF e
  <2> QED BY <1>1, <2>2, OpensOK
<1>2. CASE name \notin c.known /\ d \in Refusals(c, name, {file})
  <2>1. ClientOK(c) /\ c.files \in [Names -> Files] /\ file \in Files
    BY DEF ClientInv, ClientOK, Clients
  <2>2. c.files = [c.files EXCEPT ![name] = file]
    BY <2>1
  <2> HIDE DEF file
  <2> DEFINE files == {file}
  <2>3. files \in SUBSET Files /\ d \in Refusals(c, name, files)
    BY <1>2, <2>1
  <2> HIDE DEF files
  <2>4. ClientOK(d) /\ d.db = c.db /\ \E f \in files : d.files = [c.files EXCEPT ![name] = f]
    BY <2>1, <2>3, RefusalsOK
  <2>5. d.files = c.files
    BY <2>2, <2>4 DEF files
  <2> QED BY <1>2, <2>4, <2>5 DEF ClientInv, Active
<1> QED BY <1>1, <1>2 DEF FileDatabases

(* A database in memory has no file to tell of.                            *)
LEMMA MemoryDatabasesOK ==
  ASSUME NEW c, ClientInv(c), NEW d \in MemoryDatabases(c)
  PROVE  ClientInv(d) /\ ~Active(d)
<1> DEFINE db == NewDatabase(NoPath, EmptyTables)
<1>1. /\ db \in Databases /\ db # Rejected /\ db.path = NoPath
      /\ db.snapshot = NoSnapshot
  BY ContentsOK, NewDatabaseOK
<1> HIDE DEF db
<1>2. d = [c EXCEPT !.databaseName = NoPath, !.storageKind = "memory", !.db = db]
  BY DEF MemoryDatabases, Named, db
<1>3. ClientOK(d) /\ d.db = db
  BY <1>1, <1>2 DEF ClientInv, ClientOK, Clients
<1>4. FileTells(d.db, d.files)
  BY <1>1, <1>3 DEF FileTells
<1> QED BY <1>1, <1>3, <1>4 DEF ClientInv, Active

(* A database with the demo tables is dirty.                                 *)
LEMMA SeededDatabasesOK ==
  ASSUME NEW c, ClientOK(c), NEW d \in SeededDatabases(c)
  PROVE  ClientInv(d) /\ ~Active(d)
<1>1. PICK e \in Opens(c, Demo) :
        d = IF e.db = Rejected \/ e.db.content # EmptyTables THEN e
            ELSE [e EXCEPT !.db.content = DemoTables, !.db.dirty = TRUE]
  BY DEF SeededDatabases
<1>2. ClientInv(e) /\ ~Active(e)
  BY BrowserAssumption, OpensOK
<1>3. CASE e.db # Rejected /\ d = [e EXCEPT !.db.content = DemoTables, !.db.dirty = TRUE]
  <2> DEFINE db == [e.db EXCEPT !.content = DemoTables, !.dirty = TRUE]
  <2>1. Opened(e) /\ e.db.snapshot = NoSnapshot
    BY <1>2, <1>3, OpenedIsOpen DEF Active
  <2>2. db \in Databases /\ db.dirty /\ db.snapshot = NoSnapshot
    BY <2>1, OpenedFields, ContentsOK DEF Databases, Contents
  <2>3. d = [e EXCEPT !.db = db]
    BY <1>3, <2>1, OneAssignment DEF Opened, ClientOK
  <2> HIDE DEF db
  <2>4. FileTells(db, e.files)
    BY <2>2 DEF FileTells
  <2>5. Opened(d) /\ d.db = db
    BY <2>1, <2>2, <2>3, <2>4, WithState
  <2> QED BY <2>2, <2>5, OpenedIsOpen DEF Active
<1> QED BY <1>1, <1>2, <1>3

(* The example workspace: its file is removed, and not its .tmp.           *)
LEMMA ExampleDatabasesOK ==
  ASSUME NEW c, ClientInv(c), NEW d \in ExampleDatabases(c)
  PROVE  ClientInv(d) /\ ~Active(d)
<1> DEFINE f == [c.files[Demo] EXCEPT !.final = NoFile]
           files == [c.files EXCEPT ![Demo] = f]
           named == Named(Remembered(c, Demo), Demo, "browser-file")
           e == [named EXCEPT !.files[Demo].final = NoFile]
<1>1. f \in Files
  BY BrowserAssumption DEF ClientInv, ClientOK, Clients, Files
<1> HIDE DEF f
<1>2. files \in [Names -> Files]
  BY <1>1 DEF ClientInv, ClientOK, Clients
<1>3. ClientOK(named) /\ named.files = c.files
  <2>1. c \in Clients /\ c.known \cup {Demo} \in Known
    BY BrowserAssumption DEF ClientInv, ClientOK, Clients, Known
  <2> QED BY <2>1, BrowserAssumption DEF ClientOK, Clients, Named, Remembered
<1> HIDE DEF named
<1>4. e = [named EXCEPT !.files = files]
  BY <1>3 DEF ClientOK, Clients, f
<1> HIDE DEF e, files
<1>5. ClientOK(e)
  BY <1>2, <1>3, <1>4 DEF ClientOK, Clients
<1>6. d \in SeededDatabases(e)
  BY DEF ExampleDatabases, e, named
<1> QED BY <1>5, <1>6, SeededDatabasesOK

(* The constructor, with the files of any client before.                     *)
LEMMA NewClientsOK ==
  ASSUME NEW files \in [Names -> Files], NEW known \in SUBSET Names,
         NEW versions \in Contents, NEW refusals \in Nat,
         NEW d \in NewClients(files, known, versions, refusals)
  PROVE  ClientInv(d) /\ ~Active(d)
<1> DEFINE c == [db |-> Rejected, databaseName |-> Demo,
                 storageKind |-> "browser-file", known |-> known \cup {Demo},
                 files |-> files, versions |-> versions, refusals |-> refusals]
<1>1. ClientOK(c)
  BY BrowserAssumption DEF ClientOK, Clients, Known
<1>2. d \in SeededDatabases(c)
  BY DEF NewClients
<1> HIDE DEF c
<1> QED BY <1>1, <1>2, SeededDatabasesOK

(* Another mode changes neither tables nor transaction.                    *)
LEMMA WithAutoSaveOK ==
  ASSUME NEW c, ClientInv(c), NEW mode \in AutoSaveModes
  PROVE  LET d == WithAutoSave(c, mode)
         IN  ClientInv(d) /\ (Active(d) <=> Active(c)) /\ (d.db = Rejected <=> c.db = Rejected)
<1> DEFINE db == [c.db EXCEPT !.autoSave = mode]
           d == WithAutoSave(c, mode)
<1>1. CASE c.db = Rejected
  BY <1>1 DEF WithAutoSave
<1>2. CASE c.db # Rejected
  <2>1. Opened(c)
    BY <1>2, OpenedIsOpen
  <2>2. db \in Databases /\ FileTells(db, c.files) /\ db.snapshot = c.db.snapshot
    BY <2>1, OpenedFields DEF Databases, FileTells
  <2>3. d = [c EXCEPT !.db = db]
    BY <1>2, <2>1 DEF WithAutoSave, Opened, ClientOK, Clients
  <2> HIDE DEF db, d
  <2>4. Opened(d) /\ d.db = db
    BY <2>1, <2>2, <2>3, WithState
  <2>5. ClientInv(d) /\ d.db # Rejected
    BY <2>4, OpenedIsOpen
  <2>6. Active(d) <=> Active(c)
    BY <1>2, <2>2, <2>4, <2>5 DEF Active
  <2> QED BY <1>2, <2>5, <2>6 DEF d
<1> QED BY <1>1, <1>2

----------------------------------------------------------------------------
(* The workbench.                                                            *)

(* Preferences, dialogs and options have their types.                        *)
ShellInv ==
  /\ user \in Users
  /\ onboarded \in BOOLEAN /\ dialog \in BOOLEAN /\ dropped \in BOOLEAN
  /\ autoSave \in AutoSaveModes
  /\ warning \in {"file", "memory", "dialog", NoWarning}
  /\ options \in [atomic : BOOLEAN, stopOnError : BOOLEAN]

(* Without the dialog, and without a way back to the welcome screen, there   *)
(* is no way around the safeguard: no transaction is active before the       *)
(* workspace is mounted, and the action that waits is never the dialog.      *)
MenuSafe ==
  {"dialog", "reset"} \cap user.does = {} =>
    ~dropped /\ ~dialog /\ warning # "dialog" /\ (onboarded \/ ~Active(client))

(* The inductive invariant.                                                  *)
WorkbenchInv ==
  /\ ClientInv(client)
  /\ ShownIsReal
  /\ TabsInv
  /\ HistoryInv
  /\ ShellInv
  /\ MenuSafe

(* What a step does not touch.                                               *)
LEMMA ClientSame ==
  ASSUME ClientInv(client), ShownIsReal, UNCHANGED <<client, session>>
  PROVE  ClientInv(client') /\ ShownIsReal'
<1>1. client' = client /\ session' = session
  OBVIOUS
<1> QED BY <1>1 DEF ShownIsReal, SessionOf, Active

(* Nor the tabs,                                                           *)
LEMMA TabsSame ==
  ASSUME TabsInv, UNCHANGED tabVars
  PROVE  TabsInv'
BY DEF TabsInv, tabVars, ShownOK, StoredOK, Ids, Range, TabIds, Tabs, Writes

(* the history,                                                            *)
LEMMA HistorySame ==
  ASSUME HistoryInv, UNCHANGED historyVars
  PROVE  HistoryInv'
BY DEF HistoryInv, historyVars, DetailsHaveEntries, GoneStaysGone, Range, IsFiniteSet

(* the preferences and the dialogs;                                        *)
LEMMA ShellSame ==
  ASSUME ShellInv, UNCHANGED <<shellVars, dropped, user>>
  PROVE  ShellInv'
BY DEF ShellInv, shellVars

(* and the menu stays safe while no transaction begins behind its back.    *)
LEMMA MenuSame ==
  ASSUME MenuSafe, UNCHANGED <<onboarded, dialog, warning, dropped, user>>,
         onboarded \/ (~Active(client) => ~Active(client'))
  PROVE  MenuSafe'
<1>1. /\ onboarded' = onboarded /\ dialog' = dialog /\ warning' = warning
      /\ dropped' = dropped /\ user' = user
  OBVIOUS
<1> QED BY <1>1 DEF MenuSafe

(* The session that a refresh shows is that of the client.                   *)
LEMMA BecomesOK ==
  ASSUME NEW c, ClientInv(c), Becomes(c)
  PROVE  client' = c /\ ClientInv(client') /\ ShownIsReal'
<1>1. client' = c /\ (c.db # Rejected => session' = SessionOf(c))
  BY DEF Becomes
<1>2. ShownIsReal' <=> (session' # Loading /\ client'.db # Rejected => session' = SessionOf(client'))
  BY DEF ShownIsReal, SessionOf, Active
<1> QED BY <1>1, <1>2

(* And so it is after the effects of a mount.                                *)
LEMMA MountOK ==
  ASSUME NEW c, ClientInv(c), ~Active(c), TabsInv, NEW mode \in AutoSaveModes,
         NEW examples, Mount(c, mode, examples)
  PROVE  ClientInv(client') /\ ~Active(client') /\ ShownIsReal' /\ TabsInv'
<1>1. client' = WithAutoSave(c, mode) /\ session' = SessionOf(client')
  BY DEF Mount
<1>2. ClientInv(client') /\ ~Active(client')
  BY <1>1, WithAutoSaveOK
<1>3. ShownIsReal'
  BY <1>1 DEF ShownIsReal, SessionOf, Active
<1>4. MountExamples \/ MountTabs
  BY DEF Mount
<1> QED BY <1>2, <1>3, <1>4, MountExamplesOK, MountTabsOK

(* A run is recorded for the active tab.                                     *)
LEMMA RecordedOK ==
  ASSUME TabsInv, HistoryInv, ShellInv, Recorded
  PROVE  TabsInv' /\ HistoryInv'
<1>1. user.limit \in Nat
  BY WorkbenchAssumption DEF ShellInv
<1>2. CASE UNCHANGED <<tabVars, historyVars>>
  BY <1>2, TabsSame, HistorySame
<1>3. CASE UpdateExecution(activeTabId) /\ AddHistoryRecord(user.limit)
  <2> DEFINE limit == user.limit
  <2>1. limit \in Nat /\ AddHistoryRecord(limit)
    BY <1>1, <1>3
  <2> HIDE DEF limit
  <2>2. HistoryInv'
    BY <2>1, AddRecordOK
  <2>3. InitialSql \in Texts
    BY TabsAssumption
  <2>4. TabsInv'
    BY <1>3, <2>3, UpdateTabsOK
  <2> QED BY <2>2, <2>4
<1> QED BY <1>2, <1>3 DEF Recorded

(* Another database, or the same: what is dropped was active.                *)
LEMMA ReplaceOK ==
  ASSUME NEW c, NEW clients, \A d \in clients : ClientInv(d),
         dropped \in BOOLEAN, Replace(c, clients)
  PROVE  /\ ClientInv(client') /\ ShownIsReal'
         /\ dropped' \in BOOLEAN /\ (~Active(c) => dropped' = dropped)
<1>1. PICK d \in clients : Becomes(d)
  BY DEF Replace
<1>2. client' = d /\ ClientInv(client') /\ ShownIsReal'
  BY <1>1, BecomesOK
<1>3. dropped' = (dropped \/ (Active(c) /\ ~Active(client')))
  BY DEF Replace
<1>4. dropped' \in BOOLEAN /\ (~Active(c) => dropped' = dropped)
  BY <1>3 DEF Active
<1> QED BY <1>2, <1>4

(* An action of the menu leaves a transaction if one is active only.         *)
LEMMA PerformOK ==
  ASSUME NEW c, ClientInv(c), NEW item \in {"file", "memory", "dialog"},
         dropped \in BOOLEAN, dialog \in BOOLEAN, Perform(c, item)
  PROVE  /\ ClientInv(client') /\ ShownIsReal'
         /\ dropped' \in BOOLEAN /\ (~Active(c) => dropped' = dropped)
         /\ dialog' \in BOOLEAN /\ (item # "dialog" => dialog' = dialog)
<1>1. CASE item = "file"
  <2>1. PICK name \in Names : Replace(c, FileDatabases(c, name))
    BY <1>1 DEF Perform
  <2>2. \A d \in FileDatabases(c, name) : ClientInv(d)
    BY FileDatabasesOK
  <2>3. dialog' = dialog
    BY <1>1 DEF Perform
  <2> DEFINE clients == FileDatabases(c, name)
  <2> HIDE DEF clients
  <2>4. (\A d \in clients : ClientInv(d)) /\ Replace(c, clients)
    BY <2>1, <2>2 DEF clients
  <2> QED BY <2>3, <2>4, ReplaceOK
<1>2. CASE item = "memory"
  <2> DEFINE clients == MemoryDatabases(c)
  <2>1. (\A d \in clients : ClientInv(d)) /\ Replace(c, clients)
    BY <1>2, MemoryDatabasesOK DEF Perform
  <2>2. dialog' = dialog
    BY <1>2 DEF Perform
  <2> HIDE DEF clients
  <2> QED BY <2>1, <2>2, ReplaceOK
<1>3. CASE item = "dialog"
  <2>1. Becomes(c) /\ dialog' = TRUE /\ dropped' = dropped
    BY <1>3 DEF Perform
  <2> QED BY <1>3, <2>1, BecomesOK
<1> QED BY <1>1, <1>2, <1>3

(* The statements of the active tab.                                         *)
LEMMA ActiveTabOK ==
  ASSUME TabsInv, activeTabId # NoTab
  PROVE  ActiveTab.sql \in Seq(Statements)
<1>1. tabs \in Seq(Tabs) /\ activeTabId \in Ids(tabs)
  BY DEF TabsInv, ShownOK
<1>2. \E t \in Range(tabs) : t.id = activeTabId
  BY <1>1 DEF Ids, Range
<1>3. ActiveTab \in Range(tabs)
  BY <1>2 DEF ActiveTab
<1>4. ActiveTab \in Tabs
  BY <1>1, <1>3, ElementOfSeq, LenProperties DEF Range
<1>5. ActiveTab.sql \in Texts
  BY <1>4 DEF Tabs
<1> QED BY <1>5, WorkbenchAssumption

----------------------------------------------------------------------------
(* The actions.                                                              *)

(* The first page: the demo database, and nothing in localStorage.         *)
LEMMA InitOK == Init => WorkbenchInv
<1> SUFFICES ASSUME Init PROVE WorkbenchInv
  OBVIOUS
<1> DEFINE files == [n \in Names |-> [final |-> NoFile, tmp |-> NoFile]]
<1>1. files \in [Names -> Files] /\ {} \in SUBSET Names /\ DemoTables \in Contents /\ 0 \in Nat
  BY ContentsOK DEF Files
<1>2. PICK c \in NewClients(files, {}, DemoTables, 0) : client = c /\ session = SessionOf(c)
  BY DEF Init
<1> HIDE DEF files
<1>3. ClientInv(client) /\ ~Active(client)
  <2> DEFINE versions == DemoTables
             refusals == 0
             known == {}
  <2>1. /\ files \in [Names -> Files] /\ known \in SUBSET Names
        /\ versions \in Contents /\ refusals \in Nat
    BY <1>1
  <2>2. c \in NewClients(files, known, versions, refusals)
    BY <1>2
  <2> HIDE DEF versions, refusals, known
  <2> QED BY <1>2, <2>1, <2>2, NewClientsOK
<1>4. ShownIsReal
  BY <1>2 DEF ShownIsReal
<1>5. TabsInv /\ HistoryInv
  BY InitTabsOK, InitHistoryOK DEF Init
<1>6. ShellInv
  BY DEF Init, ShellInv, DefaultOptions, AutoSaveModes
<1>7. MenuSafe
  BY <1>3, WorkbenchAssumption DEF Init, MenuSafe
<1> QED BY <1>3, <1>4, <1>5, <1>6, <1>7 DEF WorkbenchInv

(* A page that is loaded begins with a database without a transaction, and   *)
(* with the tabs and entries that were stored.                               *)
LEMMA ReloadOK == ASSUME WorkbenchInv, Reload PROVE WorkbenchInv'
<1>1. PICK c \in NewClients(client.files, client.known, client.versions, client.refusals) :
        IF onboarded /\ c.db # Rejected
        THEN Mount(c, autoSave, FALSE)
        ELSE /\ client' = c
             /\ session' = IF c.db = Rejected THEN Loading ELSE SessionOf(c)
             /\ UnmountTabs
  BY DEF Reload
<1>2. ClientInv(c) /\ ~Active(c)
  <2>1. /\ client.files \in [Names -> Files] /\ client.known \in SUBSET Names
        /\ client.versions \in Contents /\ client.refusals \in Nat
    BY DEF WorkbenchInv, ClientInv, ClientOK, Clients, Known
  <2> QED BY <1>1, <2>1, NewClientsOK
<1>3. ClientInv(client') /\ ~Active(client') /\ ShownIsReal' /\ TabsInv'
  <2> DEFINE examples == FALSE
  <2>1. CASE Mount(c, autoSave, examples)
    <3>1. autoSave \in AutoSaveModes /\ TabsInv
      BY DEF WorkbenchInv, ShellInv
    <3> HIDE DEF examples
    <3> QED BY <1>2, <2>1, <3>1, MountOK
  <2>2. CASE client' = c /\ UnmountTabs /\ (c.db # Rejected => session' = SessionOf(c))
    <3>1. TabsInv'
      BY <2>2, UnmountTabsOK DEF WorkbenchInv
    <3>2. ShownIsReal'
      BY <2>2 DEF ShownIsReal, SessionOf, Active
    <3> QED BY <1>2, <2>2, <3>1, <3>2
  <2> QED BY <1>1, <2>1, <2>2
<1>4. HistoryInv'
  BY LoadHistoryOK DEF WorkbenchInv, Reload
<1>5. ShellInv'
  BY DEF WorkbenchInv, ShellInv, Reload, DefaultOptions
<1>6. MenuSafe'
  BY <1>3, WorkbenchAssumption DEF WorkbenchInv, MenuSafe, Reload
<1> QED BY <1>3, <1>4, <1>5, <1>6 DEF WorkbenchInv

(* A database is chosen on the welcome screen.                               *)
LEMMA StartOK ==
  ASSUME WorkbenchInv, NEW kind, NEW clients,
         \A d \in clients : ClientInv(d) /\ ~Active(d), Start(kind, clients)
  PROVE  WorkbenchInv'
<1>1. PICK c \in clients :
        IF c.db = Rejected
        THEN client' = c /\ UNCHANGED <<session, tabVars, onboarded, exampleLoad>>
        ELSE /\ onboarded' = TRUE
             /\ exampleLoad' = (exampleLoad \/ kind = "example")
             /\ Mount(c, autoSave, exampleLoad')
  BY DEF Start
<1>2. /\ ~onboarded /\ dropped' = (dropped \/ Active(client))
      /\ UNCHANGED <<historyVars, autoSave, dialog, warning, options, user>>
  BY DEF Start
<1>3. ClientInv(c) /\ ~Active(c) /\ autoSave \in AutoSaveModes
  BY DEF WorkbenchInv, ShellInv
<1>4. /\ ClientInv(client') /\ ~Active(client') /\ ShownIsReal' /\ TabsInv'
      /\ onboarded' \in BOOLEAN
  <2>1. CASE c.db = Rejected
    <3>1. client' = c /\ UNCHANGED tabVars /\ onboarded' = onboarded
      BY <1>1, <2>1
    <3>2. TabsInv' /\ onboarded' \in BOOLEAN
      BY <3>1, TabsSame DEF WorkbenchInv, ShellInv
    <3>3. ShownIsReal'
      BY <2>1, <3>1 DEF ShownIsReal
    <3> QED BY <1>3, <3>1, <3>2, <3>3
  <2>2. CASE c.db # Rejected
    <3> DEFINE examples == exampleLoad'
    <3>1. Mount(c, autoSave, examples) /\ onboarded' = TRUE /\ TabsInv
      BY <1>1, <2>2 DEF WorkbenchInv
    <3> HIDE DEF examples
    <3> QED BY <1>3, <3>1, MountOK
  <2> QED BY <2>1, <2>2
<1>5. HistoryInv'
  BY <1>2, HistorySame DEF WorkbenchInv
<1>6. dropped' \in BOOLEAN
  BY <1>2 DEF WorkbenchInv, ShellInv, Active
<1>7. ShellInv'
  BY <1>2, <1>4, <1>6 DEF WorkbenchInv, ShellInv
<1>8. MenuSafe'
  BY <1>2, <1>4 DEF WorkbenchInv, MenuSafe
<1> QED BY <1>4, <1>5, <1>7, <1>8 DEF WorkbenchInv

(* The three ways from the welcome screen.                                 *)
LEMMA WelcomeOK ==
  ASSUME WorkbenchInv, StartExampleWorkspace \/ StartMemoryWorkspace \/ OpenDefaultWorkspace
  PROVE  WorkbenchInv'
<1> DEFINE example == ExampleDatabases(client)
           memory == MemoryDatabases(client)
           open == FileDatabases(client, Demo)
<1>1. /\ \A d \in example : ClientInv(d) /\ ~Active(d)
      /\ \A d \in memory : ClientInv(d) /\ ~Active(d)
      /\ \A d \in open : ClientInv(d) /\ ~Active(d)
  <2>1. ClientInv(client) /\ Demo \in Names /\ Demo \in client.known
    BY BrowserAssumption DEF WorkbenchInv, ClientInv, ClientOK, Clients, Known
  <2> QED BY <2>1, ExampleDatabasesOK, MemoryDatabasesOK, FileDatabasesOK
<1>2. Start("example", example) \/ Start("memory", memory) \/ Start("open", open)
  BY DEF StartExampleWorkspace, StartMemoryWorkspace, OpenDefaultWorkspace
<1> HIDE DEF example, memory, open
<1> QED BY <1>1, <1>2, StartOK

(* A run, with whatever result, and with a save that was refused.            *)
LEMMA RunOK ==
  ASSUME WorkbenchInv, Mounted, NEW statements \in Seq(Statements), Run(statements)
  PROVE  WorkbenchInv'
<1>1. PICK r \in Runs(client, statements, options) : Becomes(r.client)
  BY DEF Run
<1>2. ClientInv(r.client)
  BY <1>1, RunsOK DEF WorkbenchInv
<1>3. ClientInv(client') /\ ShownIsReal'
  BY <1>1, <1>2, BecomesOK
<1>4. TabsInv' /\ HistoryInv'
  BY RecordedOK DEF Run, WorkbenchInv
<1>5. ShellInv'
  BY ShellSame DEF Run, WorkbenchInv
<1>6. MenuSafe'
  BY MenuSame DEF Run, WorkbenchInv, Mounted, shellVars
<1> QED BY <1>3, <1>4, <1>5, <1>6 DEF WorkbenchInv

(* The active tab, and the buttons for one statement.                      *)
LEMMA RunsOfTheUserOK ==
  ASSUME WorkbenchInv, RunTab \/ \E statement \in Statements : RunControl(statement)
  PROVE  WorkbenchInv'
<1>1. CASE RunTab
  <2>1. ActiveTab.sql \in Seq(Statements)
    BY <1>1, ActiveTabOK DEF RunTab, WorkbenchInv
  <2> DEFINE sql == ActiveTab.sql
  <2>2. sql \in Seq(Statements) /\ Mounted /\ Run(sql)
    BY <1>1, <2>1 DEF RunTab
  <2> HIDE DEF sql
  <2> QED BY <2>2, RunOK
<1>2. CASE \E statement \in Statements : RunControl(statement)
  <2>1. PICK statement \in Statements : Mounted /\ Run(<<statement>>)
    BY <1>2 DEF RunControl
  <2> DEFINE sql == <<statement>>
  <2>2. sql \in Seq(Statements) /\ Run(sql)
    BY <2>1
  <2> HIDE DEF sql
  <2> QED BY <2>1, <2>2, RunOK
<1> QED BY <1>1, <1>2

(* The options of scripts are only looked at by the next run.              *)
LEMMA ScriptOptionsOK == ASSUME WorkbenchInv, SetScriptOptions PROVE WorkbenchInv'
<1>1. UNCHANGED <<client, session, tabVars, historyVars, onboarded, dialog, warning, dropped,
                  user, autoSave>> /\ options' \in [atomic : BOOLEAN, stopOnError : BOOLEAN]
  BY DEF SetScriptOptions
<1>2. ClientInv(client') /\ ShownIsReal' /\ TabsInv' /\ HistoryInv'
  BY <1>1, ClientSame, TabsSame, HistorySame DEF WorkbenchInv
<1>3. ShellInv' /\ MenuSafe'
  BY <1>1, MenuSame DEF WorkbenchInv, ShellInv
<1> QED BY <1>2, <1>3 DEF WorkbenchInv

(* The safeguard sees the transaction that the client has.                   *)
LEMMA SafeguardSees ==
  ASSUME WorkbenchInv, Mounted, ~session.active
  PROVE  ~Active(client)
<1>1. CASE client.db = Rejected
  BY <1>1 DEF Active
<1>2. CASE client.db # Rejected
  <2>1. session = SessionOf(client)
    BY <1>2 DEF WorkbenchInv, ShownIsReal, Mounted
  <2>2. SessionOf(client).active = Active(client)
    BY DEF SessionOf
  <2> QED BY <2>1, <2>2, Zenon
<1> QED BY <1>1, <1>2

(* A menu item is performed, or waits for an answer.                         *)
LEMMA MenuOK ==
  ASSUME WorkbenchInv, NEW item \in {"file", "memory", "dialog"}, Menu(item)
  PROVE  WorkbenchInv'
<1>1. /\ Mounted /\ (item = "dialog" => "dialog" \in user.does)
      /\ WithTransactionSafeguard(item)
      /\ UNCHANGED <<tabVars, historyVars, onboarded, autoSave, exampleLoad, options, user>>
  BY DEF Menu, Does
<1>2. TabsInv' /\ HistoryInv'
  BY <1>1, TabsSame, HistorySame DEF WorkbenchInv
<1>3. CASE session.active
  <2>1. warning' = item /\ UNCHANGED <<client, session, dialog, dropped>>
    BY <1>1, <1>3 DEF WithTransactionSafeguard
  <2>2. ClientInv(client') /\ ShownIsReal'
    BY <2>1, ClientSame DEF WorkbenchInv
  <2>3. ShellInv'
    BY <1>1, <2>1 DEF WorkbenchInv, ShellInv
  <2>4. MenuSafe'
    BY <1>1, <2>1 DEF WorkbenchInv, MenuSafe, Mounted
  <2> QED BY <1>2, <2>2, <2>3, <2>4 DEF WorkbenchInv
<1>4. CASE ~session.active
  <2>1. Perform(client, item) /\ warning' = warning
    BY <1>1, <1>4 DEF WithTransactionSafeguard
  <2>2. ~Active(client)
    BY <1>1, <1>4, SafeguardSees
  <2> DEFINE c == client
  <2>3. ClientInv(c) /\ dropped \in BOOLEAN /\ dialog \in BOOLEAN /\ Perform(c, item) /\ ~Active(c)
    BY <2>1, <2>2 DEF WorkbenchInv, ShellInv
  <2> HIDE DEF c
  <2>4. /\ ClientInv(client') /\ ShownIsReal'
        /\ dropped' \in BOOLEAN /\ dropped' = dropped
        /\ dialog' \in BOOLEAN /\ (item # "dialog" => dialog' = dialog)
    BY <2>3, PerformOK
  <2>5. ShellInv'
    BY <1>1, <2>1, <2>4 DEF WorkbenchInv, ShellInv
  <2>6. MenuSafe'
    BY <1>1, <2>1, <2>4 DEF WorkbenchInv, MenuSafe, Mounted
  <2> QED BY <1>2, <2>4, <2>5, <2>6 DEF WorkbenchInv
<1> QED BY <1>3, <1>4

(* The action that waited, after a rollback: no transaction is active then.  *)
LEMMA RollbackThenContinueOK ==
  ASSUME WorkbenchInv, RollbackThenContinue
  PROVE  WorkbenchInv'
<1>1. /\ Mounted /\ warning \in {"file", "memory", "dialog"} /\ warning' = NoWarning /\ Recorded
      /\ UNCHANGED <<onboarded, autoSave, exampleLoad, options, user>>
  BY DEF RollbackThenContinue, WorkbenchInv, ShellInv
<1>2. PICK r \in Runs(client, <<"rollback">>, options) : Perform(r.client, warning)
  BY DEF RollbackThenContinue
<1> DEFINE c == r.client
           item == warning
<1>3. ClientInv(c) /\ ~Active(c)
  BY <1>2, RollbackOK DEF WorkbenchInv
<1>4. Perform(c, item) /\ item \in {"file", "memory", "dialog"}
  BY <1>1, <1>2
<1>5. dropped \in BOOLEAN /\ dialog \in BOOLEAN
  BY DEF WorkbenchInv, ShellInv
<1> HIDE DEF c, item
<1>6. /\ ClientInv(client') /\ ShownIsReal'
      /\ dropped' \in BOOLEAN /\ dropped' = dropped
      /\ dialog' \in BOOLEAN /\ (item # "dialog" => dialog' = dialog)
  BY <1>3, <1>4, <1>5, PerformOK
<1>7. TabsInv' /\ HistoryInv'
  BY <1>1, RecordedOK DEF WorkbenchInv
<1>8. ShellInv'
  BY <1>1, <1>6 DEF WorkbenchInv, ShellInv
<1>9. MenuSafe'
  BY <1>1, <1>6, WorkbenchAssumption DEF WorkbenchInv, MenuSafe, Mounted, item
<1> QED BY <1>6, <1>7, <1>8, <1>9 DEF WorkbenchInv

(* The answer that keeps the transaction, and the dialog that opens and is   *)
(* cancelled.                                                                *)
LEMMA NothingDoneOK ==
  ASSUME WorkbenchInv, CancelWarning \/ OpenDialog \/ CancelDialog
  PROVE  WorkbenchInv'
<1>1. UNCHANGED <<client, session, tabVars, historyVars, onboarded, autoSave, options, dropped,
                  user>>
  BY DEF CancelWarning, OpenDialog, CancelDialog, CloseDialog
<1>2. ClientInv(client') /\ ShownIsReal' /\ TabsInv' /\ HistoryInv'
  BY <1>1, ClientSame, TabsSame, HistorySame DEF WorkbenchInv
<1>3. \/ dialog' = dialog /\ warning' = NoWarning
      \/ dialog' = TRUE /\ warning' = warning /\ "dialog" \in user.does
      \/ dialog' = FALSE /\ warning' = warning
  BY DEF CancelWarning, OpenDialog, CancelDialog, CloseDialog, Does
<1>4. ShellInv'
  BY <1>1, <1>3 DEF WorkbenchInv, ShellInv
<1>5. MenuSafe'
  BY <1>1, <1>3, WorkbenchAssumption DEF WorkbenchInv, MenuSafe
<1> QED BY <1>2, <1>4, <1>5 DEF WorkbenchInv

(* The dialog, which only users who open it are shown, has no safeguard.     *)
LEMMA DialogOK ==
  ASSUME WorkbenchInv, DialogMemory \/ \E name \in Names : DialogFile(name)
  PROVE  WorkbenchInv'
<1>1. /\ CloseDialog
      /\ \/ Replace(client, MemoryDatabases(client))
         \/ \E name \in Names : Replace(client, FileDatabases(client, name))
  BY DEF DialogMemory, DialogFile
<1>2. PICK clients : /\ Replace(client, clients)
                     /\ \A d \in clients : ClientInv(d)
  BY <1>1, MemoryDatabasesOK, FileDatabasesOK DEF WorkbenchInv
<1> DEFINE c == client
<1>3. Replace(c, clients) /\ dropped \in BOOLEAN
  BY <1>2 DEF WorkbenchInv, ShellInv
<1> HIDE DEF c
<1>4. ClientInv(client') /\ ShownIsReal' /\ dropped' \in BOOLEAN
  BY <1>2, <1>3, ReplaceOK
<1>5. /\ dialog /\ dialog' = FALSE
      /\ UNCHANGED <<tabVars, historyVars, onboarded, autoSave, exampleLoad, warning, options, user>>
  BY <1>1 DEF CloseDialog
<1>6. TabsInv' /\ HistoryInv'
  BY <1>5, TabsSame, HistorySame DEF WorkbenchInv
<1>7. ShellInv'
  BY <1>4, <1>5 DEF WorkbenchInv, ShellInv
<1>8. MenuSafe'
  BY <1>5 DEF WorkbenchInv, MenuSafe
<1> QED BY <1>4, <1>6, <1>7, <1>8 DEF WorkbenchInv

(* Settings.                                                                 *)
LEMMA AutoSaveModesOK ==
  ASSUME WorkbenchInv, NEW mode \in AutoSaveModes, SetAutoSave(mode) \/ ChangePreference(mode)
  PROVE  WorkbenchInv'
<1>1. /\ Mounted /\ AutoSaveBecomes(mode) /\ autoSave' \in {autoSave, mode}
      /\ UNCHANGED <<tabVars, historyVars, onboarded, dialog, warning, options, dropped, user>>
  BY DEF SetAutoSave, ChangePreference, shellVars
<1> DEFINE c == WithAutoSave(client, mode)
<1>2. ClientInv(c)
  BY WithAutoSaveOK DEF WorkbenchInv
<1>3. Becomes(c)
  BY <1>1 DEF AutoSaveBecomes
<1> HIDE DEF c
<1>4. ClientInv(client') /\ ShownIsReal'
  BY <1>2, <1>3, BecomesOK
<1>5. TabsInv' /\ HistoryInv'
  BY <1>1, TabsSame, HistorySame DEF WorkbenchInv
<1>6. ShellInv'
  BY <1>1 DEF WorkbenchInv, ShellInv
<1>7. MenuSafe'
  BY <1>1, MenuSame DEF WorkbenchInv, Mounted
<1> QED BY <1>4, <1>5, <1>6, <1>7 DEF WorkbenchInv

(* The way back to the welcome screen.                                     *)
LEMMA ResetPreferencesOK == ASSUME WorkbenchInv, ResetPreferences PROVE WorkbenchInv'
<1>1. ClientInv(client') /\ ShownIsReal' /\ HistoryInv'
  BY ClientSame, HistorySame DEF WorkbenchInv, ResetPreferences
<1>2. TabsInv'
  BY UnmountTabsOK DEF WorkbenchInv, ResetPreferences
<1>3. ShellInv'
  BY DEF WorkbenchInv, ShellInv, ResetPreferences, DefaultOptions, AutoSaveModes
<1>4. MenuSafe'
  BY DEF MenuSafe, ResetPreferences, Does
<1> QED BY <1>1, <1>2, <1>3, <1>4 DEF WorkbenchInv

(* Events that touch the tabs alone.                                         *)
LEMMA TabsAloneOK ==
  ASSUME WorkbenchInv, TabsInv', OnTabs
  PROVE  WorkbenchInv'
<1>1. ClientInv(client') /\ ShownIsReal' /\ HistoryInv' /\ ShellInv'
  BY ClientSame, HistorySame, ShellSame DEF WorkbenchInv, OnTabs
<1>2. MenuSafe'
  BY MenuSame DEF WorkbenchInv, OnTabs, Mounted, shellVars
<1> QED BY <1>1, <1>2 DEF WorkbenchInv

(* The same for timers: localStorage may have refused what they write.       *)
LEMMA WritesOK ==
  ASSUME WorkbenchInv, TabsInv', HistoryInv', UNCHANGED client \/ Refused,
         UNCHANGED <<session, shellVars, dropped, user>>
  PROVE  WorkbenchInv'
<1>1. CASE UNCHANGED client
  <2>1. ClientInv(client') /\ ShownIsReal' /\ ShellInv'
    BY <1>1, ClientSame, ShellSame DEF WorkbenchInv
  <2>2. MenuSafe'
    BY <1>1, MenuSame DEF WorkbenchInv, shellVars
  <2> QED BY <2>1, <2>2 DEF WorkbenchInv
<1>2. CASE Refused
  <2> DEFINE d == [client EXCEPT !.refusals = client.refusals + 1]
  <2>1. client \in Clients /\ client.refusals + 1 \in Nat
    BY DEF WorkbenchInv, ClientInv, ClientOK, Clients
  <2>2. /\ d \in Clients /\ d.db = client.db /\ d.files = client.files
        /\ d.databaseName = client.databaseName /\ d.storageKind = client.storageKind
        /\ d.known = client.known
    BY <2>1 DEF Clients
  <2>3. client' = d /\ session' = session
    BY <1>2 DEF Refused
  <2> HIDE DEF d
  <2>4. ClientInv(client')
    BY <2>2, <2>3 DEF WorkbenchInv, ClientInv, ClientOK
  <2>5. Active(client') <=> Active(client)
    BY <2>2, <2>3 DEF Active
  <2>6. SessionOf(client') = SessionOf(client)
    BY <2>2, <2>3 DEF SessionOf, Active
  <2>7. ShownIsReal'
    <3>1. ShownIsReal' <=> (session' # Loading /\ client'.db # Rejected => session' = SessionOf(client'))
      BY DEF ShownIsReal, SessionOf, Active
    <3> QED BY <2>2, <2>3, <2>6, <3>1 DEF WorkbenchInv, ShownIsReal
  <2>8. ShellInv'
    BY ShellSame DEF WorkbenchInv
  <2>9. MenuSafe'
    BY <2>5, MenuSame DEF WorkbenchInv, shellVars
  <2> QED BY <2>4, <2>7, <2>8, <2>9 DEF WorkbenchInv
<1> QED BY <1>1, <1>2

(* What a user types is a text.                                            *)
LEMMA UserTexts ==
  ASSUME WorkbenchInv, NEW sql \in user.texts
  PROVE  sql \in Texts
BY WorkbenchAssumption DEF WorkbenchInv, ShellInv

(* Buttons and menus of the tabs.                                          *)
LEMMA TabEventOK == ASSUME WorkbenchInv, TabEvent PROVE WorkbenchInv'
<1>1. TabsInv /\ OnTabs
  BY DEF WorkbenchInv, TabEvent
<1>2. CASE AddTab(<<>>)
  <2> DEFINE sql == <<>>
  <2>1. sql \in Texts /\ AddTab(sql)
    BY <1>2, WorkbenchAssumption
  <2> HIDE DEF sql
  <2> QED BY <1>1, <2>1, AddTabOK, TabsAloneOK
<1>3. CASE \E i \in DOMAIN tabs : RequestClose(tabs[i]) \/ SelectTab(tabs[i].id)
  BY <1>1, <1>3, RequestCloseOK, SelectTabOK, TabsAloneOK
<1>4. CASE \E id : RenameTab(id) \/ SaveTab(id)
  <2>1. InitialSql \in Texts
    BY TabsAssumption
  <2> QED BY <1>1, <1>4, <2>1, UpdateTabsOK, TabsAloneOK
<1>5. CASE ConfirmClose \/ CancelClose
  BY <1>1, <1>5, AnswerCloseOK, TabsAloneOK
<1> QED BY <1>2, <1>3, <1>4, <1>5 DEF TabEvent, OpenTab

(* The timer of the tabs fires.                                            *)
LEMMA TabsTimerOK == ASSUME WorkbenchInv, TabsTimer PROVE WorkbenchInv'
<1>1. PICK written \in Writes : StoreTabs(written) /\ (UNCHANGED client \/ Refused)
  BY DEF TabsTimer
<1>2. UNCHANGED <<historyVars, session, shellVars, dropped, user>>
  BY DEF TabsTimer
<1>3. TabsInv' /\ HistoryInv'
  BY <1>1, <1>2, StoreTabsOK, HistorySame DEF WorkbenchInv
<1> QED BY <1>1, <1>2, <1>3, WritesOK

(* A text of the user, or of the history, comes to a tab.                    *)
LEMMA TextsOK ==
  ASSUME WorkbenchInv, NEW sql \in user.texts,
         EditTab(sql) \/ Reopen(sql) \/ ReplaceCurrent(sql)
  PROVE  WorkbenchInv'
<1>1. sql \in Texts /\ TabsInv /\ OnTabs
  BY UserTexts DEF EditTab, Reopen, ReplaceCurrent, WorkbenchInv
<1>2. AddTab(sql) \/ UpdateSql(activeTabId, sql)
  BY DEF EditTab, Reopen, ReplaceCurrent, OpenTab
<1>3. TabsInv'
  BY <1>1, <1>2, AddTabOK, UpdateTabsOK
<1> QED BY <1>1, <1>3, TabsAloneOK

(* The history is cleared, an entry is removed, or the timer fires.          *)
LEMMA HistoryEventOK ==
  ASSUME WorkbenchInv, HistoryEvent \/ HistoryTimer
  PROVE  WorkbenchInv'
<1>1. /\ UNCHANGED client \/ Refused
      /\ UNCHANGED <<tabVars, session, shellVars, dropped, user>>
  BY DEF HistoryEvent, HistoryTimer
<1>2. \/ ClearHistory \/ StoreHistory \/ StoreHistoryRefused
      \/ \E id : RemoveHistoryEntry(id)
  BY DEF HistoryEvent, HistoryTimer
<1>3. TabsInv' /\ HistoryInv'
  BY <1>1, <1>2, TabsSame, ClearHistoryOK, StoreHistoryOK, StoreHistoryRefusedOK,
     RemoveEntryOK DEF WorkbenchInv
<1> QED BY <1>1, <1>3, WritesOK

(* Nothing happens.                                                        *)
LEMMA StutterOK == ASSUME WorkbenchInv, UNCHANGED vars PROVE WorkbenchInv'
<1>1. UNCHANGED <<client, session, tabVars, historyVars, shellVars, dropped, user>>
  BY DEF vars
<1>2. ClientInv(client') /\ ShownIsReal' /\ TabsInv' /\ HistoryInv' /\ ShellInv'
  BY <1>1, ClientSame, TabsSame, HistorySame, ShellSame DEF WorkbenchInv
<1>3. MenuSafe'
  BY <1>1, MenuSame DEF WorkbenchInv, shellVars
<1> QED BY <1>2, <1>3 DEF WorkbenchInv

----------------------------------------------------------------------------
(* The invariant is inductive.                                               *)
LEMMA StepOK == ASSUME WorkbenchInv, [Next]_vars PROVE WorkbenchInv'
<1>1. CASE Reload
  BY <1>1, ReloadOK
<1>2. CASE StartExampleWorkspace \/ StartMemoryWorkspace \/ OpenDefaultWorkspace
  BY <1>2, WelcomeOK
<1>3. CASE RunTab \/ \E statement \in Statements : RunControl(statement)
  BY <1>3, RunsOfTheUserOK
<1>4. CASE SetScriptOptions
  BY <1>4, ScriptOptionsOK
<1>5. CASE \E item \in {"file", "memory", "dialog"} : Menu(item)
  BY <1>5, MenuOK
<1>6. CASE RollbackThenContinue
  BY <1>6, RollbackThenContinueOK
<1>7. CASE CancelWarning \/ OpenDialog \/ CancelDialog
  BY <1>7, NothingDoneOK
<1>8. CASE DialogMemory \/ \E name \in Names : DialogFile(name)
  BY <1>8, DialogOK
<1>9. CASE \E mode \in AutoSaveModes : SetAutoSave(mode) \/ ChangePreference(mode)
  BY <1>9, AutoSaveModesOK
<1>10. CASE ResetPreferences
  BY <1>10, ResetPreferencesOK
<1>11. CASE TabEvent \/ TabsTimer
  BY <1>11, TabEventOK, TabsTimerOK
<1>12. CASE \E sql \in user.texts : EditTab(sql) \/ Reopen(sql) \/ ReplaceCurrent(sql)
  BY <1>12, TextsOK
<1>13. CASE HistoryEvent \/ HistoryTimer
  BY <1>13, HistoryEventOK
<1>14. CASE UNCHANGED vars
  BY <1>14, StutterOK
<1> QED BY <1>1, <1>2, <1>3, <1>4, <1>5, <1>6, <1>7, <1>8, <1>9, <1>10, <1>11, <1>12,
           <1>13, <1>14 DEF Next

(* So the invariant holds in every state.                                  *)
LEMMA AlwaysOK == Spec => []WorkbenchInv
<1>1. Init => WorkbenchInv
  BY InitOK
<1>2. WorkbenchInv /\ [Next]_vars => WorkbenchInv'
  BY StepOK
<1> QED BY <1>1, <1>2, PTL DEF Spec

(* The state of the workbench has its types; the session names a browser     *)
(* file unless the database is in memory.                                    *)
THEOREM WorkbenchTypeCorrect == Spec => []TypeOK
<1>1. WorkbenchInv => TypeOK
  BY TabsInvSays DEF WorkbenchInv, ClientInv, ClientOK, Clients, Known, ShellInv, TypeOK
<1> QED BY <1>1, AlwaysOK, PTL

(* After every event the session that the workbench shows, and by which its  *)
(* safeguard decides, is that of the open database.                          *)
THEOREM ShownAlwaysReal == Spec => []ShownIsReal
<1>1. WorkbenchInv => ShownIsReal
  BY DEF WorkbenchInv
<1> QED BY <1>1, AlwaysOK, PTL

(* When the status says Clean for a browser file, a page that is loaded      *)
(* finds the tables, however many writes localStorage has refused.           *)
THEOREM CleanAlwaysStored == Spec => []CleanMeansStored
<1>1. WorkbenchInv => CleanMeansStored
  BY DEF WorkbenchInv, ClientInv, FileTells, CleanMeansStored
<1> QED BY <1>1, AlwaysOK, PTL

(* A user who creates databases with the menu alone leaves no transaction    *)
(* behind.                                                                   *)
THEOREM MenuAlwaysKeeps == Spec => []MenuKeepsTransactions
<1>1. WorkbenchInv => MenuKeepsTransactions
  BY DEF WorkbenchInv, MenuSafe, MenuKeepsTransactions
<1> QED BY <1>1, AlwaysOK, PTL

(* There is one active tab as long as there are tabs, and a tab is found by  *)
(* its id.                                                                   *)
THEOREM AlwaysOneActiveTab == Spec => []OneActiveTab
<1>1. WorkbenchInv => OneActiveTab
  BY TabsInvSays DEF WorkbenchInv
<1> QED BY <1>1, AlwaysOK, PTL

(* Details are kept for the entries that are shown only.                     *)
THEOREM DetailsAlwaysHaveEntries == Spec => []DetailsHaveEntries
<1>1. WorkbenchInv => DetailsHaveEntries
  BY DEF WorkbenchInv, HistoryInv
<1> QED BY <1>1, AlwaysOK, PTL

(* What is gone from the history is in no copy of it again.                  *)
THEOREM GoneForGood == Spec => []GoneStaysGone
<1>1. WorkbenchInv => GoneStaysGone
  BY DEF WorkbenchInv, HistoryInv
<1> QED BY <1>1, AlwaysOK, PTL

(* What localStorage has accepted of the tabs since they were last changed,  *)
(* a page that is loaded shows: the same tabs, and the same one active.      *)
THEOREM ReloadsKeepTabs == Spec => ReloadKeepsTabs
<1>1. ASSUME WorkbenchInv, [Next]_vars, Reload, Mounted, session' # Loading, tabs # <<>>
      PROVE  /\ "tabs" \in tabsWritten => tabs' = tabs
             /\ "active" \in tabsWritten => activeTabId' = activeTabId
  <2>1. PICK c : IF onboarded /\ c.db # Rejected THEN Mount(c, autoSave, FALSE)
                 ELSE session' = IF c.db = Rejected THEN Loading ELSE SessionOf(c)
    BY <1>1 DEF Reload
  <2>2. MountTabs
    BY <1>1, <2>1 DEF Mounted, Mount
  <2>3. TabsInv /\ ("active" \in tabsWritten => "tabs" \in tabsWritten)
    BY <1>1 DEF WorkbenchInv, TabsInv
  <2> QED BY <1>1, <2>2, <2>3, StoredAreShown
<1>2. WorkbenchInv /\ [Next]_vars =>
        [Reload /\ Mounted /\ session' # Loading /\ tabs # <<>> =>
           /\ "tabs" \in tabsWritten => tabs' = tabs
           /\ "active" \in tabsWritten => activeTabId' = activeTabId]_vars
  BY <1>1
<1> QED BY <1>2, AlwaysOK, PTL DEF Spec, ReloadKeepsTabs
============================================================================
