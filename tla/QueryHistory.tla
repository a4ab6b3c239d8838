---------------------------- MODULE QueryHistory ----------------------------
(***************************************************************************)
(* The history of executions (frontend/src/features/history,               *)
(* useQueryHistory.ts and historyStorage.ts): the latest entries, newest   *)
(* first, with details in memory, and a copy of the entries that is saved  *)
(* to localStorage 250 ms after the last change, unless it refuses the     *)
(* write.                                                                  *)
(***************************************************************************)
EXTENDS Lists, FiniteSets, Functions

CONSTANT MaxRecords  \* bound on the entries that are ever recorded

VARIABLES
  entries,       \* the ids of the entries
  details,       \* the ids of the entries whose result and trace are kept
  historyTimers, \* the entries that each running timer is to save
  storedHistory, \* localStorage
  gone           \* history: ids of entries that were cleared, or that were in
                 \* localStorage and are no longer

historyVars == <<entries, details, historyTimers, storedHistory, gone>>

InitHistory ==
  /\ entries = <<>>
  /\ details = {}
  /\ historyTimers = {entries}
  /\ storedHistory = <<>>
  /\ gone = {}

(* Variant: the effect does not clear the timer of the effect before it.     *)
TimersPileUp == historyTimers' = historyTimers \cup {entries'}

(* The effect of entries that changed: its timer, which saves them, is the   *)
(* only one.                                                                 *)
RestartTimer == historyTimers' = {entries'}

(* createHistoryId: an id that is not in use.                                *)
FreshEntry ==
  LET used == Range(entries) \cup Range(storedHistory) \cup details \cup gone
  IN  CHOOSE id \in 1..(Cardinality(used) + 1) : id \notin used

FirstOf(s, n) == SubSeq(s, 1, IF Len(s) < n THEN Len(s) ELSE n)

(* Variant: the details are not trimmed.                                     *)
TrimNothing(kept, ids, limit) == kept

(* trimDetails: the retained ids are those of the entries before this one    *)
(* was added, and its own.                                                   *)
TrimDetails(kept, ids, limit) == kept \cap Range(FirstOf(ids, limit))

(* addHistoryRecord, with limit = MAX_HISTORY_ENTRIES.                       *)
AddHistoryRecord(limit) ==
  LET id == FreshEntry
  IN  /\ id <= MaxRecords
      /\ entries' = FirstOf(<<id>> \o entries, limit)
      /\ details' = TrimDetails(details \cup {id}, <<id>> \o entries, limit)
      /\ RestartTimer
      /\ UNCHANGED <<storedHistory, gone>>

RemoveHistoryEntry(id) ==
  /\ entries' = Without(entries, {i \in DOMAIN entries : entries[i] = id})
  /\ details' = details \ {id}
  /\ RestartTimer
  /\ UNCHANGED <<storedHistory, gone>>

ClearHistory ==
  /\ entries' = <<>>
  /\ details' = {}
  /\ storedHistory' = <<>>
  /\ RestartTimer
  /\ gone' = gone \cup Range(entries)

(* saveStoredQueryHistory, when a timer fires; the write may be refused.     *)
StoreHistory ==
  \E es \in historyTimers :
    /\ storedHistory' = es
    /\ historyTimers' = historyTimers \ {es}
    /\ gone' = gone \cup (Range(storedHistory) \ Range(es))
    /\ UNCHANGED <<entries, details>>

StoreHistoryRefused ==
  \E es \in historyTimers :
    /\ historyTimers' = historyTimers \ {es}
    /\ UNCHANGED <<entries, details, storedHistory, gone>>

(* loadStoredQueryHistory, when the page is loaded.                          *)
LoadHistory ==
  /\ entries' = storedHistory
  /\ details' = {}
  /\ RestartTimer
  /\ UNCHANGED <<storedHistory, gone>>

----------------------------------------------------------------------------
(* Properties.                                                             *)

(* Details are kept for entries that are shown only, also when entries leave *)
(* the history at its limit: results and traces do not pile up in memory.    *)
DetailsHaveEntries == details \subseteq Range(entries)

(* An entry that was cleared, or removed and then left out by the timer, is  *)
(* in no copy again: no page that is loaded and no late timer, with the      *)
(* entries that it saw, bring it back.                                       *)
GoneStaysGone == (Range(entries) \cup Range(storedHistory)) \cap gone = {}
============================================================================
