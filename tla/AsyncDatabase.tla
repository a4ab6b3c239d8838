---------------------------- MODULE AsyncDatabase ----------------------------
(***************************************************************************)
(* The asynchronous interface: executeAsync of src/execution/executor.ts   *)
(* and script-executor.ts, with Database.save, which awaits the file.      *)
(* Several callers share one database.  JavaScript runs a statement to its *)
(* end, up to the snapshot that its save writes, before another caller     *)
(* runs; the only await that matters is the one on the file.  The database *)
(* is marked clean after it.                                               *)
(*                                                                         *)
(* A content of the tables is a version.  What a save, complete or not,    *)
(* does to the file is what DurableStore says: candidates are the versions *)
(* the next open may find.  A non-atomic script is a caller that runs one  *)
(* statement after the other.                                              *)
(***************************************************************************)
EXTENDS Naturals

CONSTANTS
  Callers,
  NoSave,       \* the caller awaits no save
  NoSnapshot,   \* no transaction is active
  AutoSaveModes,
  MaxVersions   \* bound on the contents the tables have

VARIABLES
  content,      \* the version in the tables
  versions,     \* the versions made so far
  snapshot,     \* the version BEGIN saw, or NoSnapshot
  dirtyAtBegin, \* TransactionManager.activeDirtySnapshot
  dirty,        \* persistenceMetadata.dirty
  autoSave,     \* autoSaveMode
  saving,       \* saving[c]: the save that caller c awaits, or NoSave
  candidates,   \* the versions the next open may find in the file
  uncommitted,  \* history: the versions made in the active transaction
  undone,       \* history: the versions that transactions took back
  excused,      \* history: auto-save failed, or was switched on late
  overlapped    \* history: a call was made while another awaited a save

transaction == <<snapshot, dirtyAtBegin>>
vars == <<content, versions, transaction, dirty, autoSave, saving, candidates,
          uncommitted, undone, excused, overlapped>>

Versions == 0..MaxVersions   \* 0 is the empty database

Saves == [version : Versions, alone : BOOLEAN]

ASSUME AsyncAssumption ==
  /\ AutoSaveModes \subseteq {"off", "on-commit", "after-mutation"}
  /\ MaxVersions \in Nat
  /\ NoSnapshot \notin Versions
  /\ NoSave \notin Saves

Active == snapshot # NoSnapshot
Saving == {c \in Callers : saving[c] # NoSave}
InFlight == {saving[c].version : c \in Saving}

(* Database.open on a path that has no file.                                 *)
Init ==
  /\ content = 0
  /\ versions = 0
  /\ snapshot = NoSnapshot
  /\ dirtyAtBegin = FALSE
  /\ dirty = FALSE
  /\ autoSave \in AutoSaveModes
  /\ saving = [c \in Callers |-> NoSave]
  /\ candidates = {0}
  /\ uncommitted = {}
  /\ undone = {}
  /\ excused = FALSE
  /\ overlapped = FALSE

----------------------------------------------------------------------------
(* Database.save up to its first await: the snapshot is taken here.  Saves   *)
(* that overlap are not alone: they share .tmp and .bak.                     *)
BeginSave(c, version) ==
  saving' = [d \in Callers |->
    IF d = c THEN [version |-> version, alone |-> (Saving = {})]
    ELSE IF d \in Saving THEN [saving[d] EXCEPT !.alone = FALSE]
    ELSE NoSave]

(* Variants: the transaction is looked at as it was before the statement;    *)
(* the transaction is not looked at.                                         *)
AutoSaveTooEarly(c) ==
  IF autoSave # "off" /\ ~Active THEN BeginSave(c, content') ELSE UNCHANGED saving

AutoSaveAlways(c) ==
  IF autoSave # "off" THEN BeginSave(c, content') ELSE UNCHANGED saving

(* maybeAutoSave: shouldAutoSave looks at the transaction as the statement   *)
(* left it, and makes no difference between the two modes.                   *)
AutoSave(c) ==
  IF autoSave # "off" /\ snapshot' = NoSnapshot
  THEN BeginSave(c, content')
  ELSE UNCHANGED saving

(* The statement takes effect.                                               *)
Change ==
  /\ versions < MaxVersions
  /\ versions' = versions + 1
  /\ content' = versions'
  /\ dirty' = TRUE
  /\ uncommitted' = IF Active THEN uncommitted \cup {content'} ELSE uncommitted

(* CREATE TABLE, INSERT, UPDATE or DELETE.  One that fails, or affects no    *)
(* row, changes and saves nothing.                                           *)
Mutate(c) ==
  /\ c \notin Saving
  /\ Change
  /\ UNCHANGED transaction
  /\ AutoSave(c)
  /\ UNCHANGED <<autoSave, candidates, undone, excused>>

Begin(c) ==
  /\ c \notin Saving
  /\ ~Active
  /\ snapshot' = content
  /\ dirtyAtBegin' = dirty
  /\ UNCHANGED <<content, versions, dirty, autoSave, saving, candidates,
                 uncommitted, undone, excused>>

Commit(c) ==
  /\ c \notin Saving
  /\ Active
  /\ snapshot' = NoSnapshot
  /\ dirtyAtBegin' = FALSE
  /\ UNCHANGED <<content, versions, dirty>>
  /\ AutoSave(c)
  /\ uncommitted' = {}
  /\ UNCHANGED <<autoSave, candidates, undone, excused>>

Rollback(c) ==
  /\ c \notin Saving
  /\ Active
  /\ content' = snapshot
  /\ dirty' = dirtyAtBegin
  /\ snapshot' = NoSnapshot
  /\ dirtyAtBegin' = FALSE
  /\ undone' = undone \cup uncommitted
  /\ uncommitted' = {}
  /\ UNCHANGED <<versions, autoSave, saving, candidates, excused>>

(* The statement SAVE, and Database.save.                                    *)
Save(c) ==
  /\ c \notin Saving
  /\ ~Active
  /\ BeginSave(c, content)
  /\ UNCHANGED <<content, versions, transaction, dirty, autoSave, candidates,
                 uncommitted, undone, excused>>

(* An atomic script runs its statements synchronously and is refused in a    *)
(* transaction.  One that fails restores the tables and not the dirty flag;  *)
(* one that succeeds is saved even if it changed nothing.                    *)
ScriptSucceeds(c) ==
  /\ c \notin Saving
  /\ ~Active
  /\ Change \/ UNCHANGED <<content, versions, dirty, uncommitted>>
  /\ UNCHANGED transaction
  /\ AutoSave(c)
  /\ UNCHANGED <<autoSave, candidates, undone, excused>>

ScriptFails(c) ==
  /\ c \notin Saving
  /\ ~Active
  /\ dirty' \in {dirty, TRUE}
  /\ UNCHANGED <<content, versions, transaction, autoSave, saving, candidates,
                 uncommitted, undone, excused>>

SetAutoSave(mode) ==
  /\ autoSave' = mode
  /\ excused' = (excused \/ dirty)
  /\ UNCHANGED <<content, versions, transaction, dirty, saving, candidates,
                 uncommitted, undone>>

----------------------------------------------------------------------------
(* The file.  A save that runs alone leaves what DurableStore says; saves    *)
(* that overlap may leave any of the versions involved, or no readable file. *)

Leftovers == SUBSET (candidates \cup InFlight \cup {0})

SaveSucceeds(c) ==
  /\ c \in Saving
  /\ IF saving[c].alone THEN candidates' = {saving[c].version}
                        ELSE candidates' \in Leftovers
  /\ saving' = [saving EXCEPT ![c] = NoSave]
  /\ dirty' = FALSE
  /\ excused' = FALSE
  /\ UNCHANGED <<content, versions, transaction, autoSave, uncommitted, undone>>

(* Variant: the database is marked clean whether or not the save succeeded.  *)
SaveFailsClean(c) ==
  /\ c \in Saving
  /\ candidates' \in {candidates, candidates \cup {saving[c].version}}
  /\ saving' = [saving EXCEPT ![c] = NoSave]
  /\ excused' = TRUE
  /\ dirty' = FALSE
  /\ UNCHANGED <<content, versions, transaction, autoSave, uncommitted, undone>>

SaveFails(c) ==
  /\ c \in Saving
  /\ IF saving[c].alone
     THEN candidates' \in {candidates, candidates \cup {saving[c].version},
                           {saving[c].version}}
     ELSE candidates' \in Leftovers
  /\ saving' = [saving EXCEPT ![c] = NoSave]
  /\ excused' = TRUE
  /\ UNCHANGED <<content, versions, transaction, dirty, autoSave, uncommitted, undone>>

(* The process ends, in the middle of a save or not, and another opens the   *)
(* file.                                                                     *)
Restart ==
  /\ content' \in candidates \cup InFlight
                    \cup (IF \A c \in Saving : saving[c].alone THEN {} ELSE {0})
  /\ candidates' = {content'}
  /\ saving' = [c \in Callers |-> NoSave]
  /\ snapshot' = NoSnapshot
  /\ dirtyAtBegin' = FALSE
  /\ dirty' = FALSE
  /\ autoSave' \in AutoSaveModes
  /\ undone' = undone \cup uncommitted
  /\ uncommitted' = {}
  /\ excused' = FALSE
  /\ overlapped' = FALSE
  /\ UNCHANGED versions

----------------------------------------------------------------------------
Execute(c) ==
  \/ Mutate(c)
  \/ Begin(c)
  \/ Commit(c)
  \/ Rollback(c)
  \/ Save(c)
  \/ ScriptSucceeds(c)
  \/ ScriptFails(c)

Call(c) ==
  /\ Execute(c)
  /\ overlapped' = (overlapped \/ Saving # {})

Return(c) ==
  /\ SaveSucceeds(c) \/ SaveFails(c)
  /\ UNCHANGED overlapped

Set(mode) ==
  /\ SetAutoSave(mode)
  /\ UNCHANGED overlapped

Next ==
  \/ \E c \in Callers : Call(c) \/ Return(c)
  \/ \E mode \in AutoSaveModes : Set(mode)
  \/ Restart

Spec == Init /\ [][Next]_vars

----------------------------------------------------------------------------
(* Properties.                                                             *)

(* Every variable has its type.                                              *)
StateTypeOK ==
  /\ content \in Versions
  /\ versions \in Versions
  /\ snapshot \in Versions \cup {NoSnapshot}
  /\ dirtyAtBegin \in BOOLEAN
  /\ dirty \in BOOLEAN
  /\ autoSave \in AutoSaveModes
  /\ saving \in [Callers -> Saves \cup {NoSave}]
  /\ candidates \subseteq Versions
  /\ uncommitted \subseteq Versions
  /\ undone \subseteq Versions
  /\ excused \in BOOLEAN

TypeOK == StateTypeOK /\ overlapped \in BOOLEAN

(* What is not dirty is what the next open finds, whatever saves fail and    *)
(* wherever the process ends: a change that is in memory only keeps the      *)
(* database dirty (persistence-workflow.test.ts), ...                        *)
CleanMeansSaved == ~dirty => candidates = {content}

(* ... as long as no call is made while another awaits a save.               *)
CleanIsSaved == overlapped \/ CleanMeansSaved

(* With auto-save on, what callers have seen succeed outside a transaction   *)
(* is in the file: a commit, a mutation and an atomic script leave nothing   *)
(* for a later SAVE unless the save itself failed.                           *)
AutoSaved ==
  autoSave # "off" /\ ~Active /\ Saving = {} /\ ~excused /\ ~overlapped
    => candidates = {content}

(* The file never holds, and no save ever writes, what a transaction has     *)
(* changed and not committed, nor what was rolled back, whoever else saves   *)
(* meanwhile.                                                                *)
FileIsCommitted ==
  (candidates \cup InFlight) \cap (uncommitted \cup undone) = {}
============================================================================
