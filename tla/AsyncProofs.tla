----------------------------- MODULE AsyncProofs -----------------------------
(***************************************************************************)
(* Proofs about AsyncDatabase: however many callers there are, and however *)
(* their statements and saves interleave, the file never holds what was    *)
(* not committed; and as long as no call overlaps a save, a database that  *)
(* is marked clean is what the next open finds.                            *)
(***************************************************************************)
EXTENDS AsyncDatabase, TLAPS

(* A version that may be in the file: no transaction holds it back.          *)
Committed(v) == v <= versions /\ v \notin uncommitted \cup undone

(* Versions are numbered upwards, so a new one is in no file; outside a      *)
(* transaction the tables hold a committed version, and so does the snapshot *)
(* that a rollback restores.                                                 *)
CommitInv ==
  /\ StateTypeOK
  /\ \A v \in uncommitted \cup undone : 0 < v /\ v <= versions
  /\ content <= versions
  /\ content \notin undone
  /\ Active => Committed(snapshot)
  /\ ~Active => uncommitted = {}
  /\ \A v \in candidates \cup InFlight : Committed(v)

LEMMA VersionNumbers == Versions \subseteq Nat /\ 0 \in Versions
BY AsyncAssumption DEF Versions

LEMMA InFlightVersions ==
  ASSUME StateTypeOK
  PROVE  InFlight \subseteq Versions
<1>1. \A d \in Saving : saving[d] \in Saves
  BY DEF StateTypeOK, Saving
<1>2. QED
  BY <1>1 DEF InFlight, Saves

LEMMA BeginSaveWrites ==
  ASSUME StateTypeOK, NEW c \in Callers,
         NEW version \in Versions, BeginSave(c, version)
  PROVE  /\ saving' \in [Callers -> Saves \cup {NoSave}]
         /\ InFlight' \subseteq InFlight \cup {version}
<1> DEFINE mine == [version |-> version, alone |-> (Saving = {})]
<1>0. (Saving = {}) \in BOOLEAN
  OBVIOUS
<1>1. mine \in Saves /\ mine.version = version
  BY <1>0 DEF Saves
<1>2. ASSUME NEW d \in Saving
      PROVE  /\ [saving[d] EXCEPT !.alone = FALSE] \in Saves
             /\ [saving[d] EXCEPT !.alone = FALSE].version = saving[d].version
  BY <1>2 DEF StateTypeOK, Saving, Saves
<1>3. ASSUME NEW d \in Callers
      PROVE  \/ d = c /\ saving'[d] = mine
             \/ d # c /\ d \in Saving /\ saving'[d] = [saving[d] EXCEPT !.alone = FALSE]
             \/ d # c /\ d \notin Saving /\ saving'[d] = NoSave
  BY <1>3 DEF BeginSave
<1>4. saving' \in [Callers -> Saves \cup {NoSave}]
  <2> HIDE DEF mine
  <2>1. \A d \in Callers : saving'[d] \in Saves \cup {NoSave}
    BY <1>1, <1>2, <1>3
  <2>2. saving' = [d \in Callers |-> saving'[d]]
    BY DEF BeginSave
  <2>3. QED
    BY <2>1, <2>2
<1>5. ASSUME NEW d \in Callers, saving'[d] # NoSave
      PROVE  saving'[d].version \in InFlight \cup {version}
  <2>1. CASE d = c
    <3> HIDE DEF mine
    <3>1. QED
      BY <2>1, <1>1, <1>3
  <2>2. CASE d # c
    <3>1. d \in Saving /\ saving'[d] = [saving[d] EXCEPT !.alone = FALSE]
      BY <2>2, <1>3, <1>5
    <3>2. saving[d].version \in InFlight
      BY <3>1 DEF InFlight
    <3>3. QED
      BY <3>1, <3>2, <1>2
  <2>3. QED
    BY <2>1, <2>2
<1>6. QED
  BY <1>4, <1>5 DEF InFlight, Saving

LEMMA AutoSaveWrites ==
  ASSUME StateTypeOK, NEW c \in Callers,
         content' \in Versions, AutoSave(c)
  PROVE  /\ saving' \in [Callers -> Saves \cup {NoSave}]
         /\ \/ InFlight' \subseteq InFlight
            \/ snapshot' = NoSnapshot /\ InFlight' \subseteq InFlight \cup {content'}
<1>1. CASE autoSave # "off" /\ snapshot' = NoSnapshot
  BY <1>1, BeginSaveWrites DEF AutoSave
<1>2. CASE ~(autoSave # "off" /\ snapshot' = NoSnapshot)
  BY <1>2 DEF AutoSave, StateTypeOK, InFlight, Saving
<1>3. QED
  BY <1>1, <1>2

LEMMA ChangeMakesVersion ==
  ASSUME CommitInv, Change
  PROVE  /\ versions' \in Versions
         /\ content' \in Versions
         /\ versions' = versions + 1
         /\ content' = versions'
         /\ dirty' \in BOOLEAN
         /\ uncommitted' \subseteq Versions
BY AsyncAssumption DEF CommitInv, StateTypeOK, Change, Versions

LEMMA MutateKeepsCommitInv ==
  ASSUME CommitInv, NEW c \in Callers, Mutate(c)
  PROVE  CommitInv'
<1>1. Change /\ AutoSave(c) /\ UNCHANGED transaction
      /\ UNCHANGED <<autoSave, candidates, undone, excused>>
  BY DEF Mutate
<1>2. StateTypeOK'
  BY <1>1, ChangeMakesVersion, AutoSaveWrites DEF CommitInv, StateTypeOK, transaction
<1>3. /\ InFlight' \subseteq InFlight \cup {content'}
      /\ Active => InFlight' \subseteq InFlight
  BY <1>1, ChangeMakesVersion, AutoSaveWrites DEF CommitInv, transaction, Active
<1>4. versions \in Nat /\ candidates \subseteq Nat
  BY AsyncAssumption DEF CommitInv, StateTypeOK, Versions
<1>5. uncommitted' = IF Active THEN uncommitted \cup {versions + 1} ELSE {}
  BY <1>1, ChangeMakesVersion DEF Change, CommitInv
<1>6. InFlight \subseteq Nat /\ uncommitted \subseteq Nat /\ undone \subseteq Nat
  BY VersionNumbers, InFlightVersions DEF CommitInv, StateTypeOK
<1>7. \A v \in uncommitted' \cup undone' : 0 < v /\ v <= versions'
  BY <1>1, <1>4, <1>5, <1>6, ChangeMakesVersion DEF CommitInv
<1>8. content' <= versions' /\ content' \notin undone'
  BY <1>1, <1>4, <1>6, ChangeMakesVersion DEF CommitInv
<1>9. Active' => Committed(snapshot)'
  BY <1>1, <1>4, <1>5, ChangeMakesVersion, AsyncAssumption
     DEF CommitInv, Committed, Active, transaction, StateTypeOK, Versions
<1>10. ~Active' => uncommitted' = {}
  BY <1>1, <1>5 DEF Active, transaction
<1>11. \A v \in candidates' \cup InFlight' : Committed(v)'
  <2> SUFFICES ASSUME NEW v \in candidates \cup InFlight' PROVE Committed(v)'
    BY <1>1
  <2>1. CASE v \in candidates \cup InFlight
    BY <2>1, <1>1, <1>4, <1>5, <1>6, ChangeMakesVersion DEF CommitInv, Committed
  <2>2. CASE v = content' /\ ~Active
    BY <2>2, <1>1, <1>4, <1>5, <1>8, ChangeMakesVersion DEF Committed
  <2>3. QED
    BY <2>1, <2>2, <1>3
<1>12. QED
  BY <1>2, <1>7, <1>8, <1>9, <1>10, <1>11 DEF CommitInv
LEMMA BeginKeepsCommitInv ==
  ASSUME CommitInv, NEW c \in Callers, Begin(c)
  PROVE  CommitInv'
<1>1. StateTypeOK'
  BY DEF CommitInv, StateTypeOK, Begin
<1>2. Committed(content)
  BY DEF CommitInv, Committed, Begin
<1>3. QED
  BY <1>1, <1>2 DEF CommitInv, Committed, Begin, Active, InFlight, Saving

LEMMA CommitKeepsCommitInv ==
  ASSUME CommitInv, NEW c \in Callers, Commit(c)
  PROVE  CommitInv'
<1>1. content' = content /\ content \in Versions /\ AutoSave(c)
  BY DEF CommitInv, StateTypeOK, Commit
<1>2. /\ saving' \in [Callers -> Saves \cup {NoSave}]
      /\ InFlight' \subseteq InFlight \cup {content}
  BY <1>1, AutoSaveWrites DEF CommitInv
<1>3. StateTypeOK'
  BY <1>2 DEF CommitInv, StateTypeOK, Commit
<1>4. ~Active'
  BY DEF Commit, Active
<1>5. \A v \in candidates' \cup InFlight' : Committed(v)'
  BY <1>2 DEF CommitInv, Committed, Commit
<1>6. QED
  BY <1>3, <1>4, <1>5 DEF CommitInv, Commit

LEMMA RollbackKeepsCommitInv ==
  ASSUME CommitInv, NEW c \in Callers, Rollback(c)
  PROVE  CommitInv'
<1>1. StateTypeOK'
  BY DEF CommitInv, StateTypeOK, Rollback, Active
<1>2. ~Active'
  BY DEF Rollback, Active
<1>3. Committed(snapshot) /\ content' = snapshot
  BY DEF CommitInv, Rollback
<1>4. QED
  BY <1>1, <1>2, <1>3 DEF CommitInv, Committed, Rollback, InFlight, Saving

LEMMA SaveKeepsCommitInv ==
  ASSUME CommitInv, NEW c \in Callers, Save(c)
  PROVE  CommitInv'
<1>1. content \in Versions /\ BeginSave(c, content)
  BY DEF CommitInv, StateTypeOK, Save
<1>2. /\ saving' \in [Callers -> Saves \cup {NoSave}]
      /\ InFlight' \subseteq InFlight \cup {content}
  BY <1>1, BeginSaveWrites DEF CommitInv
<1>3. StateTypeOK'
  BY <1>2 DEF CommitInv, StateTypeOK, Save, transaction
<1>4. Committed(content)
  BY DEF CommitInv, Committed, Save
<1>5. QED
  BY <1>2, <1>3, <1>4 DEF CommitInv, Committed, Save, Active, transaction

LEMMA ScriptKeepsCommitInv ==
  ASSUME CommitInv, NEW c \in Callers, ScriptSucceeds(c) \/ ScriptFails(c)
  PROVE  CommitInv'
<1>1. CASE ScriptFails(c)
  <2>1. StateTypeOK'
    BY <1>1 DEF CommitInv, StateTypeOK, ScriptFails, transaction
  <2>2. QED
    BY <2>1, <1>1 DEF CommitInv, Committed, ScriptFails, Active, InFlight, Saving, transaction
<1>2. CASE ScriptSucceeds(c) /\ Change
  <2>1. c \notin Saving /\ ~Active /\ AutoSave(c) /\ UNCHANGED transaction
        /\ UNCHANGED <<autoSave, candidates, undone, excused>>
    BY <1>2 DEF ScriptSucceeds
  <2>2. StateTypeOK'
    BY <1>2, <2>1, ChangeMakesVersion, AutoSaveWrites DEF CommitInv, StateTypeOK, transaction
  <2>3. InFlight' \subseteq InFlight \cup {content'}
    BY <1>2, <2>1, ChangeMakesVersion, AutoSaveWrites DEF CommitInv
  <2>4. versions \in Nat /\ candidates \cup InFlight \cup undone \subseteq Nat
    BY VersionNumbers, InFlightVersions DEF CommitInv, StateTypeOK
  <2>5. ~Active' /\ uncommitted' = {}
    BY <1>2, <2>1 DEF Active, transaction, Change, CommitInv
  <2>6. content' = versions + 1 /\ versions' = versions + 1
    BY <1>2, ChangeMakesVersion
  <2>7. /\ \A v \in undone' : 0 < v /\ v <= versions'
        /\ content' <= versions' /\ content' \notin undone'
    BY <2>1, <2>4, <2>6 DEF CommitInv
  <2>8. \A v \in candidates' \cup InFlight' : Committed(v)'
    BY <2>1, <2>3, <2>4, <2>5, <2>6, <2>7 DEF CommitInv, Committed
  <2>9. QED
    BY <2>2, <2>5, <2>7, <2>8 DEF CommitInv
<1>3. CASE ScriptSucceeds(c) /\ UNCHANGED <<content, versions, dirty, uncommitted>>
  <2>1. /\ ~Active /\ AutoSave(c) /\ UNCHANGED transaction
        /\ UNCHANGED <<autoSave, candidates, undone, excused>>
    BY <1>3 DEF ScriptSucceeds
  <2>2. /\ saving' \in [Callers -> Saves \cup {NoSave}]
        /\ InFlight' \subseteq InFlight \cup {content}
    BY <1>3, <2>1, AutoSaveWrites DEF CommitInv, StateTypeOK
  <2>3. StateTypeOK'
    BY <1>3, <2>1, <2>2 DEF CommitInv, StateTypeOK, transaction
  <2>4. Committed(content)
    BY <2>1 DEF CommitInv, Committed
  <2>5. QED
    BY <1>3, <2>1, <2>2, <2>3, <2>4 DEF CommitInv, Committed, Active, transaction
<1>4. QED
  BY <1>1, <1>2, <1>3 DEF ScriptSucceeds

LEMMA SaveEndsKeepsCommitInv ==
  ASSUME CommitInv, NEW c \in Callers, SaveSucceeds(c) \/ SaveFails(c)
  PROVE  CommitInv'
<1>1. c \in Saving /\ saving[c].version \in InFlight
  BY DEF SaveSucceeds, SaveFails, InFlight
<1>2. candidates' \subseteq candidates \cup InFlight \cup {0}
  BY <1>1 DEF SaveSucceeds, SaveFails, Leftovers
<1>3. saving' = [saving EXCEPT ![c] = NoSave]
  BY DEF SaveSucceeds, SaveFails
<1>4. InFlight' \subseteq InFlight
  BY <1>3 DEF InFlight, Saving, CommitInv, StateTypeOK
<1>5. candidates \cup InFlight \cup {0} \subseteq Versions
  BY VersionNumbers, InFlightVersions DEF CommitInv, StateTypeOK
<1>6. StateTypeOK'
  BY <1>2, <1>3, <1>5 DEF CommitInv, StateTypeOK, SaveSucceeds, SaveFails, transaction
<1>7. Committed(0)
  BY AsyncAssumption DEF CommitInv, Committed, StateTypeOK, Versions
<1>8. QED
  BY <1>2, <1>4, <1>6, <1>7 DEF CommitInv, Committed, SaveSucceeds, SaveFails, Active, transaction

LEMMA RestartKeepsCommitInv ==
  ASSUME CommitInv, Restart
  PROVE  CommitInv'
<1>1. content' \in candidates \cup InFlight \cup {0}
  BY DEF Restart
<1>2. candidates \cup InFlight \cup {0} \subseteq Versions
  BY VersionNumbers, InFlightVersions DEF CommitInv, StateTypeOK
<1>3. StateTypeOK'
  BY <1>1, <1>2 DEF CommitInv, StateTypeOK, Restart
<1>4. Committed(0)
  BY AsyncAssumption DEF CommitInv, Committed, StateTypeOK, Versions
<1>5. Committed(content')
  BY <1>1, <1>4 DEF CommitInv
<1>6. InFlight' = {} /\ ~Active'
  BY DEF Restart, InFlight, Saving, Active
<1>7. QED
  BY <1>3, <1>5, <1>6 DEF CommitInv, Committed, Restart

LEMMA StepCommitInv == CommitInv /\ [Next]_vars => CommitInv'
<1> SUFFICES ASSUME CommitInv, [Next]_vars PROVE CommitInv'
  OBVIOUS
<1>1. CASE \E c \in Callers : Call(c) \/ Return(c)
  BY <1>1, MutateKeepsCommitInv, BeginKeepsCommitInv, CommitKeepsCommitInv,
     RollbackKeepsCommitInv, SaveKeepsCommitInv, ScriptKeepsCommitInv,
     SaveEndsKeepsCommitInv DEF Call, Return, Execute
<1>2. ASSUME NEW mode \in AutoSaveModes, Set(mode) PROVE CommitInv'
  <2>1. SetAutoSave(mode)
    BY <1>2 DEF Set
  <2>2. StateTypeOK'
    BY <2>1 DEF CommitInv, StateTypeOK, SetAutoSave, transaction
  <2>3. QED
    BY <2>1, <2>2 DEF CommitInv, Committed, SetAutoSave, Active, InFlight, Saving, transaction
<1>3. CASE Restart
  BY <1>3, RestartKeepsCommitInv
<1>4. CASE UNCHANGED vars
  BY <1>4 DEF vars, transaction, CommitInv, Committed, StateTypeOK, Active, InFlight, Saving
<1>5. QED
  BY <1>1, <1>2, <1>3, <1>4 DEF Next

LEMMA InitCommitInv == Init => CommitInv
<1> SUFFICES ASSUME Init PROVE CommitInv
  OBVIOUS
<1>1. StateTypeOK
  BY VersionNumbers DEF Init, StateTypeOK
<1>2. InFlight = {} /\ ~Active
  BY DEF Init, InFlight, Saving, Active
<1>3. QED
  BY <1>1, <1>2 DEF Init, CommitInv, Committed

(* However many callers interleave, the file never holds a change that was   *)
(* rolled back or is not committed yet.                                      *)
THEOREM FileAlwaysCommitted == Spec => []FileIsCommitted
<1>1. CommitInv => FileIsCommitted
  BY DEF CommitInv, Committed, FileIsCommitted
<1>2. QED
  BY <1>1, InitCommitInv, StepCommitInv, PTL DEF Spec

(* Every variable keeps its type.                                            *)
THEOREM AsyncTypeCorrect == Spec => []TypeOK
<1>1. CommitInv /\ overlapped \in BOOLEAN /\ [Next]_vars => (overlapped \in BOOLEAN)'
  BY DEF Next, Call, Return, Set, Restart, vars
<1>2. Init => overlapped \in BOOLEAN
  BY DEF Init
<1>3. CommitInv /\ overlapped \in BOOLEAN => TypeOK
  BY DEF CommitInv, TypeOK
<1>4. QED
  BY <1>1, <1>2, <1>3, InitCommitInv, StepCommitInv, PTL DEF Spec

----------------------------------------------------------------------------
(* Calls that do not overlap a save.  While one is awaited nothing else      *)
(* happens to the tables, so the version it writes is still the content when *)
(* it marks them clean; and a rollback puts back a flag that was right.      *)

Quiet ==
  /\ CleanMeansSaved
  /\ Active /\ ~dirtyAtBegin => candidates = {snapshot}
  /\ \A c, d \in Saving : c = d
  /\ \A c \in Saving : saving[c].version = content /\ saving[c].alone /\ ~Active

QuietInv == CommitInv /\ (~overlapped => Quiet)

LEMMA QuietSaveBegins ==
  ASSUME Saving = {}, NEW c \in Callers, NEW version \in Versions,
         BeginSave(c, version)
  PROVE  /\ \A d, e \in Saving' : d = e
         /\ \A d \in Saving' : saving'[d].version = version /\ saving'[d].alone
<1>1. \A d \in Callers :
        saving'[d] = IF d = c THEN [version |-> version, alone |-> TRUE] ELSE NoSave
  BY DEF BeginSave
<1>2. \A d \in Saving' : d = c
  BY <1>1 DEF Saving
<1>3. QED
  BY <1>1, <1>2

LEMMA QuietAutoSave ==
  ASSUME Saving = {}, NEW c \in Callers, content' \in Versions, AutoSave(c)
  PROVE  /\ \A d, e \in Saving' : d = e
         /\ \A d \in Saving' : /\ saving'[d].version = content' /\ saving'[d].alone
                                /\ ~Active'
<1>1. CASE autoSave # "off" /\ snapshot' = NoSnapshot
  BY <1>1, QuietSaveBegins DEF AutoSave, Active
<1>2. CASE ~(autoSave # "off" /\ snapshot' = NoSnapshot)
  BY <1>2 DEF AutoSave, Saving
<1>3. QED
  BY <1>1, <1>2

LEMMA QuietExecute ==
  ASSUME CommitInv, Quiet, Saving = {}, NEW c \in Callers, Execute(c)
  PROVE  Quiet'
<1> USE DEF Quiet
<1>1. CASE Mutate(c)
  BY <1>1, ChangeMakesVersion, QuietAutoSave
     DEF Mutate, Change, CleanMeansSaved, Active, transaction
<1>2. CASE Begin(c)
  <2>1. Saving' = {}
    BY <1>2 DEF Begin, Saving
  <2>2. QED
    BY <1>2, <2>1 DEF Begin, CleanMeansSaved
<1>3. CASE Commit(c)
  <2>1. content' = content /\ content' \in Versions /\ AutoSave(c)
    BY <1>3 DEF CommitInv, StateTypeOK, Commit
  <2>2. ~Active'
    BY <1>3 DEF Commit, Active
  <2>3. QED
    BY <1>3, <2>1, <2>2, QuietAutoSave DEF Commit, CleanMeansSaved
<1>4. CASE Rollback(c)
  <2>1. Saving' = {} /\ ~Active'
    BY <1>4 DEF Rollback, Saving, Active
  <2>2. QED
    BY <1>4, <2>1 DEF Rollback, CleanMeansSaved
<1>5. CASE Save(c)
  <2>1. content \in Versions /\ BeginSave(c, content)
    BY <1>5 DEF CommitInv, StateTypeOK, Save
  <2>2. ~Active'
    BY <1>5 DEF Save, Active, transaction
  <2>3. QED
    BY <1>5, <2>1, <2>2, QuietSaveBegins DEF Save, CleanMeansSaved
<1>6. CASE ScriptFails(c)
  <2>1. /\ UNCHANGED <<content, candidates, saving>>
        /\ Saving' = {} /\ ~Active'
    BY <1>6 DEF ScriptFails, Saving, Active, transaction
  <2>2. CASE dirty' = dirty
    BY <2>1, <2>2 DEF CleanMeansSaved
  <2>3. CASE dirty' = TRUE
    BY <2>1, <2>3 DEF CleanMeansSaved
  <2>4. QED
    BY <1>6, <2>2, <2>3 DEF ScriptFails
<1>7. CASE ScriptSucceeds(c)
  <2>1. ~Active' /\ candidates' = candidates /\ AutoSave(c)
    BY <1>7 DEF ScriptSucceeds, Active, transaction
  <2>2. content' \in Versions /\ (~dirty' => ~dirty /\ content' = content)
    <3>1. CASE Change
      BY <3>1, ChangeMakesVersion DEF Change
    <3>2. CASE UNCHANGED <<content, versions, dirty, uncommitted>>
      BY <3>2 DEF CommitInv, StateTypeOK
    <3>3. QED
      BY <1>7, <3>1, <3>2 DEF ScriptSucceeds
  <2>3. QED
    BY <2>1, <2>2, QuietAutoSave DEF CleanMeansSaved
<1>8. QED
  BY <1>1, <1>2, <1>3, <1>4, <1>5, <1>6, <1>7 DEF Execute

LEMMA QuietReturn ==
  ASSUME CommitInv, Quiet, NEW c \in Callers, SaveSucceeds(c) \/ SaveFails(c)
  PROVE  Quiet'
<1> USE DEF Quiet
<1>1. c \in Saving /\ saving[c].version = content /\ saving[c].alone /\ ~Active
  BY DEF SaveSucceeds, SaveFails
<1>2. Saving' = {}
  BY DEF SaveSucceeds, SaveFails, Saving, CommitInv, StateTypeOK
<1>3. content' = content /\ (~dirty' => candidates' = {content})
  BY <1>1 DEF SaveSucceeds, SaveFails, CleanMeansSaved
<1>4. ~Active'
  BY <1>1 DEF SaveSucceeds, SaveFails, Active, transaction
<1>5. QED
  BY <1>2, <1>3, <1>4 DEF CleanMeansSaved

LEMMA StepQuietInv == QuietInv /\ [Next]_vars => QuietInv'
<1> SUFFICES ASSUME QuietInv, [Next]_vars, ~overlapped' PROVE Quiet'
  BY StepCommitInv DEF QuietInv
<1> USE DEF QuietInv
<1>1. ASSUME NEW c \in Callers, Call(c) PROVE Quiet'
  <2>1. ~overlapped /\ Saving = {} /\ Execute(c)
    BY <1>1 DEF Call
  <2>2. QED
    BY <2>1, QuietExecute
<1>2. ASSUME NEW c \in Callers, Return(c) PROVE Quiet'
  <2>1. ~overlapped /\ (SaveSucceeds(c) \/ SaveFails(c))
    BY <1>2 DEF Return
  <2>2. QED
    BY <2>1, QuietReturn
<1>3. ASSUME NEW mode \in AutoSaveModes, Set(mode) PROVE Quiet'
  BY <1>3 DEF Quiet, Set, SetAutoSave, CleanMeansSaved, Active, Saving, transaction
<1>4. CASE Restart
  <2>1. Saving' = {} /\ ~Active'
    BY <1>4 DEF Restart, Saving, Active
  <2>2. QED
    BY <1>4, <2>1 DEF Restart, Quiet, CleanMeansSaved
<1>5. CASE UNCHANGED vars
  BY <1>5 DEF vars, transaction, Quiet, CleanMeansSaved, Active, Saving
<1>6. QED
  BY <1>1, <1>2, <1>3, <1>4, <1>5 DEF Next

(* As long as no call is made while another awaits a save, clean means       *)
(* saved, whatever saves fail and wherever the process ends.                 *)
THEOREM CleanAlwaysMeansSaved == Spec => []CleanIsSaved
<1>1. Init => QuietInv
  <2> SUFFICES ASSUME Init PROVE Quiet
    BY InitCommitInv DEF QuietInv
  <2>1. Saving = {} /\ ~Active
    BY DEF Init, Saving, Active
  <2>2. QED
    BY <2>1 DEF Init, Quiet, CleanMeansSaved
<1>2. QuietInv => CleanIsSaved
  BY DEF QuietInv, Quiet, CleanIsSaved
<1>3. QED
  BY <1>1, <1>2, StepQuietInv, PTL DEF Spec

----------------------------------------------------------------------------
(* Auto-save.  Whatever is left outside a transaction has started a save,    *)
(* and so has what a transaction began with: a rollback needs none.          *)

AutoSaveInv ==
  /\ QuietInv
  /\ ~overlapped => (Active /\ dirtyAtBegin => dirty)
  /\ autoSave # "off" /\ ~excused /\ ~overlapped =>
       /\ ~Active /\ Saving = {} => candidates = {content}
       /\ Active => candidates = {snapshot}

LEMMA AutoSaveStarts ==
  ASSUME Saving = {}, NEW c \in Callers, content' \in Versions,
         AutoSave(c), autoSave # "off", ~Active'
  PROVE  Saving' # {}
<1>1. BeginSave(c, content')
  BY DEF AutoSave, Active
<1>2. saving'[c] = [version |-> content', alone |-> TRUE]
  BY <1>1 DEF BeginSave
<1>3. saving'[c] \in Saves
  BY <1>2 DEF Saves
<1>4. saving'[c] # NoSave
  BY <1>3, AsyncAssumption
<1>5. QED
  BY <1>4 DEF Saving

LEMMA AutoSaveExecute ==
  ASSUME AutoSaveInv, ~overlapped, Saving = {}, NEW c \in Callers, Execute(c)
  PROVE  /\ Active' /\ dirtyAtBegin' => dirty'
         /\ autoSave' # "off" /\ ~excused' =>
              /\ ~Active' /\ Saving' = {} => candidates' = {content'}
              /\ Active' => candidates' = {snapshot'}
<1> USE DEF AutoSaveInv, QuietInv
<1>1. CASE Mutate(c)
  <2>1. /\ UNCHANGED <<autoSave, candidates, excused, snapshot, dirtyAtBegin>>
        /\ dirty' = TRUE /\ content' \in Versions /\ AutoSave(c)
    BY <1>1, ChangeMakesVersion DEF Mutate, Change, transaction
  <2>2. QED
    BY <2>1, AutoSaveStarts DEF Active
<1>2. CASE Begin(c)
  BY <1>2 DEF Begin, Active
<1>3. CASE Commit(c)
  <2>1. ~Active' /\ AutoSave(c) /\ autoSave' = autoSave /\ content' \in Versions
    BY <1>3 DEF Commit, Active, CommitInv, StateTypeOK
  <2>2. QED
    BY <2>1, AutoSaveStarts
<1>4. CASE Rollback(c)
  BY <1>4 DEF Rollback, Active
<1>5. CASE Save(c)
  <2>1. ~Active' /\ content \in Versions /\ BeginSave(c, content)
    BY <1>5 DEF Save, Active, transaction, CommitInv, StateTypeOK
  <2>2. saving'[c] = [version |-> content, alone |-> TRUE]
    BY <2>1 DEF BeginSave
  <2>3. saving'[c] \in Saves
    BY <2>1, <2>2 DEF Saves
  <2>4. Saving' # {}
    BY <2>3, AsyncAssumption DEF Saving
  <2>5. QED
    BY <2>1, <2>4
<1>6. CASE ScriptFails(c)
  BY <1>6 DEF ScriptFails, Active, transaction
<1>7. CASE ScriptSucceeds(c)
  <2>1. ~Active' /\ AutoSave(c) /\ UNCHANGED <<autoSave, candidates, excused>>
    BY <1>7 DEF ScriptSucceeds, Active, transaction
  <2>2. content' \in Versions
    BY <1>7, ChangeMakesVersion DEF ScriptSucceeds, CommitInv, StateTypeOK
  <2>3. QED
    BY <2>1, <2>2, AutoSaveStarts
<1>8. QED
  BY <1>1, <1>2, <1>3, <1>4, <1>5, <1>6, <1>7 DEF Execute

LEMMA StepAutoSaveInv == AutoSaveInv /\ [Next]_vars => AutoSaveInv'
<1> SUFFICES ASSUME AutoSaveInv, [Next]_vars, ~overlapped'
             PROVE  /\ Active' /\ dirtyAtBegin' => dirty'
                    /\ autoSave' # "off" /\ ~excused' =>
                         /\ ~Active' /\ Saving' = {} => candidates' = {content'}
                         /\ Active' => candidates' = {snapshot'}
  BY StepQuietInv DEF AutoSaveInv
<1> DEFINE Goal == /\ Active' /\ dirtyAtBegin' => dirty'
                   /\ autoSave' # "off" /\ ~excused' =>
                        /\ ~Active' /\ Saving' = {} => candidates' = {content'}
                        /\ Active' => candidates' = {snapshot'}
<1>1. ASSUME NEW c \in Callers, Call(c) PROVE Goal
  <2>1. ~overlapped /\ Saving = {} /\ Execute(c)
    BY <1>1 DEF Call
  <2>2. QED
    BY <2>1, AutoSaveExecute
<1>2. ASSUME NEW c \in Callers, Return(c) PROVE Goal
  <2>1. ~overlapped /\ (SaveSucceeds(c) \/ SaveFails(c)) /\ Quiet /\ CommitInv
    BY <1>2 DEF Return, AutoSaveInv, QuietInv
  <2>2. /\ ~Active /\ ~Active' /\ c \in Saving
        /\ saving[c].version = content /\ saving[c].alone /\ content' = content
    BY <2>1 DEF SaveSucceeds, SaveFails, Quiet, Active, transaction
  <2>3. CASE SaveSucceeds(c)
    BY <2>2, <2>3 DEF SaveSucceeds
  <2>4. CASE SaveFails(c)
    BY <2>2, <2>4 DEF SaveFails
  <2>5. QED
    BY <2>1, <2>3, <2>4
<1>3. ASSUME NEW mode \in AutoSaveModes, Set(mode) PROVE Goal
  <2>1. /\ ~overlapped /\ Quiet
        /\ UNCHANGED <<content, snapshot, dirtyAtBegin, dirty, saving, candidates>>
        /\ excused' = (excused \/ dirty)
    BY <1>3 DEF Set, SetAutoSave, AutoSaveInv, QuietInv, transaction
  <2>2. ~excused' => ~dirty
    BY <2>1
  <2>3. Active' = Active /\ Saving' = Saving
    BY <2>1 DEF Active, Saving
  <2>4. QED
    BY <2>1, <2>2, <2>3 DEF Quiet, CleanMeansSaved, AutoSaveInv
<1>4. CASE Restart
  BY <1>4 DEF Restart, Active
<1>5. CASE UNCHANGED vars
  BY <1>5 DEF vars, transaction, Active, Saving, AutoSaveInv
<1>6. QED
  BY <1>1, <1>2, <1>3, <1>4, <1>5 DEF Next

(* With auto-save on, no commit, mutation or atomic script leaves a change   *)
(* behind that is neither in the file nor excused by a save that failed.     *)
THEOREM AutoSaveAlwaysSaves == Spec => []AutoSaved
<1>1. Init => AutoSaveInv
  <2> SUFFICES ASSUME Init PROVE AutoSaveInv
    OBVIOUS
  <2>1. Saving = {} /\ ~Active
    BY DEF Init, Saving, Active
  <2>2. QED
    BY <2>1, InitCommitInv DEF Init, AutoSaveInv, QuietInv, Quiet, CleanMeansSaved
<1>2. AutoSaveInv => AutoSaved
  BY DEF AutoSaveInv, AutoSaved
<1>3. QED
  BY <1>1, <1>2, StepAutoSaveInv, PTL DEF Spec
============================================================================
