---------------------------- MODULE ScriptsProofs ----------------------------
(***************************************************************************)
(* Proofs about Scripts, for any callers and any scripts: step by step it  *)
(* implements AsyncDatabase, so what AsyncProofs proves of the file holds  *)
(* of scripts as well; and the records a script returns tell what it did.  *)
(***************************************************************************)
EXTENDS Scripts, AsyncProofs, FiniteSetTheorems, SequenceTheorems

(* The values of script[c].                                                  *)
ScriptStates ==
  [statements : Seq(Kinds), records : Seq(Statuses), atomic : BOOLEAN, stop : BOOLEAN]

(* What a caller runs, or nothing.                                           *)
Programs == {call.statements : call \in ScriptCalls} \cup {<<>>}

(* The statements a record calls a change: executed, and not taken back by   *)
(* their own error.                                                          *)
Reported(s) ==
  {i \in DOMAIN s.statements \cap DOMAIN s.records :
     s.statements[i] = "mutation" /\ s.records[i] \in {"success", "unsaved"}}

NoErrors(s) == \A i \in DOMAIN s.records : s.records[i] # "error"

(* The statement after the last record: the one whose save is awaited.       *)
NextIsMutation(s) == s.statements[Len(s.records) + 1] = "mutation"

(* The records do not run ahead of the statements.  A script that awaits a   *)
(* save has all its records if it is atomic, and else lacks that of the      *)
(* statement.                                                                *)
Progress(s, waits) ==
  /\ s \in ScriptStates
  /\ s.statements \in Programs
  /\ Len(s.records) <= Len(s.statements) + 1
  /\ s.atomic => Len(s.records) >= Len(s.statements)
  /\ waits => Len(s.records) <= Len(s.statements)
  /\ waits /\ ~s.atomic => Len(s.records) < Len(s.statements)

(* The versions that were made are those the records report, and the one of  *)
(* the change that awaits its save.                                          *)
Told(s, m, waits) ==
  IF s.atomic
  THEN m # {} <=> Reported(s) # {} /\ NoErrors(s)
  ELSE Cardinality(m) =
         Cardinality(Reported(s)) + (IF waits /\ NextIsMutation(s) THEN 1 ELSE 0)

(* A script s that has made the versions m, of n, and awaits a save or not.  *)
ScriptOK(s, m, waits, n) ==
  /\ Progress(s, waits)
  /\ m \subseteq 1..n
  /\ Told(s, m, waits)

(* The inductive invariant.                                                  *)
ScriptsInv ==
  /\ CommitInv
  /\ overlapped \in BOOLEAN
  /\ DOMAIN script = Callers /\ DOMAIN made = Callers
  /\ \A c \in Callers : ScriptOK(script[c], made[c], c \in Saving, versions)
----------------------------------------------------------------------------
(* Every step is one of AsyncDatabase, or none.                              *)

(* An atomic script is one change, or none.                                  *)
LEMMA AtomicImplements ==
  ASSUME CommitInv, NEW c \in Callers, NEW statements, NEW stop,
         RunAtomic(c, statements, stop)
  PROVE  Call(c)
<1>1. /\ c \notin Saving /\ ~Active
      /\ UNCHANGED <<transaction, autoSave, candidates, undone, excused>>
      /\ overlapped' = (overlapped \/ Saving # {})
  BY DEF RunAtomic, Finished
<1>2. PICK ok \in [DOMAIN statements -> BOOLEAN] : AtomicEffect(c, statements, stop, ok)
  BY DEF RunAtomic
<1>3. CASE \E i \in Executed(statements, stop, ok) : ~ok[i]
  <2>1. dirty' \in {dirty, TRUE}
    BY <1>2, <1>3 DEF AtomicEffect, CommitInv, StateTypeOK
  <2>2. UNCHANGED <<content, versions, uncommitted, saving>>
    BY <1>2, <1>3 DEF AtomicEffect
  <2>3. ScriptFails(c)
    BY <1>1, <2>1, <2>2 DEF ScriptFails
  <2> QED BY <1>1, <2>3 DEF Call, Execute
<1>4. CASE ~(\E i \in Executed(statements, stop, ok) : ~ok[i])
  <2>1. /\ Change \/ UNCHANGED <<content, versions, dirty, uncommitted>>
        /\ AutoSave(c)
    BY <1>2, <1>4 DEF AtomicEffect
  <2>2. ScriptSucceeds(c)
    BY <1>1, <2>1 DEF ScriptSucceeds
  <2> QED BY <1>1, <2>2 DEF Call, Execute
<1> QED BY <1>3, <1>4

(* A script that runs is at one of its statements.                           *)
LEMMA RunningStatement ==
  ASSUME ScriptsInv, NEW c \in Callers, Running(c)
  PROVE  /\ Current(c) \in Kinds
         /\ ~script[c].atomic
         /\ Len(script[c].records) < Len(script[c].statements)
<1>1. Progress(script[c], c \in Saving)
  BY DEF ScriptsInv, ScriptOK, Running
<1>2. /\ script[c].statements \in Seq(Kinds)
      /\ script[c].records \in Seq(Statuses)
  BY <1>1 DEF Progress, ScriptStates
<1>3. Len(script[c].records) < Len(script[c].statements)
  BY <1>1, <1>2, LenProperties DEF Running, Finished
<1>4. ~script[c].atomic
  BY <1>1, <1>2, <1>3, LenProperties DEF Progress
<1>5. Current(c) \in Kinds
  BY <1>2, <1>3, LenProperties, ElementOfSeq DEF Current
<1> QED BY <1>3, <1>4, <1>5

(* A statement is a call of the executor, and a query is none.               *)
LEMMA StatementImplements ==
  ASSUME ScriptsInv, NEW c \in Callers, StatementSucceeds(c)
  PROVE  Call(c) \/ UNCHANGED vars
<1>1. Running(c)
  BY DEF StatementSucceeds
<1>2. CASE Current(c) = "query"
  <2>1. overlapped' = overlapped
    BY <1>2 DEF StatementSucceeds, ScriptsInv
  <2> QED BY <1>2, <2>1 DEF StatementSucceeds, vars
<1>3. CASE Current(c) # "query"
  <2>1. overlapped' = (overlapped \/ Saving # {})
    BY <1>3 DEF StatementSucceeds
  <2>2. Current(c) \in {"mutation", "begin", "commit", "rollback", "save"}
    BY <1>1, <1>3, RunningStatement DEF Kinds
  <2>3. Execute(c)
    BY <1>3, <2>2 DEF StatementSucceeds, Execute
  <2> QED BY <2>1, <2>3 DEF Call
<1> QED BY <1>2, <1>3

(* A step of scripts is one of AsyncDatabase, or none.                       *)
LEMMA ScriptsStep ==
  ASSUME ScriptsInv, [NextScripts]_scriptVars
  PROVE  [Next]_vars
<1>1. ASSUME NEW c \in Callers, SaveDone(c) \/ SaveNotDone(c)
      PROVE  Return(c)
  BY <1>1 DEF SaveDone, SaveNotDone, Return
<1>2. ASSUME NEW c \in Callers, NEW call \in ScriptCalls,
             \/ Start(c, call.statements, call.stop)
             \/ RefuseControl(c, call.statements, call.stop)
      PROVE  UNCHANGED vars
  BY <1>2 DEF Start, RefuseControl
<1>3. ASSUME NEW c \in Callers, Refuse(c) \/ StatementFails(c)
      PROVE  UNCHANGED vars
  BY <1>3 DEF Refuse, StatementFails
<1>4. CASE RestartScripts
  BY <1>4 DEF RestartScripts, Next
<1>5. ASSUME NEW mode \in AutoSaveModes, SetScripts(mode)
      PROVE  Next
  BY <1>5 DEF SetScripts, Next
<1>6. CASE UNCHANGED scriptVars
  BY <1>6 DEF scriptVars
<1> QED
  BY <1>1, <1>2, <1>3, <1>4, <1>5, <1>6, AtomicImplements, StatementImplements
  DEF NextScripts, Next, ScriptsInv

(* So it keeps what AsyncProofs shows of the database and its file.          *)
LEMMA SharedStep ==
  ASSUME ScriptsInv, [NextScripts]_scriptVars
  PROVE  CommitInv' /\ overlapped' \in BOOLEAN
<1>1. ScriptsInv /\ [Next]_vars => (overlapped \in BOOLEAN)'
  BY DEF ScriptsInv, Next, Call, Return, Set, Restart, vars
<1> QED BY <1>1, ScriptsStep, StepCommitInv DEF ScriptsInv

----------------------------------------------------------------------------
(* Who awaits a save after each step.                                        *)

(* A save that begins is awaited by its caller.                              *)
LEMMA SaversBegin ==
  ASSUME StateTypeOK, NEW c \in Callers, NEW version \in Versions, BeginSave(c, version)
  PROVE  Saving' = Saving \cup {c}
<1>1. saving' \in [Callers -> Saves \cup {NoSave}]
  BY BeginSaveWrites
<1>2. saving'[c] = [version |-> version, alone |-> (Saving = {})]
  BY DEF BeginSave
<1>3. saving'[c] \in Saves
  <2>1. (Saving = {}) \in BOOLEAN
    OBVIOUS
  <2> QED BY <1>2, <2>1 DEF Saves
<1>4. ASSUME NEW d \in Saving
      PROVE  [saving[d] EXCEPT !.alone = FALSE] \in Saves
  BY DEF StateTypeOK, Saving, Saves
<1>5. \A d \in Callers : saving'[d] # NoSave <=> d = c \/ d \in Saving
  BY <1>3, <1>4, AsyncAssumption DEF BeginSave
<1> QED BY <1>5 DEF Saving

(* A change is saved at once only if auto-save is on and no transaction is open. *)
LEMMA SaversAuto ==
  ASSUME StateTypeOK, NEW c \in Callers, content' \in Versions, AutoSave(c)
  PROVE  Saving' \in {Saving, Saving \cup {c}}
<1>1. CASE autoSave # "off" /\ snapshot' = NoSnapshot
  BY <1>1, SaversBegin DEF AutoSave
<1>2. CASE ~(autoSave # "off" /\ snapshot' = NoSnapshot)
  BY <1>2 DEF AutoSave, Saving
<1> QED BY <1>1, <1>2

(* A save that ends is awaited no more.                                      *)
LEMMA SaversEnd ==
  ASSUME StateTypeOK, NEW c \in Callers, saving' = [saving EXCEPT ![c] = NoSave]
  PROVE  Saving' = Saving \ {c}
  BY DEF StateTypeOK, Saving

----------------------------------------------------------------------------
(* What the other callers keep.                                              *)

(* A caller that runs nothing keeps the promise.                             *)
LEMMA IdleOK == ASSUME NEW n \in Nat PROVE ScriptOK(Idle, {}, FALSE, n)
<1>1. <<>> \in Seq(Kinds) /\ <<>> \in Seq(Statuses) /\ Len(<<>>) = 0
  BY EmptySeq
<1>2. Idle \in ScriptStates /\ Idle.statements = <<>> /\ Idle.records = <<>> /\ ~Idle.atomic
  BY <1>1 DEF Idle, ScriptStates
<1>3. Progress(Idle, FALSE)
  BY <1>1, <1>2 DEF Progress, Programs
<1>4. Reported(Idle) = {}
  BY <1>2 DEF Reported
<1>5. Told(Idle, {}, FALSE)
  BY <1>2, <1>4, FS_EmptySet DEF Told
<1> QED BY <1>3, <1>5 DEF ScriptOK

(* The versions that others make do not matter to a script.                  *)
LEMMA OKGrows ==
  ASSUME NEW s, NEW m, NEW waits, NEW n \in Nat, NEW n2 \in Nat, n <= n2,
         ScriptOK(s, m, waits, n)
  PROVE  ScriptOK(s, m, waits, n2)
  BY DEF ScriptOK

(* A step in which caller c delivers a state of its script keeps the         *)
(* invariant if that state is right and the others await what they awaited.  *)
LEMMA OthersKeep ==
  ASSUME ScriptsInv, CommitInv', overlapped' \in BOOLEAN, versions <= versions',
         NEW c \in Callers, \A d \in Callers \ {c} : d \in Saving' <=> d \in Saving,
         NEW s, Delivered(c, s), NEW m, Made(c, m),
         ScriptOK(s, m, c \in Saving', versions')
  PROVE  ScriptsInv'
<1>1. versions \in Nat /\ versions' \in Nat
  BY VersionNumbers DEF ScriptsInv, CommitInv, StateTypeOK
<1>2. ASSUME NEW d \in Callers
      PROVE  ScriptOK(script'[d], made'[d], d \in Saving', versions')
  <2>1. CASE d = c
    BY <2>1 DEF Delivered, Made
  <2>2. CASE d # c /\ Finished(d)
    <3>1. script'[d] = Idle /\ made'[d] = {} /\ d \notin Saving'
      BY <2>2 DEF Delivered, Made, Finished
    <3>2. (d \in Saving') = FALSE
      BY <3>1
    <3> QED BY <1>1, <3>1, <3>2, IdleOK
  <2>3. CASE d # c /\ ~Finished(d)
    <3>1. script'[d] = script[d] /\ made'[d] = made[d]
      BY <2>3 DEF Delivered, Made
    <3>2. (d \in Saving') = (d \in Saving)
      BY <2>3
    <3>3. ScriptOK(script[d], made[d], d \in Saving, versions)
      BY DEF ScriptsInv
    <3> QED BY <1>1, <3>1, <3>2, <3>3, OKGrows
  <2> QED BY <2>1, <2>2, <2>3
<1>3. DOMAIN script' = Callers /\ DOMAIN made' = Callers
  BY DEF Delivered, Made
<1> QED BY <1>2, <1>3 DEF ScriptsInv
----------------------------------------------------------------------------
(* The records after a statement.                                            *)

(* The records of the statements that an error skips.                        *)
LEMMA Skipping ==
  ASSUME NEW now \in Seq(Statuses), NEW k \in Nat, Len(now) <= k
  PROVE  LET all == now \o [i \in 1..(k - Len(now)) |-> "skipped"]
         IN  /\ all \in Seq(Statuses)
             /\ Len(all) = k
             /\ \A i \in 1..Len(now) : all[i] = now[i]
             /\ \A i \in (Len(now) + 1)..k : all[i] = "skipped"
<1> DEFINE n == k - Len(now)
           rest == [i \in 1..n |-> "skipped"]
<1>1. Len(now) \in Nat /\ n \in Nat /\ Len(now) + n = k
  BY LenProperties
<1> HIDE DEF n
<1>2. rest \in Seq(Statuses) /\ Len(rest) = n /\ \A i \in 1..n : rest[i] = "skipped"
  BY <1>1 DEF Statuses
<1> HIDE DEF rest
<1>3. /\ now \o rest \in Seq(Statuses)
      /\ Len(now \o rest) = Len(now) + Len(rest)
      /\ \A i \in 1..(Len(now) + Len(rest)) :
           (now \o rest)[i] = IF i <= Len(now) THEN now[i] ELSE rest[i - Len(now)]
  BY <1>2, ConcatProperties
<1>4. \A i \in 1..Len(now) : (now \o rest)[i] = now[i]
  BY <1>1, <1>2, <1>3
<1>5. \A i \in (Len(now) + 1)..k : (now \o rest)[i] = "skipped"
  BY <1>1, <1>2, <1>3
<1>6. /\ now \o rest \in Seq(Statuses)
      /\ Len(now \o rest) = k
      /\ \A i \in 1..Len(now) : (now \o rest)[i] = now[i]
      /\ \A i \in (Len(now) + 1)..k : (now \o rest)[i] = "skipped"
  BY <1>1, <1>2, <1>3, <1>4, <1>5
<1> QED BY <1>6 DEF rest, n

(* A statement adds its own record, and after an error those of the rest.    *)
LEMMA RecordsGrow ==
  ASSUME NEW s \in ScriptStates, NEW status \in Statuses,
         Len(s.records) < Len(s.statements)
  PROVE  /\ RecordsAfter(s, status) \in Seq(Statuses)
         /\ Len(RecordsAfter(s, status)) \in (Len(s.records) + 1)..Len(s.statements)
         /\ \A i \in 1..Len(s.records) : RecordsAfter(s, status)[i] = s.records[i]
         /\ RecordsAfter(s, status)[Len(s.records) + 1] = status
         /\ \A i \in 1..Len(RecordsAfter(s, status)) :
              i > Len(s.records) + 1 => RecordsAfter(s, status)[i] = "skipped"
<1> DEFINE now == Append(s.records, status)
           k == Len(s.statements)
           all == now \o [i \in 1..(k - Len(now)) |-> "skipped"]
<1>1. s.records \in Seq(Statuses) /\ s.statements \in Seq(Kinds)
  BY DEF ScriptStates
<1>2. Len(s.records) \in Nat /\ k \in Nat
  BY <1>1, LenProperties
<1>3. /\ now \in Seq(Statuses)
      /\ Len(now) = Len(s.records) + 1
      /\ \A i \in 1..Len(s.records) : now[i] = s.records[i]
      /\ now[Len(s.records) + 1] = status
  BY <1>1, AppendProperties
<1>4. RecordsAfter(s, status) = IF s.stop /\ status \in {"error", "unsaved"} THEN all ELSE now
  BY DEF RecordsAfter
<1> HIDE DEF now, k
<1>5. Len(now) <= k
  BY <1>2, <1>3 DEF k
<1>6. /\ all \in Seq(Statuses)
      /\ Len(all) = k
      /\ \A i \in 1..Len(now) : all[i] = now[i]
      /\ \A i \in (Len(now) + 1)..k : all[i] = "skipped"
  BY <1>2, <1>3, <1>5, Skipping
<1> HIDE DEF all
<1>7. \A r \in {now, all} :
        /\ r \in Seq(Statuses)
        /\ Len(r) \in (Len(s.records) + 1)..k
        /\ \A i \in 1..Len(s.records) : r[i] = s.records[i]
        /\ r[Len(s.records) + 1] = status
        /\ \A i \in 1..Len(r) : i > Len(s.records) + 1 => r[i] = "skipped"
  BY <1>2, <1>3, <1>5, <1>6
<1>8. RecordsAfter(s, status) \in {now, all}
  BY <1>4
<1> QED BY <1>7, <1>8 DEF k

(* The records report one change more if the statement was one and is kept.  *)
LEMMA ReportsGrow ==
  ASSUME NEW s \in ScriptStates, NEW status \in Statuses,
         Len(s.records) < Len(s.statements)
  PROVE  Reported([s EXCEPT !.records = RecordsAfter(s, status)]) =
           Reported(s) \cup (IF NextIsMutation(s) /\ status \in {"success", "unsaved"}
                             THEN {Len(s.records) + 1} ELSE {})
<1> DEFINE r == RecordsAfter(s, status)
           s2 == [s EXCEPT !.records = r]
<1>1. s.records \in Seq(Statuses) /\ s.statements \in Seq(Kinds)
  BY DEF ScriptStates
<1>2. /\ Len(s.records) \in Nat /\ Len(s.statements) \in Nat
      /\ DOMAIN s.records = 1..Len(s.records)
      /\ DOMAIN s.statements = 1..Len(s.statements)
  BY <1>1, LenProperties
<1>3. r \in Seq(Statuses) /\ DOMAIN r = 1..Len(r)
  BY RecordsGrow, LenProperties
<1>4. s2.records = r /\ s2.statements = s.statements
  BY DEF ScriptStates
<1>5. /\ Len(r) \in (Len(s.records) + 1)..Len(s.statements)
      /\ \A i \in 1..Len(s.records) : r[i] = s.records[i]
      /\ r[Len(s.records) + 1] = status
      /\ \A i \in 1..Len(r) : i > Len(s.records) + 1 => r[i] = "skipped"
  BY RecordsGrow
<1> HIDE DEF r, s2
<1>6. ASSUME NEW i \in 1..Len(s.statements)
      PROVE  i \in Reported(s2) <=>
               \/ i \in Reported(s)
               \/ i = Len(s.records) + 1 /\ NextIsMutation(s) /\ status \in {"success", "unsaved"}
  <2>1. CASE i <= Len(s.records)
    BY <1>2, <1>3, <1>4, <1>5, <2>1 DEF Reported
  <2>2. CASE i = Len(s.records) + 1
    BY <1>2, <1>3, <1>4, <1>5, <2>2 DEF Reported, NextIsMutation
  <2>3. CASE i > Len(s.records) + 1
    BY <1>2, <1>3, <1>4, <1>5, <2>3 DEF Reported
  <2> QED BY <1>2, <2>1, <2>2, <2>3
<1>7. Reported(s2) \subseteq 1..Len(s.statements) /\ Reported(s) \subseteq 1..Len(s.statements)
  BY <1>2, <1>4 DEF Reported
<1>8. Len(s.records) + 1 \in 1..Len(s.statements)
  BY <1>2
<1>9. Reported(s2) = Reported(s) \cup (IF NextIsMutation(s) /\ status \in {"success", "unsaved"}
                                       THEN {Len(s.records) + 1} ELSE {})
  BY <1>6, <1>7, <1>8
<1> QED BY <1>9 DEF s2, r

(* The changes that are reported can be counted.                             *)
LEMMA ReportsFinite ==
  ASSUME NEW s \in ScriptStates
  PROVE  /\ IsFiniteSet(Reported(s))
         /\ Cardinality(Reported(s)) \in Nat
         /\ Len(s.records) \in Nat
         /\ Len(s.records) + 1 \notin Reported(s)
<1>1. s.records \in Seq(Statuses) /\ s.statements \in Seq(Kinds)
  BY DEF ScriptStates
<1>2. /\ Len(s.records) \in Nat
      /\ DOMAIN s.records = 1..Len(s.records)
  BY <1>1, LenProperties
<1>3. Reported(s) \in SUBSET (1..Len(s.records))
  BY <1>2 DEF Reported
<1>4. IsFiniteSet(Reported(s))
  <2>1. IsFiniteSet(1..Len(s.records))
    BY <1>2, FS_Interval
  <2> QED BY <1>3, <2>1, FS_Subset
<1> QED BY <1>2, <1>3, <1>4, FS_CardinalityType

(* The record of a statement keeps the promise: of the one that is executed  *)
(* now, or of the one whose save was awaited.                                *)
LEMMA RecordOK ==
  ASSUME NEW s, NEW m, NEW m2, NEW waits, NEW n \in Nat, NEW n2 \in Nat, n <= n2,
         ScriptOK(s, m, waits, n), ~s.atomic,
         Len(s.records) < Len(s.statements), NEW status \in Statuses,
         NextIsMutation(s) /\ status \in {"success", "unsaved"}
           => IF waits THEN m2 = m ELSE \E v \in (n + 1)..n2 : m2 = m \cup {v},
         ~(NextIsMutation(s) /\ status \in {"success", "unsaved"})
           => m2 = m /\ ~(waits /\ NextIsMutation(s))
  PROVE  ScriptOK([s EXCEPT !.records = RecordsAfter(s, status)], m2, FALSE, n2)
<1> DEFINE s2 == [s EXCEPT !.records = RecordsAfter(s, status)]
           counts == NextIsMutation(s) /\ status \in {"success", "unsaved"}
<1>1. s \in ScriptStates /\ s.statements \in Programs /\ m \subseteq 1..n
  BY DEF ScriptOK, Progress
<1>2. /\ s2 \in ScriptStates /\ s2.statements = s.statements /\ ~s2.atomic
      /\ s2.records = RecordsAfter(s, status)
  BY <1>1, RecordsGrow DEF ScriptStates
<1>3. Len(s2.records) <= Len(s.statements) /\ Len(s.statements) \in Nat
  BY <1>1, <1>2, RecordsGrow, LenProperties DEF ScriptStates
<1>4. Progress(s2, FALSE)
  BY <1>1, <1>2, <1>3 DEF Progress
<1>5. m2 = m \/ \E v \in (n + 1)..n2 : m2 = m \cup {v}
  BY DEF counts
<1>6. m2 \subseteq 1..n2
  <2>1. 1..n \subseteq 1..n2 /\ (n + 1)..n2 \subseteq 1..n2
    OBVIOUS
  <2> QED BY <1>1, <1>5, <2>1
<1>7. IsFiniteSet(m) /\ Cardinality(m) \in Nat
  <2>1. IsFiniteSet(1..n)
    BY FS_Interval
  <2>2. IsFiniteSet(m)
    BY <1>1, <2>1, FS_Subset
  <2> QED BY <2>2, FS_CardinalityType
<1>8. Cardinality(m) = Cardinality(Reported(s)) + (IF waits /\ NextIsMutation(s) THEN 1 ELSE 0)
  BY DEF ScriptOK, Told
<1>11. Cardinality(Reported(s2)) = Cardinality(Reported(s)) + (IF counts THEN 1 ELSE 0)
  <2>1. /\ IsFiniteSet(Reported(s)) /\ Cardinality(Reported(s)) \in Nat
        /\ Len(s.records) + 1 \notin Reported(s)
    BY <1>1, ReportsFinite
  <2>2. CASE counts
    <3>1. Reported(s2) = Reported(s) \cup {Len(s.records) + 1}
      BY <1>1, <2>2, ReportsGrow
    <3> QED BY <2>1, <2>2, <3>1, FS_AddElement
  <2>3. CASE ~counts
    <3>1. Reported(s2) = Reported(s)
      BY <1>1, <2>3, ReportsGrow
    <3> QED BY <2>1, <2>3, <3>1
  <2> QED BY <2>2, <2>3
<1>9. Cardinality(m2) = Cardinality(Reported(s2))
  <2>1. CASE counts /\ ~waits
    <3>1. PICK v \in (n + 1)..n2 : m2 = m \cup {v}
      BY <2>1
    <3>2. v \notin m
      BY <1>1
    <3>3. Cardinality(m2) = Cardinality(m) + 1
      BY <1>7, <3>1, <3>2, FS_AddElement
    <3>4. Cardinality(Reported(s)) \in Nat
      BY <1>1, ReportsFinite
    <3> QED BY <1>11, <1>7, <1>8, <2>1, <3>3, <3>4
  <2>2. CASE counts /\ waits
    BY <1>11, <1>8, <2>2
  <2>3. CASE ~counts
    <3>1. m2 = m /\ ~(waits /\ NextIsMutation(s))
      BY <2>3
    <3>2. Cardinality(Reported(s)) \in Nat
      BY <1>1, ReportsFinite
    <3> QED BY <1>11, <1>8, <2>3, <3>1, <3>2
  <2> QED BY <2>1, <2>2, <2>3
<1>10. Told(s2, m2, FALSE)
  BY <1>2, <1>9, <1>1, <1>2, ReportsFinite DEF Told
<1> QED BY <1>4, <1>6, <1>10 DEF ScriptOK

(* Two cases of it: a statement that fails, which makes nothing, and one whose *)
(* awaited save ends, which has made its version before.                     *)
LEMMA ErrorOK ==
  ASSUME NEW s, NEW m, NEW n \in Nat,
         ScriptOK(s, m, FALSE, n), ~s.atomic, Len(s.records) < Len(s.statements)
  PROVE  ScriptOK([s EXCEPT !.records = RecordsAfter(s, "error")], m, FALSE, n)
<1> DEFINE status == "error"
           waits == FALSE
<1>1. status \in Statuses /\ status \notin {"success", "unsaved"}
  BY DEF Statuses
<1>2. ScriptOK(s, m, waits, n) /\ ~waits
  <2>1. ScriptOK(s, m, waits, n)
    OBVIOUS
  <2>2. ~waits
    OBVIOUS
  <2> HIDE DEF waits
  <2> QED BY <2>1, <2>2
<1> HIDE DEF status, waits
<1>3. ~(NextIsMutation(s) /\ status \in {"success", "unsaved"})
  BY <1>1
<1>4. ~(NextIsMutation(s) /\ status \in {"success", "unsaved"})
        => m = m /\ ~(waits /\ NextIsMutation(s))
  BY <1>2
<1>5. n <= n
  OBVIOUS
<1>6. ScriptOK([s EXCEPT !.records = RecordsAfter(s, status)], m, FALSE, n)
  BY <1>1, <1>2, <1>3, <1>4, <1>5, RecordOK
<1> QED BY <1>6 DEF status

(* The statement whose awaited save ends, saved or not.                      *)
LEMMA AwaitedOK ==
  ASSUME NEW s, NEW m, NEW n \in Nat, NEW status \in Statuses,
         ScriptOK(s, m, TRUE, n), ~s.atomic, Len(s.records) < Len(s.statements),
         NextIsMutation(s) => status \in {"success", "unsaved"}
  PROVE  ScriptOK([s EXCEPT !.records = RecordsAfter(s, status)], m, FALSE, n)
<1> DEFINE waits == TRUE
<1>1. ScriptOK(s, m, waits, n) /\ waits
  <2>1. ScriptOK(s, m, waits, n)
    OBVIOUS
  <2>2. waits
    BY DEF waits
  <2> HIDE DEF waits
  <2> QED BY <2>1, <2>2
<1> HIDE DEF waits
<1>2. NextIsMutation(s) /\ status \in {"success", "unsaved"}
        => IF waits THEN m = m ELSE \E v \in (n + 1)..n : m = m \cup {v}
  BY <1>1
<1>3. ~(NextIsMutation(s) /\ status \in {"success", "unsaved"})
        => m = m /\ ~(waits /\ NextIsMutation(s))
  OBVIOUS
<1>4. n <= n
  OBVIOUS
<1> QED BY <1>1, <1>2, <1>3, <1>4, RecordOK

(* A statement whose save begins has made its version, and is not recorded.  *)
LEMMA AwaitOK ==
  ASSUME NEW s, NEW m, NEW m2, NEW n \in Nat, NEW n2 \in Nat, n <= n2,
         ScriptOK(s, m, FALSE, n), ~s.atomic, Len(s.records) < Len(s.statements),
         NextIsMutation(s) => \E v \in (n + 1)..n2 : m2 = m \cup {v},
         ~NextIsMutation(s) => m2 = m
  PROVE  ScriptOK(s, m2, TRUE, n2)
<1>1. s \in ScriptStates /\ m \subseteq 1..n /\ Cardinality(m) = Cardinality(Reported(s))
  <2>1. s \in ScriptStates /\ m \subseteq 1..n
    BY DEF ScriptOK, Progress
  <2>2. Cardinality(m) = Cardinality(Reported(s)) + 0
    BY DEF ScriptOK, Told
  <2> QED BY <2>1, <2>2, ReportsFinite
<1>2. IsFiniteSet(m) /\ Cardinality(m) \in Nat
  <2>1. IsFiniteSet(1..n)
    BY FS_Interval
  <2>2. IsFiniteSet(m)
    BY <1>1, <2>1, FS_Subset
  <2> QED BY <2>2, FS_CardinalityType
<1>3. Progress(s, TRUE)
  <2>1. Len(s.records) \in Nat /\ Len(s.statements) \in Nat
    BY <1>1, LenProperties DEF ScriptStates
  <2> QED BY <2>1 DEF ScriptOK, Progress
<1>4. m2 \subseteq 1..n2
  <2>1. 1..n \subseteq 1..n2 /\ (n + 1)..n2 \subseteq 1..n2
    OBVIOUS
  <2> QED BY <1>1, <2>1
<1>5. Told(s, m2, TRUE)
  <2>1. CASE NextIsMutation(s)
    <3>1. PICK v \in (n + 1)..n2 : m2 = m \cup {v}
      BY <2>1
    <3>2. v \notin m
      BY <1>1
    <3>3. Cardinality(m2) = Cardinality(m) + 1
      BY <1>2, <3>1, <3>2, FS_AddElement
    <3> QED BY <1>1, <2>1, <3>3 DEF Told
  <2>2. CASE ~NextIsMutation(s)
    <3>1. Cardinality(m2) = Cardinality(Reported(s)) + 0
      BY <1>1, <1>2, <2>2
    <3> QED BY <2>2, <3>1 DEF Told
  <2> QED BY <2>1, <2>2
<1> QED BY <1>3, <1>4, <1>5 DEF ScriptOK

----------------------------------------------------------------------------
(* The steps of a script.                                                    *)

(* Versions are numbered in the order they are made.                         *)
LEMMA VersionsOf ==
  ASSUME ScriptsInv
  PROVE  versions \in Nat /\ content \in Nat /\ content <= versions
  BY VersionNumbers DEF ScriptsInv, CommitInv, StateTypeOK

(* A script that has reported no change, and made none.                      *)
LEMMA FreshOK ==
  ASSUME NEW s \in ScriptStates, s.statements \in Programs, ~s.atomic,
         Len(s.records) <= Len(s.statements) + 1, Reported(s) = {}, NEW n
  PROVE  ScriptOK(s, {}, FALSE, n)
<1>1. Progress(s, FALSE)
  BY DEF Progress
<1>2. Told(s, {}, FALSE)
  <2>1. Cardinality({}) = Cardinality(Reported(s)) + 0
    BY FS_EmptySet
  <2> QED BY <2>1 DEF Told
<1> QED BY <1>1, <1>2 DEF ScriptOK

(* A script starts with no records.                                          *)
LEMMA StartOK ==
  ASSUME ScriptsInv, NEW c \in Callers, NEW call \in ScriptCalls,
         Start(c, call.statements, call.stop)
  PROVE  ScriptsInv'
<1> DEFINE s == [statements |-> call.statements, records |-> <<>>,
                 atomic |-> FALSE, stop |-> call.stop]
<1>1. CommitInv' /\ overlapped' \in BOOLEAN
  BY SharedStep DEF NextScripts
<1>2. Delivered(c, s) /\ Made(c, {}) /\ UNCHANGED <<versions, saving>> /\ c \notin Saving
  BY DEF Start, Finished, vars
<1>3. Saving' = Saving /\ (c \in Saving') = FALSE
  BY <1>2 DEF Saving
<1>4. call.statements \in Seq(Kinds) /\ call.stop \in BOOLEAN /\ Len(call.statements) \in Nat
  BY ScriptAssumption, LenProperties
<1>5. s \in ScriptStates /\ s.statements \in Programs /\ ~s.atomic
  BY <1>4, EmptySeq DEF ScriptStates, Programs
<1>6. s.records = <<>> /\ Len(s.records) <= Len(s.statements) + 1 /\ Reported(s) = {}
  BY <1>4, EmptySeq DEF Reported
<1> HIDE DEF s
<1>7. ScriptOK(s, {}, c \in Saving', versions')
  BY <1>3, <1>5, <1>6, FreshOK
<1> QED BY <1>1, <1>2, <1>3, <1>7, VersionsOf, OthersKeep

(* A script is refused.                                                      *)
LEMMA RefuseOK ==
  ASSUME ScriptsInv, NEW c \in Callers, Refuse(c)
  PROVE  ScriptsInv'
<1> DEFINE s == [Idle EXCEPT !.records = <<"error">>]
<1>1. CommitInv' /\ overlapped' \in BOOLEAN
  BY SharedStep DEF NextScripts
<1>2. Delivered(c, s) /\ Made(c, {}) /\ UNCHANGED <<versions, saving>> /\ c \notin Saving
  BY DEF Refuse, Finished, vars
<1>3. Saving' = Saving /\ (c \in Saving') = FALSE
  BY <1>2 DEF Saving
<1>4. <<"error">> \in Seq(Statuses) /\ Len(<<"error">>) = 1
  BY DEF Statuses
<1>5. s \in ScriptStates
  <2>1. Idle \in ScriptStates
    BY EmptySeq DEF Idle, ScriptStates
  <2> QED BY <1>4, <2>1 DEF ScriptStates
<1>6. s.statements = <<>> /\ s.records = <<"error">> /\ ~s.atomic
  BY DEF Idle
<1> HIDE DEF s
<1>7. s.statements \in Programs /\ Len(s.records) <= Len(s.statements) + 1 /\ Reported(s) = {}
  BY <1>4, <1>6, EmptySeq DEF Reported, Programs
<1>8. ScriptOK(s, {}, c \in Saving', versions')
  BY <1>3, <1>5, <1>6, <1>7, FreshOK
<1> QED BY <1>1, <1>2, <1>3, <1>8, VersionsOf, OthersKeep

(* A script of the atomic mode: it has all its records, and what it made is  *)
(* what they report.                                                         *)
LEMMA AtomicOK ==
  ASSUME NEW call \in ScriptCalls, NEW m, NEW n, m \subseteq 1..n, NEW waits,
         NEW f, DOMAIN f = DOMAIN call.statements,
         \A i \in DOMAIN call.statements : f[i] \in Statuses,
         f = [i \in DOMAIN call.statements |-> f[i]],
         m # {} <=>
           /\ \E i \in DOMAIN call.statements :
                call.statements[i] = "mutation" /\ f[i] = "success"
           /\ \A i \in DOMAIN call.statements : f[i] # "error",
         \A i \in DOMAIN call.statements : f[i] # "unsaved"
  PROVE  ScriptOK([statements |-> call.statements, records |-> f,
                   atomic |-> TRUE, stop |-> call.stop], m, waits, n)
<1> DEFINE s == [statements |-> call.statements, records |-> f,
                 atomic |-> TRUE, stop |-> call.stop]
<1>1. /\ call.statements \in Seq(Kinds) /\ call.stop \in BOOLEAN
      /\ Len(call.statements) \in Nat
      /\ DOMAIN call.statements = 1..Len(call.statements)
  BY ScriptAssumption, LenProperties
<1>2. f \in Seq(Statuses) /\ Len(f) = Len(call.statements)
  <2>1. f \in [1..Len(call.statements) -> Statuses]
    BY <1>1
  <2> QED BY <1>1, <2>1
<1>3. s \in ScriptStates /\ s.statements \in Programs
  BY <1>1, <1>2 DEF ScriptStates, Programs
<1>4. Progress(s, waits)
  BY <1>1, <1>2, <1>3 DEF Progress
<1>5. Reported(s) # {} <=> \E i \in DOMAIN call.statements :
                             call.statements[i] = "mutation" /\ f[i] = "success"
  BY DEF Reported
<1>6. NoErrors(s) <=> \A i \in DOMAIN call.statements : f[i] # "error"
  BY DEF NoErrors
<1>7. Told(s, m, waits)
  BY <1>5, <1>6 DEF Told
<1> QED BY <1>4, <1>7 DEF ScriptOK

(* An atomic script with a control statement executes nothing.               *)
LEMMA RefuseControlOK ==
  ASSUME ScriptsInv, NEW c \in Callers, NEW call \in ScriptCalls,
         RefuseControl(c, call.statements, call.stop)
  PROVE  ScriptsInv'
<1> DEFINE refused(i) == /\ i \in Controls(call.statements)
                         /\ call.stop => \A j \in Controls(call.statements) : i <= j
           f == [i \in DOMAIN call.statements |-> IF refused(i) THEN "error" ELSE "skipped"]
           s == [statements |-> call.statements, records |-> f,
                 atomic |-> TRUE, stop |-> call.stop]
<1>1. CommitInv' /\ overlapped' \in BOOLEAN
  BY SharedStep DEF NextScripts
<1>2. Delivered(c, s) /\ Made(c, {}) /\ UNCHANGED <<versions, saving>> /\ c \notin Saving
  BY DEF RefuseControl, Finished, vars
<1>3. Saving' = Saving
  BY <1>2 DEF Saving
<1>4. \A i \in DOMAIN call.statements : f[i] \in {"error", "skipped"}
  OBVIOUS
<1>5. DOMAIN f = DOMAIN call.statements /\ f = [i \in DOMAIN call.statements |-> f[i]]
  OBVIOUS
<1> HIDE DEF f
<1>6. ScriptOK(s, {}, c \in Saving', versions')
  BY <1>4, <1>5, AtomicOK DEF Statuses
<1> HIDE DEF s
<1> QED BY <1>1, <1>2, <1>3, <1>6, VersionsOf, OthersKeep

(* An atomic script makes its version if it changed something and none failed. *)
LEMMA RunAtomicOK ==
  ASSUME ScriptsInv, NEW c \in Callers, NEW call \in ScriptCalls,
         RunAtomic(c, call.statements, call.stop)
  PROVE  ScriptsInv'
<1> DEFINE statements == call.statements
<1>1. CommitInv' /\ overlapped' \in BOOLEAN
  BY SharedStep DEF NextScripts
<1>2. PICK ok \in [DOMAIN statements -> BOOLEAN] :
        /\ UNCHANGED transaction
        /\ AtomicEffect(c, statements, call.stop, ok)
        /\ Delivered(c, [statements |-> statements,
                         records |-> AtomicRecords(statements, call.stop, ok),
                         atomic |-> TRUE, stop |-> call.stop])
  BY DEF RunAtomic
<1> DEFINE executed == Executed(statements, call.stop, ok)
           changed == \E i \in executed : statements[i] = "mutation" /\ ok[i]
           failed == \E i \in executed : ~ok[i]
           f == AtomicRecords(statements, call.stop, ok)
           m == {content'} \ {content}
<1>3. Made(c, m) /\ c \notin Saving
  BY DEF RunAtomic, Finished
<1>4. \A i \in DOMAIN statements :
        /\ f[i] \in {"success", "error", "skipped"}
        /\ f[i] = "success" <=> i \in executed /\ ok[i]
        /\ f[i] = "error" <=> i \in executed /\ ~ok[i]
  BY DEF AtomicRecords
<1>5. DOMAIN f = DOMAIN statements /\ f = [i \in DOMAIN statements |-> f[i]]
  BY DEF AtomicRecords
<1>6. executed \subseteq DOMAIN statements
  BY DEF Executed
<1>7. /\ versions <= versions'
      /\ m \subseteq 1..versions'
      /\ m # {} <=> changed /\ ~failed
      /\ Saving' \in {Saving, Saving \cup {c}}
  <2>1. CASE failed
    <3>1. UNCHANGED <<content, versions, saving>>
      BY <1>2, <2>1 DEF AtomicEffect
    <3>2. Saving' = Saving
      BY <3>1 DEF Saving
    <3> QED BY <2>1, <3>1, <3>2, VersionsOf
  <2>2. CASE ~failed /\ changed
    <3>1. Change /\ AutoSave(c)
      BY <1>2, <2>2 DEF AtomicEffect
    <3>2. versions' = versions + 1 /\ content' = versions + 1 /\ content' \in Versions
      BY <3>1, ChangeMakesVersion DEF ScriptsInv
    <3>3. Saving' \in {Saving, Saving \cup {c}}
      BY <3>1, <3>2, SaversAuto DEF ScriptsInv, CommitInv
    <3>4. content' # content /\ content' \in 1..versions' /\ versions <= versions'
      BY <3>2, VersionsOf
    <3> QED BY <2>2, <3>3, <3>4
  <2>3. CASE ~failed /\ ~changed
    <3>1. UNCHANGED <<content, versions>> /\ AutoSave(c)
      BY <1>2, <2>3 DEF AtomicEffect
    <3>2. content' \in Versions
      BY <3>1 DEF ScriptsInv, CommitInv, StateTypeOK
    <3>3. Saving' \in {Saving, Saving \cup {c}}
      BY <3>1, <3>2, SaversAuto DEF ScriptsInv, CommitInv
    <3> QED BY <2>3, <3>1, <3>3, VersionsOf
  <2> QED BY <2>1, <2>2, <2>3
<1>8. changed <=> \E i \in DOMAIN statements : statements[i] = "mutation" /\ f[i] = "success"
  BY <1>4, <1>6
<1>9. ~failed <=> \A i \in DOMAIN statements : f[i] # "error"
  BY <1>4, <1>6
<1> HIDE DEF f, m, executed, changed, failed
<1> DEFINE s == [statements |-> statements, records |-> f, atomic |-> TRUE, stop |-> call.stop]
<1>10. ScriptOK(s, m, c \in Saving', versions')
  BY <1>4, <1>5, <1>7, <1>8, <1>9, AtomicOK DEF Statuses
<1>11. Delivered(c, s)
  BY <1>2 DEF f
<1> HIDE DEF s
<1> QED BY <1>1, <1>3, <1>7, <1>10, <1>11, OthersKeep

(* A statement succeeds: it is recorded, or awaits its save.                 *)
LEMMA StatementOK ==
  ASSUME ScriptsInv, NEW c \in Callers, StatementSucceeds(c)
  PROVE  ScriptsInv'
<1> DEFINE s == script[c]
           m == made[c]
           m2 == IF Current(c) = "mutation" THEN made[c] \cup {content'} ELSE made[c]
           done == [s EXCEPT !.records = RecordsAfter(s, "success")]
<1>1. CommitInv' /\ overlapped' \in BOOLEAN
  BY SharedStep DEF NextScripts
<1>2. /\ Current(c) \in Kinds /\ ~s.atomic /\ Len(s.records) < Len(s.statements)
      /\ c \notin Saving
  BY RunningStatement DEF StatementSucceeds, Running
<1>3. ScriptOK(s, m, FALSE, versions)
  <2>1. (c \in Saving) = FALSE
    BY <1>2
  <2> QED BY <2>1 DEF ScriptsInv
<1>4. NextIsMutation(s) <=> Current(c) = "mutation"
  BY DEF NextIsMutation, Current
<1>5. /\ versions <= versions' /\ versions' \in Nat
      /\ Current(c) = "mutation" => content' \in (versions + 1)..versions'
      /\ Saving' \in {Saving, Saving \cup {c}}
  <2>1. CASE Current(c) = "mutation"
    <3>1. Change /\ AutoSave(c)
      BY <2>1 DEF StatementSucceeds, Mutate
    <3>2. versions' = versions + 1 /\ content' = versions' /\ content' \in Versions
      BY <3>1, ChangeMakesVersion DEF ScriptsInv
    <3>3. Saving' \in {Saving, Saving \cup {c}}
      BY <3>1, <3>2, SaversAuto DEF ScriptsInv, CommitInv
    <3> QED BY <3>2, <3>3, VersionsOf
  <2>2. CASE Current(c) \in {"query", "begin", "rollback"}
    <3>1. UNCHANGED <<versions, saving>>
      BY <2>2 DEF StatementSucceeds, Begin, Rollback
    <3> QED BY <2>2, <3>1, VersionsOf DEF Saving
  <2>3. CASE Current(c) = "commit"
    <3>1. Commit(c)
      BY <2>3 DEF StatementSucceeds
    <3>2. versions' = versions /\ content' \in Versions /\ AutoSave(c)
      BY <3>1 DEF Commit, ScriptsInv, CommitInv, StateTypeOK
    <3> QED BY <2>3, <3>2, VersionsOf, SaversAuto DEF ScriptsInv, CommitInv
  <2>4. CASE Current(c) = "save"
    <3>1. Save(c)
      BY <2>4 DEF StatementSucceeds
    <3>2. versions' = versions /\ content \in Versions /\ BeginSave(c, content)
      BY <3>1 DEF Save, ScriptsInv, CommitInv, StateTypeOK
    <3> QED BY <2>4, <3>2, VersionsOf, SaversBegin DEF ScriptsInv, CommitInv
  <2> QED BY <1>2, <2>1, <2>2, <2>3, <2>4 DEF Kinds
<1>6. Made(c, m2)
  BY DEF StatementSucceeds
<1> HIDE DEF s
<1>7. /\ NextIsMutation(s) => \E v \in (versions + 1)..versions' : m2 = m \cup {v}
      /\ ~NextIsMutation(s) => m2 = m
  BY <1>4, <1>5
<1> HIDE DEF m, m2
<1>8. CASE c \in Saving'
  <2>1. Delivered(c, s)
    BY <1>8 DEF StatementSucceeds, s
  <2>2. ScriptOK(s, m2, TRUE, versions')
    BY <1>2, <1>3, <1>5, <1>7, VersionsOf, AwaitOK
  <2>3. ScriptOK(s, m2, c \in Saving', versions')
    <3>1. (c \in Saving') = TRUE
      BY <1>8
    <3> QED BY <2>2, <3>1
  <2> QED BY <1>1, <1>5, <1>6, <2>1, <2>3, OthersKeep
<1>9. CASE c \notin Saving'
  <2>1. Delivered(c, done)
    BY <1>9 DEF StatementSucceeds, Record, s
  <2>2. ScriptOK(done, m2, FALSE, versions')
    BY <1>2, <1>3, <1>5, <1>7, VersionsOf, RecordOK DEF Statuses
  <2>3. ScriptOK(done, m2, c \in Saving', versions')
    <3>1. (c \in Saving') = FALSE
      BY <1>9
    <3> QED BY <2>2, <3>1
  <2> HIDE DEF done
  <2> QED BY <1>1, <1>5, <1>6, <2>1, <2>3, OthersKeep
<1> QED BY <1>8, <1>9

(* A statement fails, and has changed nothing.                               *)
LEMMA StatementFailsOK ==
  ASSUME ScriptsInv, NEW c \in Callers, StatementFails(c)
  PROVE  ScriptsInv'
<1> DEFINE s == script[c]
           m == made[c]
           done == [s EXCEPT !.records = RecordsAfter(s, "error")]
<1>1. CommitInv' /\ overlapped' \in BOOLEAN
  BY SharedStep DEF NextScripts
<1>2. /\ ~s.atomic /\ Len(s.records) < Len(s.statements) /\ c \notin Saving
      /\ UNCHANGED <<versions, saving>>
  BY RunningStatement DEF StatementFails, Running, vars
<1>3. Saving' = Saving /\ (c \in Saving) = FALSE /\ (c \in Saving') = FALSE
  BY <1>2 DEF Saving
<1>4. ScriptOK(s, m, FALSE, versions)
  BY <1>3 DEF ScriptsInv
<1>5. Made(c, m) /\ Delivered(c, done)
  BY DEF StatementFails, Record
<1> HIDE DEF s, m
<1>6. ScriptOK(done, m, FALSE, versions')
  <2>1. ScriptOK(done, m, FALSE, versions)
    BY <1>2, <1>4, VersionsOf, ErrorOK
  <2> HIDE DEF done
  <2> QED BY <1>2, <2>1
<1> HIDE DEF done
<1>7. ScriptOK(done, m, c \in Saving', versions')
  BY <1>3, <1>6
<1> QED BY <1>1, <1>2, <1>3, <1>5, <1>7, VersionsOf, OthersKeep

(* The save that is awaited ends.                                            *)
LEMMA SaveEndOK ==
  ASSUME ScriptsInv, NEW c \in Callers, SaveDone(c) \/ SaveNotDone(c)
  PROVE  ScriptsInv'
<1> DEFINE s == script[c]
           m == made[c]
           status == IF SaveDone(c) THEN "success"
                     ELSE IF Current(c) = "save" THEN "error" ELSE "unsaved"
           done == [s EXCEPT !.records = RecordsAfter(s, status)]
<1>1. CommitInv' /\ overlapped' \in BOOLEAN
  BY SharedStep DEF NextScripts
<1>2. /\ c \in Saving /\ UNCHANGED versions /\ Made(c, m)
      /\ saving' = [saving EXCEPT ![c] = NoSave]
  BY DEF SaveDone, SaveNotDone, SaveSucceeds, SaveFails
<1>3. /\ Saving' = Saving \ {c}
      /\ (c \in Saving) = TRUE /\ (c \in Saving') = FALSE
  <2>1. Saving' = Saving \ {c}
    BY <1>2, SaversEnd DEF ScriptsInv, CommitInv
  <2>2. c \in Saving /\ c \notin Saving'
    BY <1>2, <2>1
  <2> QED BY <2>1, <2>2
<1>4. ScriptOK(s, m, TRUE, versions)
  BY <1>3 DEF ScriptsInv
<1>5. s \in ScriptStates /\ s.statements \in Programs /\ m \subseteq 1..versions
      /\ Len(s.records) \in Nat /\ Len(s.statements) \in Nat
  <2>1. s \in ScriptStates /\ s.statements \in Programs /\ m \subseteq 1..versions
    BY <1>4 DEF ScriptOK, Progress
  <2> QED BY <2>1, LenProperties DEF ScriptStates
<1>6. CASE ~s.atomic
  <2>1. Delivered(c, done)
    BY <1>6 DEF SaveDone, SaveNotDone, Record
  <2>2. Len(s.records) < Len(s.statements)
    BY <1>4, <1>6 DEF ScriptOK, Progress
  <2>3. status \in Statuses /\ (NextIsMutation(s) => status \in {"success", "unsaved"})
    BY DEF Statuses, NextIsMutation, Current
  <2> HIDE DEF s, m, status
  <2>4. ScriptOK(done, m, FALSE, versions')
    <3>1. ScriptOK(done, m, FALSE, versions)
      BY <1>4, <1>6, <2>2, <2>3, VersionsOf, AwaitedOK
    <3> HIDE DEF done
    <3> QED BY <1>2, <3>1
  <2> HIDE DEF done
  <2>5. ScriptOK(done, m, c \in Saving', versions')
    BY <1>3, <2>4
  <2> QED BY <1>1, <1>2, <1>3, <2>1, <2>5, VersionsOf, OthersKeep
<1>7. CASE s.atomic /\ Delivered(c, s)
  <2>1. Progress(s, FALSE)
    BY <1>4 DEF ScriptOK, Progress
  <2>2. Told(s, m, FALSE)
    BY <1>4, <1>7 DEF ScriptOK, Told
  <2> HIDE DEF s, m
  <2>3. ScriptOK(s, m, c \in Saving', versions')
    BY <1>2, <1>3, <1>5, <2>1, <2>2 DEF ScriptOK
  <2> QED BY <1>1, <1>2, <1>3, <1>7, <2>3, VersionsOf, OthersKeep
<1>8. CASE s.atomic /\ Delivered(c, [s EXCEPT !.records = Append(@, "unsaved")])
  <2> DEFINE r == Append(s.records, "unsaved")
             s2 == [s EXCEPT !.records = r]
  <2>1. Delivered(c, s2)
    BY <1>8
  <2> HIDE DEF s, m
  <2>2. /\ s.records \in Seq(Statuses) /\ s.statements \in Seq(Kinds)
        /\ DOMAIN s.records = 1..Len(s.records)
        /\ DOMAIN s.statements = 1..Len(s.statements)
    BY <1>5, LenProperties DEF ScriptStates
  <2>3. /\ r \in Seq(Statuses) /\ Len(r) = Len(s.records) + 1
        /\ \A i \in 1..Len(s.records) : r[i] = s.records[i]
        /\ r[Len(s.records) + 1] = "unsaved"
        /\ DOMAIN r = 1..Len(r)
    <3>1. "unsaved" \in Statuses
      BY DEF Statuses
    <3> QED BY <2>2, <3>1, AppendProperties, LenProperties
  <2> HIDE DEF r
  <2>4. /\ s2 \in ScriptStates /\ s2.statements = s.statements
        /\ s2.records = r /\ s2.atomic
    BY <1>5, <1>8, <2>3 DEF ScriptStates
  <2> HIDE DEF s2
  <2>5. Len(s.records) = Len(s.statements)
    BY <1>4, <1>5, <1>8 DEF ScriptOK, Progress
  <2>6. Reported(s2) = Reported(s)
    BY <1>5, <2>2, <2>3, <2>4, <2>5 DEF Reported
  <2>7. NoErrors(s2) <=> NoErrors(s)
    BY <1>5, <2>2, <2>3, <2>4 DEF NoErrors
  <2>8. Progress(s2, FALSE)
    BY <1>5, <2>3, <2>4, <2>5 DEF Progress
  <2>9. Told(s2, m, FALSE)
    BY <1>4, <1>8, <2>4, <2>6, <2>7 DEF ScriptOK, Told
  <2>10. ScriptOK(s2, m, c \in Saving', versions')
    BY <1>2, <1>3, <1>5, <2>8, <2>9 DEF ScriptOK
  <2> QED BY <1>1, <1>2, <1>3, <2>1, <2>10, VersionsOf, OthersKeep
<1> QED BY <1>6, <1>7, <1>8 DEF SaveDone, SaveNotDone

(* Every step keeps the invariant.                                           *)
LEMMA ScriptsInvStep == ScriptsInv /\ [NextScripts]_scriptVars => ScriptsInv'
<1> SUFFICES ASSUME ScriptsInv, [NextScripts]_scriptVars
             PROVE  ScriptsInv'
  OBVIOUS
<1>1. CASE \E c \in Callers :
             \/ \E call \in ScriptCalls :
                  \/ Start(c, call.statements, call.stop)
                  \/ RefuseControl(c, call.statements, call.stop)
                  \/ RunAtomic(c, call.statements, call.stop)
             \/ Refuse(c)
             \/ StatementSucceeds(c)
             \/ StatementFails(c)
             \/ SaveDone(c)
             \/ SaveNotDone(c)
  BY <1>1, StartOK, RefuseControlOK, RunAtomicOK, RefuseOK, StatementOK, StatementFailsOK,
     SaveEndOK
<1>2. CASE RestartScripts
  <2>1. \A c \in Callers : script'[c] = Idle /\ made'[c] = {}
    BY <1>2 DEF RestartScripts
  <2>2. \A c \in Callers : (c \in Saving') = FALSE
    BY <1>2 DEF RestartScripts, Restart, Saving
  <2>3. versions' \in Nat
    BY <1>2, VersionsOf DEF RestartScripts, Restart
  <2>4. \A c \in Callers : ScriptOK(script'[c], made'[c], c \in Saving', versions')
    BY <2>1, <2>2, <2>3, IdleOK
  <2>5. DOMAIN script' = Callers /\ DOMAIN made' = Callers
    BY <1>2 DEF RestartScripts
  <2> QED BY <2>4, <2>5, SharedStep DEF ScriptsInv
<1>3. CASE (\E mode \in AutoSaveModes : SetScripts(mode)) \/ UNCHANGED scriptVars
  <2>1. UNCHANGED <<script, made, saving, versions>>
    BY <1>3 DEF SetScripts, Set, SetAutoSave, scriptVars, vars
  <2>2. Saving' = Saving
    BY <2>1 DEF Saving
  <2>3. \A c \in Callers : (c \in Saving') = (c \in Saving)
    BY <2>2
  <2>4. \A c \in Callers : ScriptOK(script'[c], made'[c], c \in Saving', versions')
    BY <2>1, <2>3 DEF ScriptsInv
  <2> QED BY <2>1, <2>4, SharedStep DEF ScriptsInv
<1> QED BY <1>1, <1>2, <1>3 DEF NextScripts

(* The invariant holds at the start.                                         *)
LEMMA InitScriptsInv == InitScripts => ScriptsInv
<1> SUFFICES ASSUME InitScripts
             PROVE  ScriptsInv
  OBVIOUS
<1>1. CommitInv /\ overlapped \in BOOLEAN /\ versions = 0
  BY InitCommitInv DEF InitScripts, Init
<1>2. \A c \in Callers : script[c] = Idle /\ made[c] = {} /\ (c \in Saving) = FALSE
  <2>1. Saving = {}
    BY DEF InitScripts, Init, Saving
  <2>2. \A c \in Callers : (c \in Saving) = FALSE
    BY <2>1
  <2> QED BY <2>2 DEF InitScripts
<1>3. \A c \in Callers : ScriptOK(script[c], made[c], c \in Saving, versions)
  BY <1>1, <1>2, IdleOK
<1> QED BY <1>1, <1>3 DEF ScriptsInv, InitScripts

(* And so in every state.                                                    *)
LEMMA AlwaysScriptsInv == SpecScripts => []ScriptsInv
  BY InitScriptsInv, ScriptsInvStep, PTL DEF SpecScripts

----------------------------------------------------------------------------
(* A script keeps the types of the database it shares, and has at most one   *)
(* record for each of its statements and one for its save.                   *)
THEOREM ScriptsTypeCorrect == SpecScripts => []ScriptsTypeOK
<1>1. ScriptsInv => ScriptsTypeOK
  <2> SUFFICES ASSUME ScriptsInv
               PROVE  ScriptsTypeOK
    OBVIOUS
  <2>1. TypeOK
    BY DEF ScriptsInv, CommitInv, TypeOK
  <2>2. 1..versions \subseteq Versions
    BY AsyncAssumption DEF ScriptsInv, CommitInv, StateTypeOK, Versions
  <2>3. ASSUME NEW c \in Callers
        PROVE  /\ script[c].statements \in Programs
               /\ script[c].records \in Seq(Statuses)
               /\ Len(script[c].records) <= Len(script[c].statements) + 1
               /\ made[c] \subseteq Versions
    BY <2>2 DEF ScriptsInv, ScriptOK, Progress, ScriptStates
  <2> QED BY <2>1, <2>3 DEF ScriptsTypeOK, Programs
<1> QED BY <1>1, AlwaysScriptsInv, PTL

(* Whatever the callers run, however their statements interleave, and        *)
(* whatever fails: a script that has ended has made as many versions as its  *)
(* records report, and an atomic one made its version if and only if its     *)
(* records report a change and no error.                                     *)
THEOREM ReportsAlwaysMatch == SpecScripts => []ReportsMatchEffects
<1>1. ScriptsInv => ReportsMatchEffects
  <2> SUFFICES ASSUME ScriptsInv, NEW c \in Callers, Finished(c)
               PROVE  IF script[c].atomic
                      THEN made[c] # {} <=> Changes(c) # {} /\ ~RolledBack(c)
                      ELSE Cardinality(made[c]) = Cardinality(Changes(c))
    BY DEF ReportsMatchEffects
  <2> DEFINE s == script[c]
  <2>1. (c \in Saving) = FALSE
    BY DEF Finished
  <2>2. ScriptOK(s, made[c], FALSE, versions)
    BY <2>1 DEF ScriptsInv
  <2>3. s \in ScriptStates
    BY <2>2 DEF ScriptOK, Progress
  <2>4. /\ Len(s.records) \in Nat /\ Len(s.statements) \in Nat
        /\ DOMAIN s.records = 1..Len(s.records)
        /\ DOMAIN s.statements = 1..Len(s.statements)
    BY <2>3, LenProperties DEF ScriptStates
  <2>5. Len(s.records) >= Len(s.statements)
    BY DEF Finished
  <2>6. Changes(c) = Reported(s)
    BY <2>4, <2>5 DEF Changes, Reported
  <2>7. RolledBack(c) <=> ~NoErrors(s)
    BY DEF RolledBack, NoErrors
  <2>8. Cardinality(Reported(s)) \in Nat
    BY <2>3, ReportsFinite
  <2> HIDE DEF s
  <2>9. IF s.atomic
        THEN made[c] # {} <=> Reported(s) # {} /\ NoErrors(s)
        ELSE Cardinality(made[c]) = Cardinality(Reported(s)) + 0
    BY <2>2 DEF ScriptOK, Told
  <2> QED BY <2>6, <2>7, <2>8, <2>9 DEF s
<1> QED BY <1>1, AlwaysScriptsInv, PTL

(* Scripts do to the database and its file what AsyncDatabase lets its       *)
(* callers do; an atomic script is one change, or none.                      *)
THEOREM ScriptsImplement == SpecScripts => ImplementsAsyncDatabase
<1>1. ScriptsInv /\ [NextScripts]_scriptVars => [Next]_vars
  BY ScriptsStep
<1>2. InitScripts => Init
  BY DEF InitScripts
<1> QED
  BY <1>1, <1>2, AlwaysScriptsInv, PTL DEF SpecScripts, ImplementsAsyncDatabase

(* So the file of a database that scripts share keeps the promises that      *)
(* AsyncProofs proves.                                                       *)
THEOREM ScriptsKeepFile ==
  SpecScripts => [](FileIsCommitted /\ CleanIsSaved /\ AutoSaved)
<1>1. SpecScripts => Spec
  BY ScriptsImplement DEF Spec, ImplementsAsyncDatabase
<1> QED BY <1>1, FileAlwaysCommitted, CleanAlwaysMeansSaved, AutoSaveAlwaysSaves, PTL
============================================================================
