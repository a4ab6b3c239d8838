------------------------------- MODULE Scripts -------------------------------
(***************************************************************************)
(* ScriptExecutor.executeAsync (src/execution/script-executor.ts) over the *)
(* database of AsyncDatabase.  A script is a sequence of statements.  A    *)
(* script that is not atomic executes them one after the other, awaiting   *)
(* the saves, and other callers run in between; an atomic one executes     *)
(* them synchronously on an internal snapshot and awaits one save at most. *)
(* A caller of executeSql is a script of one statement.                    *)
(***************************************************************************)
EXTENDS AsyncDatabase, Sequences, FiniteSets

CONSTANT ScriptCalls  \* the scripts that callers run, and whether they stop on errors

Kinds == {"mutation", "query", "begin", "commit", "rollback", "save"}
ControlKinds == {"begin", "commit", "rollback", "save"}

(* A record's status; an unsaved statement has status "error" in the code,   *)
(* with AUTO_SAVE_FAILED and databaseStateCommitted.                         *)
Statuses == {"success", "error", "unsaved", "skipped"}

VARIABLES
  script,  \* script[c]: what c runs, or ran last, with the records so far
  made     \* history: the versions that script made

scriptVars == <<vars, script, made>>

ASSUME ScriptAssumption ==
  \A call \in ScriptCalls : call.statements \in Seq(Kinds) /\ call.stop \in BOOLEAN

Idle == [statements |-> <<>>, records |-> <<>>, atomic |-> FALSE, stop |-> TRUE]

Finished(c) == c \notin Saving /\ Len(script[c].records) >= Len(script[c].statements)
Running(c) == c \notin Saving /\ ~Finished(c)

(* The statement that c executes, or whose save it awaits.                   *)
Current(c) == script[c].statements[Len(script[c].records) + 1]

(* A result that was returned needs no more remembering when the next step   *)
(* of a script is taken.                                                     *)
Delivered(c, new) ==
  script' = [d \in Callers |-> IF d = c THEN new
                               ELSE IF Finished(d) THEN Idle ELSE script[d]]

Made(c, new) ==
  made' = [d \in Callers |-> IF d = c THEN new
                             ELSE IF Finished(d) THEN {} ELSE made[d]]

InitScripts ==
  /\ Init
  /\ script = [c \in Callers |-> Idle]
  /\ made = [c \in Callers |-> {}]

----------------------------------------------------------------------------
(* Variant: all statements are skipped, also those that were executed.       *)
RecordsAllSkipped(s, status) ==
  LET records == Append(s.records, status)
  IN  IF s.stop /\ status \in {"error", "unsaved"}
      THEN records \o [i \in DOMAIN s.statements |-> "skipped"]
      ELSE records

(* The records after a statement ended with a status: after an error the     *)
(* rest is skipped, if the script stops on errors.                           *)
RecordsAfter(s, status) ==
  LET records == Append(s.records, status)
  IN  IF s.stop /\ status \in {"error", "unsaved"}
      THEN records \o [i \in 1..(Len(s.statements) - Len(records)) |-> "skipped"]
      ELSE records

Record(c, status) ==
  Delivered(c, [script[c] EXCEPT !.records = RecordsAfter(script[c], status)])

Start(c, statements, stop) ==
  /\ Finished(c)
  /\ Delivered(c, [statements |-> statements, records |-> <<>>,
                   atomic |-> FALSE, stop |-> stop])
  /\ Made(c, {})
  /\ UNCHANGED vars

(* executor.executeAsync: a statement that is to be saved is recorded when   *)
(* the save has ended.                                                       *)
StatementSucceeds(c) ==
  /\ Running(c)
  /\ CASE Current(c) = "mutation" -> Mutate(c)
       [] Current(c) = "query"    -> UNCHANGED <<content, versions, transaction,
                                       dirty, autoSave, saving, candidates,
                                       uncommitted, undone, excused>>
       [] Current(c) = "begin"    -> Begin(c)
       [] Current(c) = "commit"   -> Commit(c)
       [] Current(c) = "rollback" -> Rollback(c)
       [] Current(c) = "save"     -> Save(c)
  /\ overlapped' = (overlapped \/ (Saving # {} /\ Current(c) # "query"))
  /\ IF c \in Saving' THEN Delivered(c, script[c]) ELSE Record(c, "success")
  /\ Made(c, IF Current(c) = "mutation" THEN made[c] \cup {content'} ELSE made[c])

(* A mutation or a query may fail for many reasons, the others only for the  *)
(* state of the transaction.                                                 *)
StatementFails(c) ==
  /\ Running(c)
  /\ CASE Current(c) \in {"mutation", "query"}  -> TRUE
       [] Current(c) \in {"begin", "save"}      -> Active
       [] Current(c) \in {"commit", "rollback"} -> ~Active
  /\ Record(c, "error")
  /\ Made(c, made[c])
  /\ UNCHANGED vars

(* The awaited save: of a statement, or of the whole script if it is atomic. *)
SaveDone(c) ==
  /\ SaveSucceeds(c)
  /\ IF script[c].atomic THEN Delivered(c, script[c]) ELSE Record(c, "success")
  /\ Made(c, made[c])
  /\ UNCHANGED overlapped

SaveNotDone(c) ==
  /\ SaveFails(c)
  /\ IF script[c].atomic
     THEN Delivered(c, [script[c] EXCEPT !.records = Append(@, "unsaved")])
     ELSE Record(c, IF Current(c) = "save" THEN "error" ELSE "unsaved")
  /\ Made(c, made[c])
  /\ UNCHANGED overlapped

----------------------------------------------------------------------------
(* Atomic scripts.                                                           *)

(* A script that cannot be parsed, or an atomic one in a transaction, has    *)
(* one record and no statements.                                             *)
Refuse(c) ==
  /\ Finished(c)
  /\ Delivered(c, [Idle EXCEPT !.records = <<"error">>])
  /\ Made(c, {})
  /\ UNCHANGED vars

Controls(statements) == {i \in DOMAIN statements : statements[i] \in ControlKinds}

(* buildAtomicControlFailureResult: nothing is executed.                     *)
RefuseControl(c, statements, stop) ==
  /\ Finished(c)
  /\ ~Active
  /\ Controls(statements) # {}
  /\ LET refused(i) == /\ i \in Controls(statements)
                       /\ stop => \A j \in Controls(statements) : i <= j
     IN  Delivered(c, [statements |-> statements,
                       records |-> [i \in DOMAIN statements |->
                                      IF refused(i) THEN "error" ELSE "skipped"],
                       atomic |-> TRUE, stop |-> stop])
  /\ Made(c, {})
  /\ UNCHANGED vars

(* Which statements of an atomic script are executed, if ok[i] says that     *)
(* statement i would succeed.                                                *)
Executed(statements, stop, ok) ==
  {i \in DOMAIN statements : stop => \A j \in 1..(i - 1) : ok[j]}

AtomicRecords(statements, stop, ok) ==
  [i \in DOMAIN statements |->
     IF i \notin Executed(statements, stop, ok) THEN "skipped"
     ELSE IF ok[i] THEN "success" ELSE "error"]

(* Variant: the call of autoSaveAfterAtomicCommit is missing.                *)
AtomicSavesNothing(c, statements, stop, ok) ==
  LET executed == Executed(statements, stop, ok)
      changed == \E i \in executed : statements[i] = "mutation" /\ ok[i]
  IN  /\ UNCHANGED saving
      /\ IF \E i \in executed : ~ok[i]
         THEN dirty' = (dirty \/ changed) /\ UNCHANGED <<content, versions, uncommitted>>
         ELSE IF changed THEN Change
         ELSE UNCHANGED <<content, versions, dirty, uncommitted>>

(* Variant: the snapshot is restored only if the script stopped.             *)
AtomicRestoredOnStop(c, statements, stop, ok) ==
  LET executed == Executed(statements, stop, ok)
      changed == \E i \in executed : statements[i] = "mutation" /\ ok[i]
  IN  IF stop /\ \E i \in executed : ~ok[i]
      THEN /\ dirty' = (dirty \/ changed)
           /\ UNCHANGED <<content, versions, uncommitted, saving>>
      ELSE /\ IF changed THEN Change
              ELSE UNCHANGED <<content, versions, dirty, uncommitted>>
           /\ AutoSave(c)

(* The statements run on the tables; a failure restores the snapshot, which  *)
(* leaves the dirty flag that successful statements have set.                *)
AtomicEffect(c, statements, stop, ok) ==
  LET executed == Executed(statements, stop, ok)
      changed == \E i \in executed : statements[i] = "mutation" /\ ok[i]
  IN  IF \E i \in executed : ~ok[i]
      THEN /\ dirty' = (dirty \/ changed)
           /\ UNCHANGED <<content, versions, uncommitted, saving>>
      ELSE /\ IF changed THEN Change
              ELSE UNCHANGED <<content, versions, dirty, uncommitted>>
           /\ AutoSave(c)

RunAtomic(c, statements, stop) ==
  /\ Finished(c)
  /\ ~Active
  /\ Controls(statements) = {}
  /\ \E ok \in [DOMAIN statements -> BOOLEAN] :
       /\ UNCHANGED transaction
       /\ AtomicEffect(c, statements, stop, ok)
       /\ Delivered(c, [statements |-> statements,
                        records |-> AtomicRecords(statements, stop, ok),
                        atomic |-> TRUE, stop |-> stop])
  /\ Made(c, {content'} \ {content})
  /\ overlapped' = (overlapped \/ Saving # {})
  /\ UNCHANGED <<autoSave, candidates, undone, excused>>

RestartScripts ==
  /\ Restart
  /\ script' = [c \in Callers |-> Idle]
  /\ made' = [c \in Callers |-> {}]

SetScripts(mode) == Set(mode) /\ UNCHANGED <<script, made>>

NextScripts ==
  \/ \E c \in Callers :
       \/ \E call \in ScriptCalls :
            \/ Start(c, call.statements, call.stop)
            \/ RefuseControl(c, call.statements, call.stop)
            \/ RunAtomic(c, call.statements, call.stop)
       \/ Refuse(c)
       \/ StatementSucceeds(c)
       \/ StatementFails(c)
       \/ SaveDone(c)
       \/ SaveNotDone(c)
  \/ \E mode \in AutoSaveModes : SetScripts(mode)
  \/ RestartScripts

SpecScripts == InitScripts /\ [][NextScripts]_scriptVars

----------------------------------------------------------------------------
(* Properties.                                                             *)

(* Scripts keep the types of the database's state; a record is added for     *)
(* each statement, and one for the save of an atomic script that failed.     *)
ScriptsTypeOK ==
  /\ TypeOK
  /\ \A c \in Callers :
       /\ script[c].statements \in {call.statements : call \in ScriptCalls} \cup {<<>>}
       /\ script[c].records \in Seq(Statuses)
       /\ Len(script[c].records) <= Len(script[c].statements) + 1
       /\ made[c] \subseteq Versions

(* Scripts do to the database and its file what AsyncDatabase lets single    *)
(* statements and atomic scripts do: an atomic script is one change or none, *)
(* also seen by the callers that run meanwhile.                              *)
ImplementsAsyncDatabase == Init /\ [][Next]_vars

Changes(c) ==
  {i \in DOMAIN script[c].statements :
     /\ script[c].statements[i] = "mutation"
     /\ script[c].records[i] \in {"success", "unsaved"}}

RolledBack(c) == \E i \in DOMAIN script[c].records : script[c].records[i] = "error"

(* The result of a script tells what it did (databaseStateCommitted and      *)
(* rolledBack included): as many changes as it reports, and of an atomic     *)
(* script all or nothing.                                                    *)
ReportsMatchEffects ==
  \A c \in Callers : Finished(c) =>
    IF script[c].atomic
    THEN made[c] # {} <=> Changes(c) # {} /\ ~RolledBack(c)
    ELSE Cardinality(made[c]) = Cardinality(Changes(c))

============================================================================
