------------------------- MODULE PersistenceProofs -------------------------
(***************************************************************************)
(* Proofs about PersistenceManager, for any bounds on saves and faults.    *)
(*                                                                         *)
(* The invariant grows in layers: Base (types, and which version is where),*)
(* Shape (the files that are there at each line), Checked and Written      *)
(* (what the checks, the write and the sync that led to a line found or    *)
(* did) together are Careful.  On it rest Acked and Returned (why a        *)
(* version that was promised once cannot get lost) and the refinement of   *)
(* DurableStore.                                                           *)
(***************************************************************************)
EXTENDS PersistenceManager, TLAPS

(* The behaviours the theorems are about start from a path where nothing     *)
(* was saved, or from any of the directories recover is written for.         *)
SpecAnywhere == (Init \/ InitFound) /\ [][Next]_vars

Lines == RecoverLines \cup LoadLines \cup SaveLines \cup {"idle", "down"}

(* The files of a directory hold versions up to n, no two of them the same   *)
(* one.                                                                      *)
Numbered(d, n) ==
  /\ d \in [Files -> Nat]
  /\ \A f \in Files : d[f] <= n
  /\ \A f, g \in Files : d[f] = d[g] /\ d[f] # NoFile => f = g

(* The directory, and every directory a power failure may leave, is          *)
(* numbered.                                                                 *)
Directories ==
  /\ dir \in disk
  /\ \A d \in disk : Numbered(d, attempts)

(* The types of the other variables.                                         *)
Typed ==
  /\ whole \subseteq 1..attempts
  /\ synced \subseteq Nat \ {NoFile}
  /\ pc \in Lines
  /\ op \in {"load", "save"}
  /\ seen \in [Files -> BOOLEAN]
  /\ attempts \in Nat
  /\ acked \in 0..attempts
  /\ returned \in 0..attempts
  /\ faults \in [FaultKinds -> Nat]
  /\ bounds \in Bounds

(* A line of load is reached by a load and a line of save by a save, which   *)
(* has a version of its own; while it writes, that version is the .tmp.      *)
OwnLines ==
  /\ pc \in LoadLines => op = "load"
  /\ pc \in SaveLines => op = "save"
  /\ op = "save" => attempts > 0
  /\ pc \in {"55 writing", "56"} => dir["tmp"] = attempts

(* Until the save writes, no file holds its version.                         *)
Unwritten ==
  op = "save" /\ pc \in RecoverLines \cup {"50", "55"} =>
    \A f \in Files : dir[f] < attempts

Base == Directories /\ Typed /\ OwnLines /\ Unwritten

(* A remove keeps a directory numbered, and so does a rename.                *)
LEMMA RemoveNumbered ==
  ASSUME NEW d, NEW n \in Nat, NEW f \in Files, Numbered(d, n)
  PROVE  Numbered([d EXCEPT ![f] = NoFile], n)
  BY DEF Numbered, NoFile

LEMMA RenameNumbered ==
  ASSUME NEW d, NEW n \in Nat, NEW from \in Files, NEW to \in Files, from # to, Numbered(d, n)
  PROVE  Numbered([d EXCEPT ![from] = NoFile, ![to] = d[from]], n)
  BY DEF Numbered, NoFile

(* Where a step of recover leads: to another of its lines, to load or save,  *)
(* or to a rejection.                                                        *)
AfterRecovery == RecoverLines \cup {"36", "50", "down", "idle"}

CanFollow(next) ==
  /\ next \in AfterRecovery
  /\ next = "36" => op = "load"
  /\ next = "50" => op = "save"

(* What the invariant says of the directory.                                 *)
LEMMA DirNumbered ==
  ASSUME Base
  PROVE  Numbered(dir, attempts) /\ dir \in [Files -> Nat] /\ attempts \in Nat
  BY DEF Base, Directories, Typed, Numbered

(* A file operation that leaves a numbered directory keeps the directories   *)
(* numbered, those on the disk included.                                     *)
LEMMA SetDirNumbered ==
  ASSUME NEW d, Base, Numbered(d, attempts), SetDir(d), UNCHANGED attempts
  PROVE  Directories'
  BY DEF Base, Directories, Numbered, SetDir

(* A step of recover that only moves versions between the files, or drops    *)
(* them, keeps the lines and the unwritten version as they are.              *)
LEMMA StayInRecovery ==
  ASSUME Base, pc \in RecoverLines, CanFollow(pc'),
         UNCHANGED <<op, attempts>>,
         \A f \in Files : dir'[f] \in {dir[g] : g \in Files} \cup {NoFile}
  PROVE  OwnLines' /\ Unwritten'
<1>1. OwnLines'
  BY DEF Base, OwnLines, LoadLines, SaveLines, AfterRecovery, RecoverLines, CanFollow
<1>2. Unwritten'
  BY DirNumbered DEF Base, Unwritten, NoFile
<1> QED BY <1>1, <1>2

(* Base is kept by each kind of step recover is made of: a remove, a rename  *)
(* and a check of a file.                                                    *)
LEMMA RemoveStep ==
  ASSUME NEW line \in RecoverLines, NEW f \in Files, NEW next, CanFollow(next), Base,
         RemoveAt(line, f, next), UNCHANGED bounds
  PROVE  Base'
<1>1. Directories'
  BY RemoveNumbered, SetDirNumbered, DirNumbered DEF RemoveAt, history
<1>2. Typed'
  BY DEF Base, Typed, RemoveAt, SetDir, history, Lines, LoadLines, SaveLines, AfterRecovery, CanFollow
<1>3. OwnLines' /\ Unwritten'
  BY StayInRecovery, DirNumbered DEF RemoveAt, SetDir, history, NoFile
<1> QED BY <1>1, <1>2, <1>3 DEF Base

LEMMA RenameStep ==
  ASSUME NEW line \in RecoverLines, NEW from \in Files, NEW to \in Files, from # to,
         NEW next, CanFollow(next), Base,
         RenameAt(line, from, to, next), UNCHANGED bounds
  PROVE  Base'
<1>1. Directories'
  BY RenameNumbered, SetDirNumbered, DirNumbered DEF RenameAt, history
<1>2. Typed'
  BY DEF Base, Typed, RenameAt, SetDir, history, Lines, LoadLines, SaveLines, AfterRecovery, CanFollow
<1>3. OwnLines' /\ Unwritten'
  BY StayInRecovery, DirNumbered DEF RenameAt, SetDir, history, NoFile
<1> QED BY <1>1, <1>2, <1>3 DEF Base

(* A fault counts one more of its kind.                                      *)
LEMMA FaultTyped ==
  ASSUME Typed, NEW kind \in FaultKinds, Fault(kind)
  PROVE  faults' \in [FaultKinds -> Nat]
  BY DEF Typed, Fault

LEMMA CheckStep ==
  ASSUME NEW line \in RecoverLines, NEW f \in Files,
         NEW valid, CanFollow(valid), NEW invalid, CanFollow(invalid), Base,
         CheckAt(line, f, valid, invalid), UNCHANGED bounds
  PROVE  Base'
<1>1. Directories'
  BY DEF Base, Directories, Numbered, CheckAt, files, history
<1>2. faults' \in [FaultKinds -> Nat]
  BY FaultTyped DEF Base, CheckAt, Typed, FaultKinds
<1>3. Typed'
  BY <1>2 DEF Base, Typed, CheckAt, files, history, Lines, LoadLines, SaveLines, AfterRecovery, CanFollow
<1>4. OwnLines' /\ Unwritten'
  BY StayInRecovery, DirNumbered DEF CheckAt, files, history
<1> QED BY <1>1, <1>3, <1>4 DEF Base

(* The lines recover is given to go on at are such lines.                    *)
LEMMA Continues ==
  ASSUME Base
  PROVE  /\ CanFollow(Recovered) /\ CanFollow(Rejected)
         /\ \A line \in RecoverLines : CanFollow(line)
  BY DEF Base, Typed, Recovered, Rejected, AfterRecovery, CanFollow, RecoverLines

(* Base is kept by recover, ...                                              *)
LEMMA RecoverBase ==
  ASSUME Base, Recover, UNCHANGED bounds
  PROVE  Base'
<1> USE Continues
<1>1. CASE RecoverLook
  <2>1. CASE pc \in {"93", "94"}
    <3>1. Typed' /\ Directories'
      BY <1>1, <2>1 DEF Base, Typed, Directories, Numbered, RecoverLook, SeeAt, ChooseCase,
         files, history, Exists, Lines, RecoverLines, Files
    <3>2. OwnLines' /\ Unwritten'
      BY <1>1, <2>1, StayInRecovery, DirNumbered
      DEF RecoverLook, SeeAt, ChooseCase, files, history, RecoverLines
    <3> QED BY <3>1, <3>2 DEF Base
  <2>2. CASE ChooseCase
    <3>1. pc' \in RecoverLines \cup {Recovered}
      BY <2>2 DEF ChooseCase, Case, RecoverLines
    <3>2. CanFollow(pc')
      BY <3>1
    <3>3. Typed' /\ Directories'
      BY <2>2, <3>2 DEF Base, Typed, Directories, Numbered, ChooseCase,
         files, history, Exists, Lines, AfterRecovery, LoadLines, SaveLines, CanFollow, Files
    <3>4. OwnLines' /\ Unwritten'
      BY <2>2, <3>2, StayInRecovery, DirNumbered
      DEF ChooseCase, files, history, RecoverLines
    <3> QED BY <3>3, <3>4 DEF Base
  <2> QED BY <1>1, <2>1, <2>2 DEF RecoverLook, SeeAt
<1>2. "final" \in Files /\ "tmp" \in Files /\ "bak" \in Files
  BY DEF Files
<1>3. CASE RecoverBackupOnly
  BY <1>2, <1>3, RenameStep DEF RecoverBackupOnly, RecoverLines
<1>4. CASE RecoverTempOnly
  BY <1>2, <1>4, RenameStep, RemoveStep, CheckStep DEF RecoverTempOnly, RecoverLines
<1>5. CASE RecoverFinalAndBackup
  BY <1>2, <1>5, RenameStep, RemoveStep, CheckStep DEF RecoverFinalAndBackup, RecoverLines
<1>6. CASE RecoverFinalAndTemp
  BY <1>2, <1>6, RenameStep, RemoveStep, CheckStep DEF RecoverFinalAndTemp, RecoverLines
<1>7. CASE RecoverTempAndBackup
  BY <1>2, <1>7, RenameStep, RemoveStep, CheckStep DEF RecoverTempAndBackup, RecoverLines
<1> QED BY <1>1, <1>3, <1>4, <1>5, <1>6, <1>7 DEF Recover

(* A step that leaves recovery behind, and is not at a line before the       *)
(* write, has nothing unwritten to keep.                                     *)
LEMMA NotRecovering ==
  ASSUME Base, pc' \in Lines \ RecoverLines, pc' \notin {"50", "55"},
         pc' \in LoadLines => op' = "load",
         pc' \in SaveLines => op' = "save",
         op' = "save" => attempts' > 0,
         pc' \notin {"55 writing", "56"}
  PROVE  OwnLines' /\ Unwritten'
<1>1. OwnLines'
  BY DEF OwnLines
<1>2. Unwritten'
  BY DEF Unwritten
<1> QED BY <1>1, <1>2

(* The directories stay numbered when the files stay and a save takes its    *)
(* number.                                                                   *)
LEMMA SameFiles ==
  ASSUME Base, UNCHANGED files, attempts' \in Nat, attempts' >= attempts
  PROVE  Directories'
  BY DEF Base, Directories, Typed, Numbered, files

(* ... by the opening of the database and the rest of load, ...              *)
LEMMA LoadBase ==
  ASSUME Base, Open \/ Load, UNCHANGED bounds
  PROVE  Base'
<1>1. Directories'
  BY SameFiles, DirNumbered
  DEF Open, Load, LoadFindsNothing, LoadFindsFile, LoadDecodes, LoadCorrupt, history, files
<1>2. CASE Open
  <2>1. Typed'
    BY <1>2 DEF Base, Typed, Open, files, history, Lines, RecoverLines
  <2>2. OwnLines' /\ Unwritten'
    BY <1>2 DEF OwnLines, Unwritten, Open, LoadLines, SaveLines
  <2> QED BY <1>1, <2>1, <2>2 DEF Base
<1>3. CASE Load
  <2>1. dir["final"] \in 0..attempts
    BY DirNumbered DEF Numbered, Files
  <2>2. returned' \in 0..attempts /\ pc' \in {"40", "idle", "down"}
    BY <1>3, <2>1 DEF Base, Typed, Load, LoadFindsNothing, LoadFindsFile, LoadDecodes,
       LoadCorrupt, history, Rejected, NoFile
  <2>3. UNCHANGED <<files, op, seen, attempts, acked, faults>>
    BY <1>3 DEF Load, LoadFindsNothing, LoadFindsFile, LoadDecodes, LoadCorrupt, history
  <2>4. Typed'
    BY <2>2, <2>3 DEF Base, Typed, files, Lines, LoadLines
  <2>5. OwnLines' /\ Unwritten'
    BY <1>3, NotRecovering DEF Base, Typed, OwnLines, Load, LoadFindsNothing, LoadFindsFile,
       LoadDecodes, LoadCorrupt, history, files, Rejected, Lines, LoadLines, SaveLines, RecoverLines
  <2> QED BY <1>1, <2>4, <2>5 DEF Base
<1> QED BY <1>2, <1>3

(* A save changes the directory by removes, by renames and by the creation   *)
(* of .tmp under a version that no file holds.                               *)
LEMMA SaveFilesNumbered ==
  ASSUME Base, Save
  PROVE  Directories' /\ UNCHANGED attempts
<1> USE DEF Files
<1>1. CASE SaveWriteBegins
  <2>1. \A f \in Files : dir[f] < attempts
    BY <1>1 DEF Base, Unwritten, OwnLines, SaveWriteBegins, SaveLines
  <2>2. Numbered([dir EXCEPT !["tmp"] = attempts], attempts)
    BY <2>1, DirNumbered DEF Numbered, NoFile
  <2> QED BY <1>1, <2>2, SetDirNumbered DEF SaveWriteBegins, history
<1>2. CASE SaveBackUp \/ SaveRenameTemp \/ SavePutBack \/ SaveReturns
  <2>1. \A d : SetDir(d) /\ UNCHANGED attempts /\ Numbered(d, attempts) => Directories'
    BY SetDirNumbered
  <2> QED
    BY <1>2, <2>1, DirNumbered, RemoveNumbered, RenameNumbered
    DEF SaveBackUp, SaveRenameTemp, SavePutBack, SaveReturns, RemoveAt, RenameAt, history
<1>3. CASE SaveSyncDirectory
  BY <1>3, DirNumbered DEF SaveSyncDirectory, Directories, Base, Numbered, history
<1>4. CASE SaveEncode \/ SaveWriteEnds \/ SaveSyncFile \/ SaveLookForFinal \/ SaveLookForBackup
  BY <1>4 DEF Base, Directories, Numbered, SaveEncode, SaveWriteEnds, SaveSyncFile,
     SaveLookForFinal, SaveLookForBackup, files, history
<1> QED BY <1>1, <1>2, <1>3, <1>4 DEF Save

(* ... by the rest of save, ...                                              *)
LEMMA SaveBase ==
  ASSUME Base, Save, UNCHANGED bounds
  PROVE  Base'
<1>1. Directories' /\ UNCHANGED attempts
  BY SaveFilesNumbered
<1> USE DEF Save, SaveEncode, SaveWriteBegins, SaveWriteEnds, SaveSyncFile, SaveLookForFinal,
      SaveBackUp, SaveRenameTemp, SaveLookForBackup, SavePutBack, SaveSyncDirectory,
      SaveReturns, RemoveAt, RenameAt, SetDir, files, history, Rejected
<1>2. pc' \in SaveLines \cup {"idle", "down"} /\ pc' # "50"
  BY DEF SaveLines
<1>3. pc \in SaveLines /\ op = "save" /\ UNCHANGED op
  BY DEF Base, OwnLines, SaveLines
<1>12. attempts \in Nat /\ attempts > 0 /\ whole \subseteq 1..attempts /\ acked \in 0..attempts
  BY <1>3 DEF Base, Typed, OwnLines
<1>4. whole' \subseteq whole \cup {attempts}
  OBVIOUS
<1>5. synced' \subseteq synced \cup {attempts}
  BY DEF Base, OwnLines
<1>6. acked' \in {acked, attempts} /\ UNCHANGED <<seen, returned, faults>>
  OBVIOUS
<1>7. pc' \in {"55 writing", "56"} => dir'["tmp"] = attempts'
  BY <1>1, <1>3, DirNumbered DEF Base, OwnLines, Files
<1>8. pc' = "55" => UNCHANGED dir /\ pc = "50"
  OBVIOUS
<1> HIDE DEF Save
<1>9. Typed'
  BY <1>12, <1>1, <1>2, <1>3, <1>4, <1>5, <1>6 DEF Base, Typed, Lines, NoFile
<1>10. OwnLines'
  BY <1>1, <1>2, <1>3, <1>7 DEF Base, OwnLines, LoadLines, SaveLines
<1>11. Unwritten'
  BY <1>1, <1>2, <1>3, <1>8 DEF Base, Unwritten, RecoverLines, SaveLines
<1> QED BY <1>1, <1>9, <1>10, <1>11 DEF Base

(* ... and by the start of a save and by every fault.                        *)
LEMMA FaultBase ==
  ASSUME Base, StartSave \/ IOError \/ Crash \/ PowerFailure, UNCHANGED bounds
  PROVE  Base'
<1>1. CASE StartSave
  <2>1. Directories'
    BY <1>1, SameFiles, DirNumbered DEF StartSave
  <2>2. Typed'
    BY <1>1, DirNumbered DEF Base, Typed, StartSave, files, Lines, RecoverLines
  <2>3. OwnLines' /\ Unwritten'
    BY <1>1, DirNumbered DEF Base, OwnLines, Unwritten, StartSave, files, Numbered, LoadLines, SaveLines
  <2> QED BY <2>1, <2>2, <2>3 DEF Base
<1>2. CASE IOError \/ Crash
  <2>1. Directories'
    BY <1>2, SameFiles, DirNumbered DEF IOError, Crash, history
  <2>2. faults' \in [FaultKinds -> Nat]
    BY <1>2, FaultTyped DEF Base, IOError, Crash, FaultKinds
  <2>3. pc' \in {"66", "idle", "down"} /\ UNCHANGED <<files, op, seen, history>>
    BY <1>2 DEF IOError, Crash, Rejected
  <2>4. Typed'
    BY <2>2, <2>3 DEF Base, Typed, files, history, Lines, SaveLines
  <2>5. pc' = "66" => op = "save"
    BY <1>2 DEF Base, OwnLines, IOError, Crash, Rejected, SaveLines
  <2>6. OwnLines' /\ Unwritten'
    BY <2>3, <2>5 DEF Base, OwnLines, Unwritten, history, LoadLines, SaveLines, RecoverLines
  <2> QED BY <2>1, <2>4, <2>6 DEF Base
<1>3. CASE PowerFailure
  <2>1. Directories'
    BY <1>3, DirNumbered DEF Base, Directories, Numbered, PowerFailure, history
  <2>2. faults' \in [FaultKinds -> Nat]
    BY <1>3, FaultTyped DEF Base, PowerFailure, FaultKinds
  <2>3. whole' \subseteq whole /\ synced' = synced \cup whole'
    BY <1>3 DEF PowerFailure
  <2>4. pc' = "down" /\ UNCHANGED <<op, seen, history>>
    BY <1>3 DEF PowerFailure
  <2>5. Typed'
    BY <2>2, <2>3, <2>4 DEF Base, Typed, history, Lines, NoFile
  <2>6. OwnLines' /\ Unwritten'
    BY <2>4 DEF Base, OwnLines, Unwritten, history, LoadLines, SaveLines, RecoverLines
  <2> QED BY <2>1, <2>5, <2>6 DEF Base
<1> QED BY <1>1, <1>2, <1>3

(* Base holds of an empty directory and of a found one.                      *)
LEMMA InitBase == Init \/ InitFound => Base
<1>1. ASSUME NEW d, NEW complete, NEW n \in Nat, StartWith(d, complete, n),
             Numbered(d, n), complete \subseteq 1..n
      PROVE  Base
  <2>1. Directories
    BY <1>1 DEF StartWith, Directories
  <2>2. Typed
    BY <1>1 DEF StartWith, Typed, Lines, NoFile, FaultKinds
  <2>3. OwnLines /\ Unwritten
    BY <1>1 DEF StartWith, OwnLines, Unwritten, LoadLines, SaveLines
  <2> QED BY <2>1, <2>2, <2>3 DEF Base
<1>2. Init => Base
  <2>1. Numbered(Empty, 0)
    BY DEF Numbered, Empty, NoFile
  <2> QED BY <1>1, <2>1 DEF Init
<1>3. InitFound => Base
  <2> SUFFICES ASSUME NEW present \in SUBSET Files, NEW complete \in SUBSET present,
                      StartWith([f \in Files |-> IF f \in present THEN FoundVersion[f] ELSE NoFile],
                                {FoundVersion[f] : f \in complete}, 3)
               PROVE  Base
    BY DEF InitFound
  <2>1. FoundVersion["bak"] = 1 /\ FoundVersion["final"] = 2 /\ FoundVersion["tmp"] = 3
    BY DEF FoundVersion, Files
  <2>2. {FoundVersion[f] : f \in complete} \subseteq 1..3
    BY <2>1 DEF Files
  <2>3. Numbered([f \in Files |-> IF f \in present THEN FoundVersion[f] ELSE NoFile], 3)
    BY <2>1 DEF Numbered, Files, NoFile
  <2> QED BY <1>1, <2>2, <2>3
<1> QED BY <1>2, <1>3

(* Base is inductive.                                                        *)
LEMMA BaseStep == Base /\ [Next]_vars => Base'
<1> SUFFICES ASSUME Base, [Next]_vars
             PROVE  Base'
  OBVIOUS
<1>1. CASE Next
  BY <1>1, RecoverBase, LoadBase, SaveBase, FaultBase DEF Next, Step
<1>2. CASE UNCHANGED vars
  BY <1>2 DEF Base, Directories, Numbered, Typed, OwnLines, Unwritten, vars, files, history
<1> QED BY <1>1, <1>2

(* Base is stronger than the type invariant.                                 *)
LEMMA BaseTypeOK == Base => TypeOK
  BY DEF Base, Directories, Numbered, Typed, Lines, TypeOK, Exists, NoFile

(***************************************************************************)
(* The type invariant, for any bounds, from any directory.                 *)
(***************************************************************************)
THEOREM TypeCorrect == SpecAnywhere => []TypeOK
<1>1. SpecAnywhere => []Base
  BY InitBase, BaseStep, PTL DEF SpecAnywhere
<1> QED BY <1>1, BaseTypeOK, PTL

----------------------------------------------------------------------------
(* Which of the three files there are.                                       *)
Holds(final, tmp, bak) ==
  /\ Exists("final") = final
  /\ Exists("tmp") = tmp
  /\ Exists("bak") = bak

(* While recover looks for the files, what it saw is still so.               *)
Looked ==
  /\ pc \in {"94", "95"} => seen["final"] = Exists("final")
  /\ pc = "95" => seen["tmp"] = Exists("tmp")

(* The files that are there at each line of recover: nothing else touches    *)
(* the directory between the check that led to the line and the line.        *)
RecoverShape ==
  /\ pc \in {"102", "123", "151", "166", "167"} => Holds(FALSE, FALSE, TRUE)
  /\ pc \in {"107", "108", "110"} => Holds(FALSE, TRUE, FALSE)
  /\ pc \in {"116", "117", "121", "122", "134", "143", "161"} => Holds(TRUE, FALSE, TRUE)
  /\ pc \in {"131", "132", "139", "140"} => Holds(TRUE, TRUE, seen["bak"])
  /\ pc = "141" => Holds(FALSE, TRUE, seen["bak"])
  /\ pc \in {"148", "149"} => Holds(TRUE, TRUE, TRUE)
  /\ pc \in {"150", "159", "160", "165"} => Holds(FALSE, TRUE, TRUE)
  /\ pc \in {"36", "50", "55"} => ~Exists("tmp") /\ ~Exists("bak")

(* The files that are there at each line of load and of save. At 73, after   *)
(* the directory was synced, a power failure leaves the directory as it is.  *)
SaveShape ==
  /\ pc = "40" => Holds(TRUE, FALSE, FALSE)
  /\ pc \in {"55 writing", "56", "58", "59", "60"} => dir["tmp"] = attempts /\ ~Exists("bak")
  /\ pc \in {"59", "60"} => Exists("final")
  /\ pc \in {"64", "66", "67"} => dir["tmp"] = attempts /\ ~Exists("final")
  /\ pc = "67" => Exists("bak")
  /\ pc \in {"72", "73"} => dir["final"] = attempts /\ ~Exists("tmp")
  /\ pc = "73" => disk = {dir}

Shape == Looked /\ RecoverShape /\ SaveShape

(* Shape is kept by recover, and by all other steps.                         *)
LEMMA ShapeRecover ==
  ASSUME Base, Shape, Recover
  PROVE  Shape'
<1>0. dir \in [Files -> Nat] /\ seen \in [Files -> BOOLEAN]
  BY DirNumbered DEF Base, Typed
<1> USE <1>0 DEF Shape, Looked, RecoverShape, SaveShape, Holds, Exists, Recovered, Rejected, SetDir, Files, NoFile
<1>1. CASE RecoverLook
  BY <1>1 DEF RecoverLook, SeeAt, ChooseCase, Case, files, history
<1>3. CASE RecoverBackupOnly
  BY <1>3 DEF RecoverBackupOnly, RenameAt
<1>4. CASE RecoverTempOnly
  BY <1>4 DEF RecoverTempOnly, RenameAt, RemoveAt, CheckAt, files
<1>5. CASE RecoverFinalAndBackup
  BY <1>5 DEF RecoverFinalAndBackup, RenameAt, RemoveAt, CheckAt, files
<1>6. CASE RecoverFinalAndTemp
  BY <1>6 DEF RecoverFinalAndTemp, RenameAt, RemoveAt, CheckAt, files
<1>7. CASE RecoverTempAndBackup
  BY <1>7 DEF RecoverTempAndBackup, RenameAt, RemoveAt, CheckAt, files
<1> QED BY <1>1, <1>3, <1>4, <1>5, <1>6, <1>7 DEF Recover

LEMMA ShapeRest ==
  ASSUME Base, Shape, Open \/ Load \/ Save \/ StartSave \/ IOError \/ Crash \/ PowerFailure
  PROVE  Shape'
<1>0. dir \in [Files -> Nat] /\ seen \in [Files -> BOOLEAN]
  BY DirNumbered DEF Base, Typed
<1> USE <1>0 DEF Shape, Looked, RecoverShape, SaveShape, Holds, Exists, Recovered, Rejected, SetDir, Files, NoFile
<1>1. CASE Open \/ StartSave \/ Crash \/ PowerFailure
  BY <1>1 DEF Open, StartSave, Crash, PowerFailure
<1>2. CASE Load
  BY <1>2 DEF Load, LoadFindsNothing, LoadFindsFile, LoadDecodes, LoadCorrupt, files, history
<1>3. CASE IOError
  BY <1>3 DEF IOError, files, history
<1>4. CASE Save
  BY <1>4 DEF Save, SaveEncode, SaveWriteBegins, SaveWriteEnds, SaveSyncFile, SaveLookForFinal,
      SaveBackUp, SaveRenameTemp, SaveLookForBackup, SavePutBack, SaveSyncDirectory,
      SaveReturns, RemoveAt, RenameAt, files, history
<1> QED BY <1>1, <1>2, <1>3, <1>4

LEMMA ShapeStep == Base /\ Shape /\ [Next]_vars => Shape'
<1> SUFFICES ASSUME Base, Shape, [Next]_vars
             PROVE  Shape'
  OBVIOUS
<1>1. CASE Next
  BY <1>1, ShapeRecover, ShapeRest DEF Next, Step
<1>2. CASE UNCHANGED vars
  BY <1>2 DEF vars, files, history, Shape, Looked, RecoverShape, SaveShape, Holds, Exists
<1> QED BY <1>1, <1>2

(* As long as every file could be read, the checks recover has made are      *)
(* still true at the lines that rely on them.                                *)
Checked ==
  faults["read"] = 0 =>
    /\ pc \in {"117", "132", "134", "143", "161"} => Valid("final")
    /\ pc \in {"121", "122", "139", "140", "148", "149"} => ~Valid("final")
    /\ pc \in {"108", "140", "141", "160"} => Valid("tmp")
    /\ pc \in {"110", "148", "149", "150", "165"} => ~Valid("tmp")
    /\ pc \in {"122", "123", "149", "150", "151", "167"} => Valid("bak")

(* The lines after the write of .tmp, and those after its sync.              *)
WrittenLines == {"56", "58", "59", "60", "64", "66", "67", "72", "73"}
SyncedLines == WrittenLines \ {"56"}

(* There the version of the save is complete, and its contents are on the    *)
(* disk.                                                                     *)
Written ==
  /\ pc \in WrittenLines => attempts \in whole
  /\ pc \in SyncedLines => attempts \in synced

(* Checked is kept: a check is followed by the operations it allows, and     *)
(* these leave the checked file or give it its new name.                     *)
LEMMA CheckedStep == Base /\ Shape /\ Checked /\ [Next]_vars => Checked'
<1> SUFFICES ASSUME Base, Shape, Checked, [Next]_vars
             PROVE  Checked'
  OBVIOUS
<1>0. /\ dir \in [Files -> Nat]
      /\ NoFile \notin whole
      /\ faults \in [FaultKinds -> Nat]
      /\ bounds["read"] \in Nat
  BY DirNumbered, PersistenceAssumption DEF Base, Typed, NoFile, FaultKinds
<1> USE <1>0 DEF Checked, Valid, Recovered, Rejected, SetDir, Files, NoFile
<1>1. CASE Recover
  <2> USE DEF Shape, RecoverShape, Holds, Exists
  <2>1. CASE RecoverLook \/ RecoverBackupOnly
    BY <2>1 DEF RecoverLook, RecoverBackupOnly, SeeAt, ChooseCase, Case, RenameAt, files, history
  <2>2. CASE RecoverTempOnly
    BY <2>2 DEF RecoverTempOnly, RenameAt, RemoveAt, CheckAt, Fault, FaultKinds, files
  <2>3. CASE RecoverFinalAndBackup
    BY <2>3 DEF RecoverFinalAndBackup, RenameAt, RemoveAt, CheckAt, Fault, FaultKinds, files
  <2>4. CASE RecoverFinalAndTemp
    BY <2>4 DEF RecoverFinalAndTemp, RenameAt, RemoveAt, CheckAt, Fault, FaultKinds, files
  <2>5. CASE RecoverTempAndBackup
    BY <2>5 DEF RecoverTempAndBackup, RenameAt, RemoveAt, CheckAt, Fault, FaultKinds, files
  <2> QED BY <1>1, <2>1, <2>2, <2>3, <2>4, <2>5 DEF Recover
<1>2. CASE Open \/ StartSave \/ Crash \/ PowerFailure \/ IOError
  BY <1>2 DEF Open, StartSave, Crash, PowerFailure, IOError
<1>3. CASE Load
  BY <1>3 DEF Load, LoadFindsNothing, LoadFindsFile, LoadDecodes, LoadCorrupt
<1>4. CASE Save
  BY <1>4 DEF Save, SaveEncode, SaveWriteBegins, SaveWriteEnds, SaveSyncFile, SaveLookForFinal,
      SaveBackUp, SaveRenameTemp, SaveLookForBackup, SavePutBack, SaveSyncDirectory,
      SaveReturns, RemoveAt, RenameAt
<1>5. CASE UNCHANGED vars
  BY <1>5 DEF vars, files
<1> QED BY <1>1, <1>2, <1>3, <1>4, <1>5 DEF Next, Step

(* Written is kept: only a power failure takes a version away, and it        *)
(* leaves no save at its line.                                               *)
LEMMA WrittenStep == Base /\ Shape /\ Written /\ [Next]_vars => Written'
<1> SUFFICES ASSUME Base, Shape, Written, [Next]_vars
             PROVE  Written'
  OBVIOUS
<1> USE DEF Written, WrittenLines, SyncedLines, Rejected
<1>1. CASE Recover
  <2>1. pc' \in RecoverLines \cup {"36", "50", "idle", "down"}
    BY <1>1 DEF Recover, RecoverLook, RecoverBackupOnly, RecoverTempOnly, RecoverFinalAndBackup,
       RecoverFinalAndTemp, RecoverTempAndBackup, SeeAt, ChooseCase, Case, RenameAt, RemoveAt,
       CheckAt, Recovered, RecoverLines
  <2> QED BY <2>1 DEF RecoverLines
<1>2. CASE Open \/ StartSave \/ Crash \/ PowerFailure
  BY <1>2 DEF Open, StartSave, Crash, PowerFailure
<1>3. CASE Load
  BY <1>3 DEF Load, LoadFindsNothing, LoadFindsFile, LoadDecodes, LoadCorrupt
<1>4. CASE IOError
  BY <1>4 DEF IOError, files, history
<1>5. CASE Save
  BY <1>5 DEF Shape, SaveShape, Save, SaveEncode, SaveWriteBegins, SaveWriteEnds, SaveSyncFile,
      SaveLookForFinal, SaveBackUp, SaveRenameTemp, SaveLookForBackup, SavePutBack,
      SaveSyncDirectory, SaveReturns, RemoveAt, RenameAt, SetDir, files, history
<1>6. CASE UNCHANGED vars
  BY <1>6 DEF vars, files, history
<1> QED BY <1>1, <1>2, <1>3, <1>4, <1>5, <1>6 DEF Next, Step

(* The faults each action may count: recover an unreadable file, ...         *)
LEMMA RecoverFaults == Recover => UNCHANGED faults \/ Fault("read")
  BY DEF Recover, RecoverLook, RecoverBackupOnly, RecoverTempOnly, RecoverFinalAndBackup,
     RecoverFinalAndTemp, RecoverTempAndBackup, SeeAt, ChooseCase, RenameAt, RemoveAt, CheckAt

(* ... the others their own kind or none.                                    *)
LEMMA OtherFaults ==
  /\ Open \/ Load \/ Save \/ StartSave => UNCHANGED faults
  /\ IOError => Fault("io")
  /\ Crash => Fault("crash")
  /\ PowerFailure => Fault("power")
<1>1. Open \/ Load \/ StartSave => UNCHANGED faults
  BY DEF Open, StartSave, Load, LoadFindsNothing, LoadFindsFile, LoadDecodes, LoadCorrupt
<1>2. Save => UNCHANGED faults
  BY DEF Save, SaveEncode, SaveWriteBegins, SaveWriteEnds, SaveSyncFile, SaveLookForFinal,
     SaveBackUp, SaveRenameTemp, SaveLookForBackup, SavePutBack, SaveSyncDirectory,
     SaveReturns, RemoveAt, RenameAt
<1>3. (IOError => Fault("io")) /\ (Crash => Fault("crash")) /\ (PowerFailure => Fault("power"))
  BY DEF IOError, Crash, PowerFailure
<1> QED BY <1>1, <1>2, <1>3

(* Faults are never taken back and stay within their bounds.                 *)
LEMMA FaultsWithinBounds ==
  ASSUME Base, Next, NEW k \in FaultKinds
  PROVE  /\ faults[k] <= faults'[k]
         /\ faults[k] <= bounds[k] => faults'[k] <= bounds'[k]
<1>1. faults[k] \in Nat /\ bounds[k] \in Nat /\ UNCHANGED bounds
  BY PersistenceAssumption DEF Base, Typed, Next, Step, FaultKinds
<1>2. UNCHANGED faults \/ \E kind \in FaultKinds : Fault(kind)
  BY RecoverFaults, OtherFaults DEF Next, Step, FaultKinds
<1>3. ASSUME NEW kind \in FaultKinds, Fault(kind)
      PROVE  faults'[k] = IF k = kind THEN faults[k] + 1 ELSE faults[k]
  BY <1>3 DEF Base, Typed, Fault
<1>4. ASSUME NEW kind \in FaultKinds, Fault(kind)
      PROVE  faults[kind] < bounds[kind]
  BY <1>4 DEF Fault
<1> QED BY <1>1, <1>2, <1>3, <1>4

(* The faults so far are at most those the bounds allow.                     *)
WithinBounds == \A k \in FaultKinds : faults[k] <= bounds[k]

(* The first part of the inductive invariant: what recover and save know at  *)
(* each line, whatever fails.                                                *)
Careful == Base /\ WithinBounds /\ Shape /\ Checked /\ Written

(* Careful is inductive, and so holds always.                                *)
LEMMA InitCareful == Init \/ InitFound => Careful
<1> SUFFICES ASSUME Init \/ InitFound
             PROVE  Careful
  OBVIOUS
<1>1. pc = "down" /\ faults = [k \in FaultKinds |-> 0] /\ bounds \in Bounds
  BY DEF Init, InitFound, StartWith
<1>2. WithinBounds
  BY <1>1, PersistenceAssumption DEF WithinBounds
<1>3. Shape /\ Checked /\ Written
  BY <1>1 DEF Shape, Looked, RecoverShape, SaveShape, Checked, Written, WrittenLines, SyncedLines
<1> QED BY <1>2, <1>3, InitBase DEF Careful

LEMMA CarefulStep == Careful /\ [Next]_vars => Careful'
<1>1. Base /\ WithinBounds /\ [Next]_vars => WithinBounds'
  BY FaultsWithinBounds DEF WithinBounds, vars
<1> QED BY <1>1, BaseStep, ShapeStep, CheckedStep, WrittenStep DEF Careful

LEMMA AlwaysCareful == SpecAnywhere => []Careful
  BY InitCareful, CarefulStep, PTL DEF SpecAnywhere

(* A step that can read the files, and is no power failure, leaves a         *)
(* readable file if there was one.                                           *)
LEMMA ReadableStep ==
  ASSUME Careful, Next, SomethingReadable, faults'["read"] = 0,
         faults'["power"] = faults["power"]
  PROVE  SomethingReadable'
<1>1. /\ dir \in [Files -> Nat]
      /\ NoFile \notin whole
      /\ faults \in [FaultKinds -> Nat]
  BY DirNumbered DEF Careful, Base, Typed, NoFile
<1>2. faults["read"] = 0
  BY <1>1, FaultsWithinBounds DEF Careful, FaultKinds
<1> SUFFICES ASSUME NEW f \in Files, Valid(f)
             PROVE  \E g \in Files : Valid(g)'
  BY DEF SomethingReadable
<1> USE DEF Careful, Checked, Valid, Files, NoFile
<1>3. CASE Recover
  <2> USE <1>1, <1>2 DEF Shape, RecoverShape, Holds, Exists, SetDir
  <2>1. CASE RecoverLook \/ RecoverBackupOnly
    BY <2>1 DEF RecoverLook, RecoverBackupOnly, SeeAt, ChooseCase, RenameAt, files
  <2>2. CASE RecoverTempOnly
    BY <2>2 DEF RecoverTempOnly, RenameAt, RemoveAt, CheckAt, files
  <2>3. CASE RecoverFinalAndBackup
    BY <2>3 DEF RecoverFinalAndBackup, RenameAt, RemoveAt, CheckAt, files
  <2>4. CASE RecoverFinalAndTemp
    BY <2>4 DEF RecoverFinalAndTemp, RenameAt, RemoveAt, CheckAt, files
  <2>5. CASE RecoverTempAndBackup
    BY <2>5 DEF RecoverTempAndBackup, RenameAt, RemoveAt, CheckAt, files
  <2> QED BY <1>3, <2>1, <2>2, <2>3, <2>4, <2>5 DEF Recover
<1>4. CASE Open \/ Load \/ StartSave \/ IOError \/ Crash
  BY <1>4 DEF Open, StartSave, Load, LoadFindsNothing, LoadFindsFile, LoadDecodes,
     LoadCorrupt, IOError, Crash, files
<1>5. CASE Save
  BY <1>1, <1>5 DEF Shape, SaveShape, RecoverShape, Exists, Written, WrittenLines, SetDir, Save,
     SaveEncode, SaveWriteBegins, SaveWriteEnds, SaveSyncFile, SaveLookForFinal, SaveBackUp,
     SaveRenameTemp, SaveLookForBackup, SavePutBack, SaveSyncDirectory, SaveReturns, RemoveAt,
     RenameAt, files, history
<1>6. CASE PowerFailure
  BY <1>1, <1>6, OtherFaults DEF Fault, FaultKinds
<1> QED BY <1>3, <1>4, <1>5, <1>6 DEF Next, Step

(***************************************************************************)
(* A recovery or a save that can read the files never removes the last one *)
(* that decodes, whatever else fails, and from any directory it is given:  *)
(* the removes of persistence-manager.ts:110, 122, 140, 149, 150 and 165   *)
(* come after a check of the file that stays.                              *)
(***************************************************************************)
THEOREM ReadableKept == SpecAnywhere => LastReadableKept
<1>1. Careful /\ [Next]_vars =>
        [/\ SomethingReadable
         /\ faults'["read"] = 0
         /\ faults'["power"] = faults["power"]
         => SomethingReadable']_vars
  BY ReadableStep
<1> QED BY <1>1, AlwaysCareful, PTL DEF SpecAnywhere, LastReadableKept

----------------------------------------------------------------------------
(* Version x is readable if the versions W are, and is v or a later one.     *)
Good(v, x, W) == x \in W /\ x >= v

(* The file load would go by if nothing were checked: the final one, or      *)
(* else the temporary one, or else the backup.                               *)
Main(d) ==
  IF d["final"] # NoFile THEN d["final"]
  ELSE IF d["tmp"] # NoFile THEN d["tmp"] ELSE d["bak"]

(* A check of a file may still fail although the file is complete.           *)
MayMisread == faults["read"] < bounds["read"]

(* What keeps version v, or a later one, through any further steps: the      *)
(* file load would go by is good, not all three files are there, and the     *)
(* temporary file is no older than v. If a check may still fail for a file   *)
(* that could be read, the backup must be good as well, and a temporary      *)
(* file must not be the only one, as recover removes it when the check       *)
(* fails.                                                                    *)
Kept(v, d, W, misread) ==
  /\ Good(v, Main(d), W)
  /\ \E f \in Files : d[f] = NoFile
  /\ d["tmp"] # NoFile => d["tmp"] >= v
  /\ misread =>
       /\ d["bak"] # NoFile => Good(v, d["bak"], W)
       /\ d["final"] = NoFile /\ d["tmp"] # NoFile => d["bak"] # NoFile

(* At the lines at which the file load would go by is about to be removed,   *)
(* or is gone, the file that takes its place is good; lines that remove the  *)
(* last good file are not reached.                                           *)
Fallback(v, line, d, W) ==
  /\ line \in {"121", "122", "123", "165", "166", "167", "64", "66", "67"} =>
       (d["bak"] # NoFile => Good(v, d["bak"], W))
  /\ line \in {"140", "141"} => Good(v, d["tmp"], W) /\ d["bak"] = NoFile
  /\ line \notin {"110", "143", "148", "149", "150", "151"}

(* At most one check fails to read a file. With two the last acknowledged    *)
(* save can be lost: recover takes the valid final file and its valid        *)
(* backup to be invalid, and MCPersistenceUnreadable shows it.               *)
OneMisread == \A b \in Bounds : b["read"] <= 1

(* A version that is kept stays kept through recover. W is what counts as    *)
(* readable: every complete version, or, if no check may fail, those on the  *)
(* disk.                                                                     *)
LEMMA KeptByRecover ==
  ASSUME OneMisread, Careful, Recover, UNCHANGED bounds,
         NEW v \in Nat, v # NoFile, NEW W, W \subseteq whole,
         W = whole \/ bounds["read"] = 0,
         Kept(v, dir, W, MayMisread), Fallback(v, pc, dir, W)
  PROVE  Kept(v, dir', W, MayMisread') /\ Fallback(v, pc', dir', W)
<1>1. /\ dir \in [Files -> Nat]
      /\ NoFile \notin whole
      /\ faults \in [FaultKinds -> Nat]
      /\ bounds["read"] \in 0..1
      /\ faults["read"] \in 0..bounds["read"]
      /\ seen \in [Files -> BOOLEAN]
  BY DirNumbered, PersistenceAssumption
  DEF Careful, Base, Typed, NoFile, OneMisread, FaultKinds, WithinBounds
<1> USE <1>1 DEF Kept, Fallback, Good, Main, MayMisread, Careful, Checked, Shape, RecoverShape, Holds,
      Exists, Valid, SetDir, Recovered, Rejected, Files, NoFile
<1>2. CASE RecoverLook \/ RecoverBackupOnly
  BY <1>2 DEF RecoverLook, RecoverBackupOnly, SeeAt, ChooseCase, Case, RenameAt, files, Looked
<1>3. CASE RecoverTempOnly
  BY <1>3 DEF RecoverTempOnly, RenameAt, RemoveAt, CheckAt, Fault, FaultKinds, files
<1>4. CASE RecoverFinalAndBackup
  BY <1>4 DEF RecoverFinalAndBackup, RenameAt, RemoveAt, CheckAt, Fault, FaultKinds, files
<1>5. CASE RecoverFinalAndTemp
  <2>1. CASE pc = "131"
    BY <1>5, <2>1 DEF RecoverFinalAndTemp, RenameAt, RemoveAt, CheckAt, Fault, FaultKinds, files
  <2>2. CASE pc \in {"132", "134"}
    BY <1>5, <2>2 DEF RecoverFinalAndTemp, RenameAt, RemoveAt, CheckAt, files
  <2>3. CASE pc = "139"
    <3>1. dir["final"] # NoFile /\ dir["tmp"] # NoFile /\ dir["bak"] = NoFile /\ ~seen["bak"]
      BY <2>3
    <3>2. CheckAt("139", "tmp", "140", Rejected)
      BY <1>5, <2>3, <3>1 DEF RecoverFinalAndTemp, RenameAt, RemoveAt, CheckAt
    <3>3. UNCHANGED files /\ pc' \in {"140", "idle", "down"}
      BY <3>2 DEF CheckAt
    <3>4. pc' = "140" => Valid("tmp") /\ UNCHANGED faults
      BY <3>2 DEF CheckAt
    <3>5. MayMisread' => MayMisread
      BY <3>2 DEF CheckAt, Fault, FaultKinds
    <3>6. pc' = "140" => Good(v, dir["tmp"], W)
      BY <2>3, <3>1, <3>4
    <3> QED
      BY <3>1, <3>3, <3>5, <3>6 DEF files
  <2>4. CASE pc = "140"
    <3>1. RemoveAt("140", "final", "141")
      BY <1>5, <2>4 DEF RecoverFinalAndTemp, RenameAt, RemoveAt, CheckAt
    <3> QED
      BY <2>4, <3>1 DEF RemoveAt
  <2>6. CASE pc = "141"
    <3>1. RenameAt("141", "tmp", "final", IF seen["bak"] THEN "143" ELSE Recovered)
      BY <1>5, <2>6 DEF RecoverFinalAndTemp, RenameAt, RemoveAt, CheckAt
    <3> QED
      BY <2>6, <3>1 DEF RenameAt
  <2>5. CASE pc \in {"143", "148", "149", "150", "151"}
    BY <2>5
  <2> QED
    BY <1>5, <2>1, <2>2, <2>3, <2>4, <2>5, <2>6
    DEF RecoverFinalAndTemp, RenameAt, RemoveAt, CheckAt
<1>6. CASE RecoverTempAndBackup
  BY <1>6 DEF RecoverTempAndBackup, RenameAt, RemoveAt, CheckAt, Fault, FaultKinds, files
<1> QED BY <1>2, <1>3, <1>4, <1>5, <1>6 DEF Recover

(* A version that is kept stays kept through a save: until line 64 the old   *)
(* file is there, then .tmp is complete, and synced.                         *)
LEMMA KeptBySave ==
  ASSUME Careful, Save, UNCHANGED bounds,
         NEW v \in Nat, v # NoFile, v <= attempts, NEW W, W \subseteq whole,
         pc \in SyncedLines => attempts \in W,
         Kept(v, dir, W, MayMisread), Fallback(v, pc, dir, W)
  PROVE  Kept(v, dir', W, MayMisread') /\ Fallback(v, pc', dir', W)
<1>1. /\ dir \in [Files -> Nat]
      /\ attempts \in Nat
      /\ NoFile \notin whole
  BY DirNumbered DEF Careful, Base, Typed, NoFile
<1>2. UNCHANGED faults
  BY OtherFaults
<1> USE <1>1, <1>2 DEF Kept, Fallback, Good, Main, MayMisread, Careful, Shape, SaveShape,
      RecoverShape, Exists, SetDir, Rejected, SyncedLines, WrittenLines, Files, NoFile
<1>3. CASE SaveEncode \/ SaveWriteBegins \/ SaveWriteEnds \/ SaveSyncFile \/ SaveLookForFinal
  BY <1>3 DEF SaveEncode, SaveWriteBegins, SaveWriteEnds, SaveSyncFile, SaveLookForFinal, files
<1>4. CASE SaveBackUp
  BY <1>4 DEF SaveBackUp, RemoveAt, RenameAt
<1>5. CASE SaveRenameTemp
  BY <1>5 DEF SaveRenameTemp, RenameAt
<1>6. CASE SaveLookForBackup \/ SavePutBack
  BY <1>6 DEF SaveLookForBackup, SavePutBack, RenameAt, files
<1>7. CASE SaveSyncDirectory \/ SaveReturns
  BY <1>7 DEF SaveSyncDirectory, SaveReturns
<1> QED BY <1>3, <1>4, <1>5, <1>6, <1>7 DEF Save

(* And through all other steps but a power failure.                          *)
LEMMA KeptByRest ==
  ASSUME Careful, Open \/ Load \/ StartSave \/ IOError \/ Crash, UNCHANGED bounds,
         NEW v \in Nat, NEW W,
         Kept(v, dir, W, MayMisread), Fallback(v, pc, dir, W)
  PROVE  Kept(v, dir', W, MayMisread') /\ Fallback(v, pc', dir', W)
<1>1. UNCHANGED dir /\ (pc' = "66" => pc = "64") /\ pc' \in {"93", "40", "66", "idle", "down"}
  BY DEF Open, StartSave, Load, LoadFindsNothing, LoadFindsFile, LoadDecodes, LoadCorrupt,
     IOError, Crash, files, Rejected
<1>2. faults'["read"] = faults["read"]
  <2>1. \A k \in {"io", "crash"} : Fault(k) => faults'["read"] = faults["read"]
    BY DEF Careful, Base, Typed, Fault, FaultKinds
  <2> QED BY <2>1, OtherFaults
<1> QED BY <1>1, <1>2 DEF Kept, Fallback, Good, Main, MayMisread

(* What is kept stays so when more versions are readable and fewer checks    *)
(* fail.                                                                     *)
LEMMA KeptGrows ==
  ASSUME NEW v, NEW d, NEW W, NEW W2, W \subseteq W2, NEW m, NEW m2, m2 => m, Kept(v, d, W, m)
  PROVE  Kept(v, d, W2, m2)
  BY DEF Kept, Good

LEMMA FallbackGrows ==
  ASSUME NEW v, NEW line, NEW d, NEW W, NEW W2, W \subseteq W2, Fallback(v, line, d, W)
  PROVE  Fallback(v, line, d, W2)
  BY DEF Fallback, Good

(* A check that may fail later may fail now.                                 *)
LEMMA MisreadsShrink ==
  ASSUME Careful, Next
  PROVE  MayMisread' => MayMisread
<1>1. faults["read"] \in Nat /\ faults'["read"] \in Nat
  BY BaseStep DEF Careful, Base, Typed, FaultKinds
<1>2. bounds["read"] \in Nat /\ UNCHANGED bounds
  BY PersistenceAssumption DEF Careful, Base, Typed, FaultKinds, Next, Step
<1>3. faults["read"] <= faults'["read"]
  BY FaultsWithinBounds DEF Careful, FaultKinds
<1> QED BY <1>1, <1>2, <1>3 DEF MayMisread

(* Without a power failure complete versions stay complete, synced ones      *)
(* stay synced, and the disk may hold nothing but what it might hold before  *)
(* and the new directory.                                                    *)
LEMMA FilesGrow ==
  ASSUME Recover \/ Open \/ Load \/ Save \/ StartSave \/ IOError \/ Crash
  PROVE  whole \subseteq whole' /\ synced \subseteq synced' /\ disk' \subseteq disk \cup {dir'}
<1> USE DEF SetDir, files
<1>1. CASE Recover
  BY <1>1 DEF Recover, RecoverLook, RecoverBackupOnly, RecoverTempOnly, RecoverFinalAndBackup,
     RecoverFinalAndTemp, RecoverTempAndBackup, SeeAt, ChooseCase, RenameAt, RemoveAt, CheckAt
<1>2. CASE Open \/ Load \/ StartSave \/ IOError \/ Crash
  BY <1>2 DEF Open, StartSave, Load, LoadFindsNothing, LoadFindsFile, LoadDecodes, LoadCorrupt,
     IOError, Crash
<1>3. CASE Save
  BY <1>3 DEF Save, SaveEncode, SaveWriteBegins, SaveWriteEnds, SaveSyncFile, SaveLookForFinal,
     SaveBackUp, SaveRenameTemp, SaveLookForBackup, SavePutBack, SaveSyncDirectory, SaveReturns,
     RemoveAt, RenameAt
<1> QED BY <1>1, <1>2, <1>3

(* Version v is kept in each directory of D, of which the current one has    *)
(* its fallback.                                                             *)
AllKept(v, D, W) ==
  v # NoFile =>
    /\ \A d \in D : Kept(v, d, W, MayMisread)
    /\ Fallback(v, pc, dir, W)

(* A step of the process, or a fault that leaves what was written.           *)
Process == (Recover \/ Open \/ Load \/ Save \/ StartSave \/ IOError \/ Crash) /\ UNCHANGED bounds

(* What is kept stays kept through a step of the process, for the files in   *)
(* memory, ...                                                               *)
LEMMA KeptByProcess ==
  ASSUME OneMisread, Careful, Process,
         NEW v \in Nat, v # NoFile, v <= attempts,
         NEW W, W \subseteq whole, W = whole \/ bounds["read"] = 0,
         pc \in SyncedLines => attempts \in W,
         Kept(v, dir, W, MayMisread), Fallback(v, pc, dir, W)
  PROVE  Kept(v, dir', W, MayMisread') /\ Fallback(v, pc', dir', W)
  BY KeptByRecover, KeptBySave, KeptByRest DEF Process

LEMMA KeptInMemory ==
  ASSUME OneMisread, Careful, Process, NEW v \in Nat, v <= attempts,
         AllKept(v, {dir}, whole)
  PROVE  v # NoFile => Kept(v, dir', whole', MayMisread') /\ Fallback(v, pc', dir', whole')
<1> SUFFICES ASSUME v # NoFile
             PROVE  Kept(v, dir', whole', MayMisread') /\ Fallback(v, pc', dir', whole')
  OBVIOUS
<1>1. Kept(v, dir, whole, MayMisread) /\ Fallback(v, pc, dir, whole)
  BY DEF AllKept
<1>2. pc \in SyncedLines => attempts \in whole
  BY DEF Careful, Written, SyncedLines
<1>3. Kept(v, dir', whole, MayMisread') /\ Fallback(v, pc', dir', whole)
  BY <1>1, <1>2, KeptByProcess
<1>4. whole \subseteq whole'
  BY FilesGrow DEF Process
<1> QED BY <1>3, <1>4, KeptGrows, FallbackGrows

(* ... and for all the directories a power failure may leave.                *)
LEMMA KeptOnDisk ==
  ASSUME OneMisread, Careful, Process, NEW v \in Nat, v <= attempts,
         bounds["read"] = 0, AllKept(v, disk, whole \cap synced)
  PROVE  v # NoFile =>
           /\ \A d \in disk' : Kept(v, d, whole' \cap synced', MayMisread')
           /\ Fallback(v, pc', dir', whole' \cap synced')
<1> SUFFICES ASSUME v # NoFile
             PROVE  /\ \A d \in disk' : Kept(v, d, whole' \cap synced', MayMisread')
                    /\ Fallback(v, pc', dir', whole' \cap synced')
  OBVIOUS
<1> DEFINE W == whole \cap synced
           W2 == whole' \cap synced'
<1>1. (\A d \in disk : Kept(v, d, W, MayMisread)) /\ Fallback(v, pc, dir, W)
  BY DEF AllKept
<1>2. W \subseteq W2 /\ W \subseteq whole /\ disk' \subseteq disk \cup {dir'}
  BY FilesGrow DEF Process
<1>3. pc \in SyncedLines => attempts \in W
  BY DEF Careful, Written, SyncedLines
<1>4. dir \in disk
  BY DEF Careful, Base, Directories
<1>5. MayMisread' => MayMisread
  BY MisreadsShrink DEF Process, Next, Step
<1> HIDE DEF W, W2
<1>6. Kept(v, dir', W, MayMisread') /\ Fallback(v, pc', dir', W)
  BY <1>1, <1>2, <1>3, <1>4, KeptByProcess
<1>7. \A d \in disk' : Kept(v, d, W2, MayMisread')
  BY <1>1, <1>2, <1>5, <1>6, KeptGrows
<1>8. Fallback(v, pc', dir', W2)
  BY <1>2, <1>6, FallbackGrows
<1> QED BY <1>7, <1>8 DEF W2

(* The last acknowledged save is kept: in the directory, or, if the power    *)
(* may fail, in every directory it may leave, by versions that are on the    *)
(* disk.                                                                     *)
Acked ==
  IF bounds["power"] = 0 THEN AllKept(acked, {dir}, whole)
                         ELSE AllKept(acked, disk, whole \cap synced)

(* The version the last load returned is kept until the power fails.         *)
Returned == faults["power"] = 0 => AllKept(returned, {dir}, whole)

(* Either no check fails to read a file, or one may and the power does not   *)
(* fail. With both, .tmp may be taken for the only file after the check of   *)
(* a good one failed, and its contents may never have been synced.           *)
PowerOrMisread == \A b \in Bounds : b["read"] = 0 \/ (b["read"] = 1 /\ b["power"] = 0)

(* Each step is one of the process or a power failure.                       *)
LEMMA NextSplits ==
  ASSUME Next
  PROVE  Process \/ (PowerFailure /\ UNCHANGED bounds)
  BY DEF Next, Step, Process

(* After the sync of .tmp the version of the save is on the disk.            *)
LEMMA SyncedAttempt ==
  ASSUME Careful, pc \in SyncedLines
  PROVE  attempts \in whole \cap synced
  BY DEF Careful, Written, SyncedLines, WrittenLines

(* Only the return of a save acknowledges a version, and only the return of  *)
(* a load returns one.                                                       *)
LEMMA HistoryChanges ==
  ASSUME Next
  PROVE  /\ acked' = acked \/ (SaveReturns /\ Process)
         /\ returned' = returned \/ ((LoadFindsNothing \/ LoadDecodes) /\ Process)
<1> USE DEF history
<1>1. CASE Recover
  BY <1>1 DEF Recover, RecoverLook, RecoverBackupOnly, RecoverTempOnly, RecoverFinalAndBackup,
     RecoverFinalAndTemp, RecoverTempAndBackup, SeeAt, ChooseCase, RenameAt, RemoveAt, CheckAt
<1>2. CASE Open \/ StartSave \/ IOError \/ Crash \/ PowerFailure
  BY <1>2 DEF Open, StartSave, IOError, Crash, PowerFailure
<1>3. CASE Load /\ Process
  BY <1>3 DEF Load, LoadFindsNothing, LoadFindsFile, LoadDecodes, LoadCorrupt
<1>4. CASE Save /\ Process
  BY <1>4 DEF Save, SaveEncode, SaveWriteBegins, SaveWriteEnds, SaveSyncFile, SaveLookForFinal,
     SaveBackUp, SaveRenameTemp, SaveLookForBackup, SavePutBack, SaveSyncDirectory, SaveReturns,
     RemoveAt, RenameAt
<1> QED BY <1>1, <1>2, <1>3, <1>4 DEF Next, Step, Process

(* A save that returns leaves its version as the final file in every         *)
(* directory a power failure may leave, without a temporary file; the        *)
(* backup it removes may come back with the power, but then no check fails.  *)
LEMMA AckedByReturn ==
  ASSUME Careful, SaveReturns, NEW m,
         NEW d \in disk', d = dir' \/ ~m
  PROVE  Kept(acked', d, whole' \cap synced', m)
<1>1. /\ dir \in [Files -> Nat]
      /\ attempts \in Nat
      /\ attempts \in whole \cap synced
      /\ NoFile \notin whole
  BY DirNumbered, SyncedAttempt
  DEF Careful, Base, Typed, NoFile, SaveReturns, SyncedLines, WrittenLines
<1>2. disk = {dir} /\ dir["final"] = attempts /\ dir["tmp"] = NoFile
  BY DEF Careful, Shape, SaveShape, Exists, SaveReturns
<1>3. d["final"] = attempts /\ d["tmp"] = NoFile /\ (m => d["bak"] = NoFile)
  BY <1>1, <1>2 DEF SaveReturns, SetDir, Files, NoFile
<1> QED BY <1>1, <1>3 DEF Kept, Good, Main, SaveReturns, SetDir, Files, NoFile

(* Acked is kept: the two kinds of bounds are the two cases.                 *)
LEMMA AckedStep ==
  ASSUME PowerOrMisread, Careful, Acked, Next
  PROVE  Acked'
<1>1. /\ attempts \in Nat
      /\ acked \in 0..attempts
      /\ bounds["read"] = 0 \/ (bounds["read"] = 1 /\ bounds["power"] = 0)
      /\ UNCHANGED bounds
      /\ dir \in disk
  BY DEF Careful, Base, Directories, Typed, PowerOrMisread, Next, Step
<1>2. OneMisread
  <2> SUFFICES ASSUME NEW b \in Bounds
               PROVE  b["read"] <= 1
    BY DEF OneMisread
  <2>1. b["read"] = 0 \/ b["read"] = 1
    BY DEF PowerOrMisread
  <2> QED BY <2>1
<1>5. CASE Process /\ acked' = acked
  <2>1. CASE bounds["power"] = 0
    BY <1>1, <1>2, <1>5, <2>1, KeptInMemory DEF Acked, AllKept
  <2>2. CASE bounds["power"] # 0
    BY <1>1, <1>2, <1>5, <2>2, KeptOnDisk DEF Acked, AllKept
  <2> QED BY <2>1, <2>2
<1>6. CASE SaveReturns /\ Process
  <2>1. \A m : Kept(acked', dir', whole' \cap synced', m)
    BY <1>6, AckedByReturn DEF SaveReturns, SetDir
  <2>2. \A d \in disk' : Kept(acked', d, whole' \cap synced', FALSE)
    BY <1>6, AckedByReturn
  <2>3. \A W : Fallback(acked', pc', dir', W)
    BY <1>6 DEF SaveReturns, Fallback
  <2>4. \A m : Kept(acked', dir', whole', m)
    BY <2>1, KeptGrows
  <2>5. bounds["power"] # 0 => ~MayMisread'
    BY <1>1, CarefulStep, FaultsWithinBounds DEF MayMisread, Careful, WithinBounds, FaultKinds, Base, Typed
  <2>6. CASE bounds["power"] = 0
    BY <1>1, <2>3, <2>4, <2>6 DEF Acked, AllKept
  <2>7. CASE bounds["power"] # 0
    <3>1. \A d \in disk' : Kept(acked', d, whole' \cap synced', MayMisread')
      BY <2>2, <2>5, <2>7 DEF Kept
    <3> QED BY <1>1, <2>3, <2>7, <3>1 DEF Acked, AllKept
  <2> QED BY <2>6, <2>7
<1>7. CASE PowerFailure
  <2>1. bounds["power"] # 0
    BY <1>7, PersistenceAssumption DEF PowerFailure, Fault, Careful, Base, Typed, FaultKinds
  <2>2. dir' \in disk /\ disk' = {dir'} /\ whole \cap synced \subseteq whole' \cap synced' /\ pc' = "down" /\ acked' = acked
    BY <1>7 DEF PowerFailure, history
  <2>3. MayMisread' => MayMisread
    BY MisreadsShrink
  <2> QED
    BY <1>1, <2>1, <2>2, <2>3, KeptGrows DEF Acked, AllKept, Fallback
<1> QED BY <1>5, <1>6, <1>7, NextSplits, HistoryChanges

(* Returned is kept: a load that returns leaves the final file alone in the  *)
(* directory.                                                                *)
LEMMA ReturnedStep ==
  ASSUME OneMisread, Careful, Returned, Next
  PROVE  Returned'
<1> SUFFICES ASSUME faults'["power"] = 0
             PROVE  AllKept(returned, {dir}, whole)'
  BY DEF Returned
<1>1. /\ attempts \in Nat
      /\ returned \in 0..attempts
      /\ dir \in [Files -> Nat]
      /\ NoFile \notin whole
      /\ faults["power"] \in Nat
  BY DirNumbered DEF Careful, Base, Typed, FaultKinds, NoFile
<1>2. faults["power"] = 0 /\ AllKept(returned, {dir}, whole)
  BY <1>1, FaultsWithinBounds DEF Careful, Returned, FaultKinds
<1>3. Process
  <2>1. ~PowerFailure
    BY <1>1, <1>2 DEF PowerFailure, Fault, Careful, Base, Typed, FaultKinds
  <2> QED BY <2>1, NextSplits
<1>4. CASE returned' = returned
  <2>1. returned # NoFile =>
          Kept(returned, dir', whole', MayMisread') /\ Fallback(returned, pc', dir', whole')
    BY <1>1, <1>2, <1>3, KeptInMemory
  <2> QED BY <1>4, <2>1 DEF AllKept
<1>5. CASE LoadFindsNothing
  BY <1>5 DEF LoadFindsNothing, AllKept
<1>6. CASE LoadDecodes
  <2>1. dir' = dir /\ whole' = whole /\ returned' = dir["final"] /\ pc' = "idle" /\ dir["final"] \in whole
    BY <1>6 DEF LoadDecodes, files, Valid
  <2>2. dir["final"] # NoFile /\ dir["tmp"] = NoFile /\ dir["bak"] = NoFile
    BY <1>6 DEF LoadDecodes, Careful, Shape, SaveShape, Holds, Exists
  <2> QED BY <1>1, <2>1, <2>2 DEF AllKept, Kept, Fallback, Good, Main, Files
<1> QED BY <1>3, <1>4, <1>5, <1>6, HistoryChanges

(* At first nothing was acknowledged or returned.                            *)
LEMMA InitKept == Init \/ InitFound => Acked /\ Returned
  BY DEF Init, InitFound, StartWith, Acked, Returned, AllKept

(* With Careful, Acked is inductive.                                         *)
LEMMA AlwaysAcked == ASSUME PowerOrMisread PROVE SpecAnywhere => []Acked
<1>1. Acked /\ Careful /\ [Next]_vars => Acked'
  <2>1. ASSUME Acked, UNCHANGED vars
        PROVE  Acked'
    BY <2>1 DEF Acked, AllKept, MayMisread, vars, files, history
  <2> QED BY <2>1, AckedStep
<1> QED BY <1>1, InitKept, AlwaysCareful, PTL DEF SpecAnywhere

(* In both cases the version is kept in the current directory.               *)
LEMMA AckedKept ==
  ASSUME Acked, Careful, acked # NoFile
  PROVE  Kept(acked, dir, whole, MayMisread)
  BY KeptGrows DEF Acked, AllKept, Careful, Base, Directories

(***************************************************************************)
(* The last acknowledged save survives: at every moment, also between two  *)
(* file operations of a save or a recovery, and after any number of        *)
(* crashes, failed operations and power failures, some file decodes to a   *)
(* version at least as new. save keeps the old file as .bak until the new  *)
(* one is in place (persistence-manager.ts:59-73), and recover removes a   *)
(* file only after the one that stays.                                     *)
(***************************************************************************)
THEOREM AckedSurvivesFaults ==
  ASSUME PowerOrMisread
  PROVE  SpecAnywhere => []AckedSurvives
<1>1. Acked /\ Careful => AckedSurvives
  <2> SUFFICES ASSUME Acked, Careful, acked # NoFile
               PROVE  \E f \in Files : Valid(f) /\ dir[f] >= acked
    BY DEF AckedSurvives
  <2> QED BY AckedKept DEF Kept, Good, Main, Files, Valid
<1> QED BY <1>1, AlwaysAcked, AlwaysCareful, PTL

(* A load that returns gives a version at least as new as each that is       *)
(* kept, because recover left no other file to find.                         *)
LEMMA LoadReturns ==
  ASSUME Careful, LoadFindsNothing \/ LoadDecodes,
         NEW v \in Nat, v # NoFile => Kept(v, dir, whole, MayMisread)
  PROVE  returned' >= v
<1>1. dir["tmp"] = NoFile /\ dir["bak"] = NoFile /\ dir["final"] \in Nat
  BY DirNumbered DEF Careful, Shape, RecoverShape, SaveShape, Holds, Exists, LoadFindsNothing,
     LoadDecodes, Files
<1>2. v # NoFile => dir["final"] \in whole /\ dir["final"] >= v
  BY <1>1 DEF Kept, Good, Main, Careful, Base, Typed, NoFile
<1> QED
  BY <1>1, <1>2 DEF LoadFindsNothing, LoadDecodes, Exists, NoFile, Careful, Base, Typed

(***************************************************************************)
(* A load that returns gives the last acknowledged save or a later         *)
(* attempt: when load reads the final file (persistence-manager.ts:36-40), *)
(* recover has left nothing else, and has promoted the file that counts.   *)
(***************************************************************************)
THEOREM LoadsAreRecent ==
  ASSUME PowerOrMisread
  PROVE  SpecAnywhere => LoadIsRecent
<1>1. ASSUME Careful, Next, pc \in LoadLines, pc' = "idle"
      PROVE  LoadFindsNothing \/ LoadDecodes
  <2>1. op = "load" /\ pc \in {"36", "40"}
    BY <1>1 DEF Careful, Base, OwnLines, LoadLines
  <2>2. ~Recover
    BY <2>1 DEF Recover, RecoverLook, RecoverBackupOnly, RecoverTempOnly, RecoverFinalAndBackup,
       RecoverFinalAndTemp, RecoverTempAndBackup, SeeAt, ChooseCase, RenameAt, RemoveAt, CheckAt
  <2>3. ~Save
    BY <2>1 DEF Save, SaveEncode, SaveWriteBegins, SaveWriteEnds, SaveSyncFile, SaveLookForFinal,
       SaveBackUp, SaveRenameTemp, SaveLookForBackup, SavePutBack, SaveSyncDirectory,
       SaveReturns, RemoveAt, RenameAt
  <2>4. ~(Open \/ StartSave \/ IOError \/ Crash \/ PowerFailure)
    BY <1>1, <2>1 DEF Open, StartSave, IOError, Crash, PowerFailure, Rejected
  <2> QED
    BY <1>1, <2>1, <2>2, <2>3, <2>4 DEF Next, Step, Load, LoadFindsFile, LoadCorrupt, Rejected
<1>2. Acked /\ Careful /\ [Next]_vars =>
        [pc' = "idle" /\ pc \in LoadLines => returned' >= acked]_vars
  <2> SUFFICES ASSUME Acked, Careful, Next, pc' = "idle", pc \in LoadLines
               PROVE  returned' >= acked
    OBVIOUS
  <2>1. acked \in Nat
    BY DEF Careful, Base, Typed
  <2> QED BY <1>1, <2>1, AckedKept, LoadReturns
<1> QED BY <1>2, AlwaysAcked, AlwaysCareful, PTL DEF SpecAnywhere, LoadIsRecent

(***************************************************************************)
(* Until the power fails, a load never returns an older version than an    *)
(* earlier load did: recover removes .tmp and .bak beside a valid final    *)
(* file (persistence-manager.ts:117, 132 and 134), so no later recovery    *)
(* can bring an older version back.                                        *)
(***************************************************************************)
THEOREM LoadsOnlyAdvance ==
  ASSUME OneMisread
  PROVE  SpecAnywhere => LoadsNeverGoBack
<1>1. Returned /\ Careful /\ [Next]_vars => Returned'
  <2>1. ASSUME Returned, UNCHANGED vars
        PROVE  Returned'
    BY <2>1 DEF Returned, AllKept, MayMisread, vars, files, history
  <2> QED BY <2>1, ReturnedStep
<1>2. SpecAnywhere => []Returned
  BY <1>1, InitKept, AlwaysCareful, PTL DEF SpecAnywhere
<1>3. Returned /\ Careful /\ [Next]_vars =>
        [faults["power"] = 0 => returned' >= returned]_vars
  <2> SUFFICES ASSUME Returned, Careful, Next, faults["power"] = 0
               PROVE  returned' >= returned
    OBVIOUS
  <2>1. returned \in Nat
    BY DEF Careful, Base, Typed
  <2>2. returned # NoFile => Kept(returned, dir, whole, MayMisread)
    BY DEF Returned, AllKept
  <2> QED BY <2>1, <2>2, HistoryChanges, LoadReturns
<1> QED BY <1>2, <1>3, AlwaysCareful, PTL DEF SpecAnywhere, LoadsNeverGoBack

----------------------------------------------------------------------------
(* The faults DurableStore promises to survive: crashes, and operations      *)
(* that throw. It says nothing of contents that are lost or of files that    *)
(* cannot be read.                                                           *)
StopsOnly == \A b \in Bounds : b["read"] = 0 /\ b["power"] = 0

(* Until the write of .tmp ends, the version of the save is not complete.    *)
NotYetWhole ==
  op = "save" /\ pc \in RecoverLines \cup {"50", "55", "55 writing"} => attempts \notin whole

(* The state of DurableStore that a state of the files stands for.           *)
Candidates == IF Readable = {} THEN {NoFile} ELSE Readable
Writing == op = "save" /\ pc \notin {"idle", "down"} /\ attempts \notin whole

(* A step that only moves versions between the files, or drops them.         *)
Moved ==
  /\ \A f \in Files : dir'[f] \in {dir[g] : g \in Files} \cup {NoFile}
  /\ UNCHANGED <<whole, synced, op, history>>

(* Every step of recover is such a step: a remove, a rename, a check, ...    *)
LEMMA RemoveMoves ==
  ASSUME Base, NEW line, NEW next, NEW f \in Files, RemoveAt(line, f, next)
  PROVE  Moved
  BY DirNumbered DEF RemoveAt, SetDir, Moved

LEMMA RenameMoves ==
  ASSUME Base, NEW line, NEW next, NEW from \in Files, NEW to \in Files,
         RenameAt(line, from, to, next)
  PROVE  Moved
  BY DirNumbered DEF RenameAt, SetDir, Moved

LEMMA ChecksMoveNothing ==
  ASSUME Base, NEW line, NEW f, NEW valid, NEW invalid,
         CheckAt(line, f, valid, invalid)
  PROVE  Moved
  BY DEF CheckAt, files, Moved

(* ... and so all of it.                                                     *)
LEMMA RecoverMoves ==
  ASSUME Base, Recover
  PROVE  Moved
<1>1. "final" \in Files /\ "tmp" \in Files /\ "bak" \in Files
  BY DEF Files
<1>2. CASE RecoverLook
  BY <1>2 DEF RecoverLook, SeeAt, ChooseCase, files, Moved
<1>3. CASE RecoverBackupOnly \/ RecoverTempOnly
  BY <1>1, <1>3, RemoveMoves, RenameMoves, ChecksMoveNothing DEF RecoverBackupOnly, RecoverTempOnly
<1>4. CASE RecoverFinalAndBackup
  BY <1>1, <1>4, RemoveMoves, RenameMoves, ChecksMoveNothing DEF RecoverFinalAndBackup
<1>5. CASE RecoverFinalAndTemp
  BY <1>1, <1>5, RemoveMoves, RenameMoves, ChecksMoveNothing DEF RecoverFinalAndTemp
<1>6. CASE RecoverTempAndBackup
  BY <1>1, <1>6, RemoveMoves, RenameMoves, ChecksMoveNothing DEF RecoverTempAndBackup
<1> QED BY <1>2, <1>3, <1>4, <1>5, <1>6, <1>1 DEF Recover

(* A step of recover leads on in recover, to load or save, or to a           *)
(* rejection that changes no file.                                           *)
LEMMA RecoverLeads ==
  ASSUME Base, Recover
  PROVE  /\ pc \in RecoverLines
         /\ pc' \in RecoverLines \cup {"36", "50"} \/ (pc' = Rejected /\ UNCHANGED files)
<1>1. Recovered \in {"36", "50"}
  BY DEF Recovered
<1> USE <1>1 DEF RecoverLines
<1>2. CASE RecoverLook
  BY <1>2 DEF RecoverLook, SeeAt, ChooseCase, Case
<1>3. CASE RecoverBackupOnly \/ RecoverTempOnly
  BY <1>3 DEF RecoverBackupOnly, RecoverTempOnly, RenameAt, RemoveAt, CheckAt
<1>4. CASE RecoverFinalAndBackup
  BY <1>4 DEF RecoverFinalAndBackup, RenameAt, RemoveAt, CheckAt
<1>5. CASE RecoverFinalAndTemp
  BY <1>5 DEF RecoverFinalAndTemp, RenameAt, RemoveAt, CheckAt
<1>6. CASE RecoverTempAndBackup
  BY <1>6 DEF RecoverTempAndBackup, RenameAt, RemoveAt, CheckAt
<1> QED BY <1>2, <1>3, <1>4, <1>5, <1>6 DEF Recover

(* NotYetWhole is kept.                                                      *)
LEMMA NotYetWholeStep ==
  ASSUME Base, NotYetWhole, [Next]_vars
  PROVE  NotYetWhole'
<1> USE DEF NotYetWhole
<1>1. CASE Recover
  <2>1. UNCHANGED <<whole, op, attempts>> /\ pc \in RecoverLines
    BY <1>1, RecoverMoves, RecoverLeads DEF Moved, history
  <2> QED BY <2>1
<1>2. CASE Open \/ IOError \/ Crash \/ PowerFailure
  BY <1>2 DEF Open, IOError, Crash, PowerFailure, Rejected, RecoverLines
<1>3. CASE Load
  BY <1>3 DEF Load, LoadFindsNothing, LoadFindsFile, LoadDecodes, LoadCorrupt, Rejected, RecoverLines
<1>4. CASE StartSave
  BY <1>4 DEF StartSave, files, Base, Typed
<1>5. CASE Save
  <2>1. pc' \in {"55", "55 writing"} =>
          whole' = whole /\ op' = op /\ attempts' = attempts /\ pc \in {"50", "55"}
    BY <1>5 DEF Save, SaveEncode, SaveWriteBegins, SaveWriteEnds, SaveSyncFile, SaveLookForFinal,
       SaveBackUp, SaveRenameTemp, SaveLookForBackup, SavePutBack, SaveSyncDirectory, SaveReturns,
       RemoveAt, RenameAt, SetDir, files, history, Rejected
  <2>2. pc' \notin RecoverLines \cup {"50"}
    BY <1>5 DEF Save, SaveEncode, SaveWriteBegins, SaveWriteEnds, SaveSyncFile, SaveLookForFinal,
       SaveBackUp, SaveRenameTemp, SaveLookForBackup, SavePutBack, SaveSyncDirectory, SaveReturns,
       RemoveAt, RenameAt, Rejected, RecoverLines
  <2>3. pc' \in RecoverLines \cup {"50", "55", "55 writing"} => pc' \in {"55", "55 writing"}
    BY <2>2
  <2> SUFFICES ASSUME op' = "save", pc' \in RecoverLines \cup {"50", "55", "55 writing"}
               PROVE  attempts' \notin whole'
    BY DEF RecoverLines
  <2>4. pc' \in {"55", "55 writing"}
    BY <2>3
  <2>5. op = "save" /\ pc \in {"50", "55"}
    BY <2>1, <2>4
  <2>6. attempts \notin whole
    BY <2>5
  <2>7. whole' = whole /\ attempts' = attempts
    BY <2>1, <2>4
  <2> HIDE DEF NotYetWhole
  <2> QED BY <2>6, <2>7
<1>6. CASE UNCHANGED vars
  BY <1>6 DEF vars, files, history
<1> QED BY <1>1, <1>2, <1>3, <1>4, <1>5, <1>6 DEF Next, Step

(* A step of recover brings no version back and leaves at least one          *)
(* candidate.                                                                *)
LEMMA RecoverReadable ==
  ASSUME Careful, Recover, UNCHANGED bounds, bounds["read"] = 0
  PROVE  Candidates' \in (SUBSET Candidates) \ {{}}
<1>1. Readable' \subseteq Readable
  BY RecoverMoves DEF Moved, Careful, Base, Typed, Readable, Valid, NoFile
<1>2. faults'["read"] = 0 /\ faults'["power"] = faults["power"]
  <2>1. Next
    BY DEF Next, Step
  <2>2. faults'["read"] <= bounds'["read"] /\ faults'["read"] \in Nat
    BY <2>1, CarefulStep DEF Careful, WithinBounds, Base, Typed, FaultKinds
  <2>3. faults'["power"] = faults["power"]
    BY RecoverFaults DEF Careful, Base, Typed, Fault, FaultKinds
  <2> QED BY <2>2, <2>3
<1>3. SomethingReadable => SomethingReadable'
  BY <1>2, ReadableStep DEF Next, Step
<1>4. Readable # {} <=> SomethingReadable
  BY DEF Readable, SomethingReadable
<1>5. Readable' # {} <=> SomethingReadable'
  BY DEF Readable, SomethingReadable
<1>6. CASE Readable = {}
  BY <1>1, <1>6 DEF Candidates, NoFile
<1>7. CASE Readable # {}
  <2>1. Candidates' = Readable' /\ Candidates = Readable /\ Readable' # {}
    BY <1>3, <1>4, <1>5, <1>7 DEF Candidates
  <2> QED BY <1>1, <2>1
<1> QED BY <1>6, <1>7

(* Without a change of the files the candidates stay.                        *)
LEMMA SameReadable ==
  ASSUME UNCHANGED files
  PROVE  Candidates' = Candidates
  BY DEF files, Candidates, Readable, Valid, NoFile, Files

(* The inductive invariant of the refinement.                                *)
StoreInv == Careful /\ NotYetWhole

(* The two ways in which a step that changes no candidates shows in the      *)
(* store: not at all, or as the end of a save that is not answered.          *)
LEMMA StoreStutters ==
  ASSUME Candidates' = Candidates, Writing' <=> Writing, UNCHANGED history
  PROVE  UNCHANGED Store!store
  BY DEF Store!store, Candidates, Writing, history

LEMMA StoreAbandons ==
  ASSUME Candidates' = Candidates, Writing, ~Writing', UNCHANGED history
  PROVE  Store!Next
  BY DEF Store!Next, Store!Abandon, Candidates, Writing, history

(* A step of recover is a Decide of the store, or ends the operation with    *)
(* an error.                                                                 *)
LEMMA StoreRecover ==
  ASSUME StoreInv, Recover, UNCHANGED bounds, bounds["read"] = 0
  PROVE  Store!Next \/ UNCHANGED Store!store
<1>1. UNCHANGED history /\ op' = op /\ whole' = whole /\ pc \in RecoverLines
  BY RecoverMoves, RecoverLeads DEF StoreInv, Careful, Moved
<1>2. Writing <=> op = "save"
  BY <1>1 DEF Writing, StoreInv, NotYetWhole, RecoverLines
<1>3. CASE pc' \in RecoverLines \cup {"36", "50"}
  <2>1. Candidates' \in (SUBSET Candidates) \ {{}}
    BY RecoverReadable DEF StoreInv
  <2>2. Writing' <=> Writing
    BY <1>1, <1>3 DEF Writing, history, RecoverLines
  <2>3. Store!Decide
    BY <1>1, <2>1, <2>2 DEF Store!Decide, Candidates, Writing, history
  <2> QED BY <2>3 DEF Store!Next
<1>4. CASE pc' = Rejected /\ UNCHANGED files
  <2>1. Candidates' = Candidates /\ UNCHANGED history
    BY <1>1, <1>4, SameReadable
  <2>2. ~Writing'
    BY <1>4 DEF Writing, Rejected
  <2> QED BY <2>1, <2>2, StoreStutters, StoreAbandons
<1> QED BY <1>3, <1>4, RecoverLeads DEF StoreInv, Careful

(* A crash or an operation that throws ends a save, or does not show.        *)
LEMMA StoreStops ==
  ASSUME IOError \/ Crash
  PROVE  Store!Next \/ UNCHANGED Store!store
<1>1. Candidates' = Candidates /\ UNCHANGED history
  BY SameReadable DEF IOError, Crash
<1>2. Writing' => Writing
  BY DEF IOError, Crash, Writing, Rejected, history, files
<1> QED BY <1>1, <1>2, StoreStutters, StoreAbandons

(* The return of a load is Load of the store, and its other steps do not     *)
(* show.                                                                     *)
LEMMA StoreLoad ==
  ASSUME StoreInv, Open \/ Load
  PROVE  Store!Next \/ UNCHANGED Store!store
<1>1. UNCHANGED files /\ Candidates' = Candidates
  BY SameReadable DEF Open, Load, LoadFindsNothing, LoadFindsFile, LoadDecodes, LoadCorrupt
<1>2. ~Writing /\ ~Writing'
  BY DEF Writing, StoreInv, Careful, Base, OwnLines, LoadLines, Open, Load, LoadFindsNothing,
     LoadFindsFile, LoadDecodes, LoadCorrupt
<1>3. CASE Open \/ LoadFindsFile \/ LoadCorrupt
  <2>1. UNCHANGED history
    BY <1>3 DEF Open, LoadFindsFile, LoadCorrupt
  <2> QED BY <1>1, <1>2, <2>1, StoreStutters
<1>4. CASE LoadFindsNothing \/ LoadDecodes
  <2>1. dir \in [Files -> Nat] /\ NoFile \notin whole
    BY DirNumbered DEF StoreInv, Careful, Base, Typed, NoFile
  <2>2. dir["tmp"] = NoFile /\ dir["bak"] = NoFile
    BY <1>4 DEF StoreInv, Careful, Shape, RecoverShape, SaveShape, Holds, Exists,
       LoadFindsNothing, LoadDecodes
  <2>3. returned' = dir["final"] /\ UNCHANGED <<attempts, acked>>
    BY <1>4 DEF LoadFindsNothing, LoadDecodes, Exists
  <2>4. Candidates = {returned'}
    <3>1. CASE LoadFindsNothing
      <4>1. Readable = {}
        <5>1. dir["final"] = NoFile
          BY <3>1 DEF LoadFindsNothing, Exists
        <5>2. \A f \in Files : ~Valid(f)
          BY <2>1, <2>2, <5>1 DEF Valid, Files
        <5> QED BY <5>2 DEF Readable
      <4> QED BY <3>1, <4>1 DEF Candidates, LoadFindsNothing
    <3>2. CASE LoadDecodes
      <4>1. Readable = {dir["final"]}
        <5>1. Valid("final")
          BY <3>2 DEF LoadDecodes
        <5>2. {g \in Files : Valid(g)} = {"final"}
          BY <2>1, <2>2, <5>1 DEF Valid, Files
        <5> QED BY <5>2 DEF Readable
      <4> QED BY <2>3, <4>1 DEF Candidates
    <3> QED BY <1>4, <3>1, <3>2
  <2>5. Store!Load
    BY <1>1, <1>2, <2>3, <2>4 DEF Store!Load, Candidates, Writing
  <2> QED BY <2>5 DEF Store!Next
<1> QED BY <1>3, <1>4 DEF Load

(* The start of a save is BeginSave of the store.                            *)
LEMMA StoreBegins ==
  ASSUME StoreInv, StartSave
  PROVE  Store!Next
<1>1. Candidates' = Candidates
  BY SameReadable DEF StartSave
<1>2. Writing'
  BY DEF Writing, StartSave, files, StoreInv, Careful, Base, Typed
<1>3. Store!BeginSave
  BY <1>1, <1>2 DEF Store!BeginSave, Candidates, Writing, StartSave, NoFile
<1> QED BY <1>3 DEF Store!Next

(* Of the steps of save, the end of the write is Write of the store, its     *)
(* return is Acknowledge, and a snapshot that cannot be encoded is Abandon;  *)
(* the others do not show.                                                   *)
LEMMA StoreSave ==
  ASSUME StoreInv, Save
  PROVE  Store!Next \/ UNCHANGED Store!store
<1>1. /\ dir \in [Files -> Nat]
      /\ NoFile \notin whole
      /\ attempts \in Nat /\ attempts # NoFile
      /\ op = "save"
      /\ pc \in SaveLines
  <2>1. pc \in SaveLines
    BY DEF Save, SaveEncode, SaveWriteBegins, SaveWriteEnds, SaveSyncFile, SaveLookForFinal,
       SaveBackUp, SaveRenameTemp, SaveLookForBackup, SavePutBack, SaveSyncDirectory,
       SaveReturns, RemoveAt, RenameAt, SaveLines
  <2>2. op = "save" /\ attempts > 0
    BY <2>1 DEF StoreInv, Careful, Base, OwnLines
  <2> QED BY <2>1, <2>2, DirNumbered DEF StoreInv, Careful, Base, Typed, NoFile
<1>2. CASE SaveEncode
  <2>1. Candidates' = Candidates /\ UNCHANGED history
    BY <1>2, SameReadable DEF SaveEncode
  <2>2. Writing' => Writing
    BY <1>2 DEF SaveEncode, Writing, history, files
  <2> QED BY <2>1, <2>2, StoreStutters, StoreAbandons
<1>3. CASE SaveWriteBegins
  <2>1. attempts \notin whole /\ dir["tmp"] = NoFile
    BY <1>1, <1>3 DEF StoreInv, NotYetWhole, Careful, Shape, RecoverShape, Exists, SaveWriteBegins
  <2>2. \A f \in Files : Valid(f)' <=> Valid(f)
    BY <1>1, <1>3, <2>1 DEF SaveWriteBegins, SetDir, Valid
  <2>3. \A f \in Files : Valid(f) => dir'[f] = dir[f]
    BY <1>1, <1>3, <2>1 DEF SaveWriteBegins, SetDir, Valid
  <2>4. Readable' = Readable
    BY <2>2, <2>3 DEF Readable, Files
  <2>5. Writing /\ Writing' /\ UNCHANGED history
    BY <1>1, <1>3, <2>1 DEF SaveWriteBegins, SetDir, Writing, history
  <2> QED BY <2>4, <2>5, StoreStutters DEF Candidates, NoFile
<1>4. CASE SaveWriteEnds
  <2>1. attempts \notin whole /\ dir["tmp"] = attempts
    BY <1>1, <1>4 DEF StoreInv, NotYetWhole, Careful, Shape, SaveShape, SaveWriteEnds
  <2>2. Readable' = Readable \cup {attempts}
    <3>1. \A f \in Files : Valid(f)' <=> Valid(f) \/ dir[f] = attempts
      BY <1>4 DEF SaveWriteEnds, Valid
    <3>2. Readable' \subseteq Readable \cup {attempts}
      BY <1>4, <3>1 DEF Readable, SaveWriteEnds, Files
    <3>3. Readable \subseteq Readable'
      BY <1>4, <3>1 DEF Readable, SaveWriteEnds, Files
    <3>4. attempts \in Readable'
      BY <1>4, <2>1, <3>1 DEF Readable, SaveWriteEnds, Files
    <3> QED BY <3>2, <3>3, <3>4
  <2>3. Candidates' \in {{attempts}, Candidates \cup {attempts}}
    BY <2>2 DEF Candidates
  <2>4. Writing /\ ~Writing'
    BY <1>1, <1>4, <2>1 DEF SaveWriteEnds, Writing, history
  <2>5. Store!Write
    BY <1>4, <2>3, <2>4 DEF Store!Write, SaveWriteEnds, Candidates, Writing, history
  <2> QED BY <2>5 DEF Store!Next
<1>5. ASSUME pc \in WrittenLines, UNCHANGED <<op, whole, history>>, Readable' = Readable
      PROVE  UNCHANGED Store!store
  <2>1. attempts \in whole
    BY <1>5 DEF StoreInv, Careful, Written
  <2>2. ~Writing /\ ~Writing'
    BY <1>5, <2>1 DEF Writing, history
  <2> QED BY <1>5, <2>2, StoreStutters DEF Candidates, NoFile
<1>6. CASE SaveSyncFile \/ SaveLookForFinal \/ SaveLookForBackup \/ SaveSyncDirectory
  <2>1. Readable' = Readable
    BY <1>6 DEF SaveSyncFile, SaveLookForFinal, SaveLookForBackup, SaveSyncDirectory, files,
       Readable, Valid, Files
  <2> QED
    BY <1>5, <1>6, <2>1 DEF SaveSyncFile, SaveLookForFinal, SaveLookForBackup,
       SaveSyncDirectory, files, WrittenLines
<1>7. CASE RemoveAt("59", "bak", "60")
  <2>1. dir["bak"] = NoFile
    BY <1>7 DEF RemoveAt, StoreInv, Careful, Shape, SaveShape, Exists
  <2>2. dir' = dir /\ whole' = whole
    BY <1>1, <1>7, <2>1 DEF RemoveAt, SetDir
  <2>3. Readable' = Readable
    BY <2>2 DEF Readable, Valid, Files
  <2> QED BY <1>5, <1>7, <2>3 DEF RemoveAt, SetDir, WrittenLines
<1>9. CASE RenameAt("60", "final", "bak", "64") \/ SaveRenameTemp \/ SavePutBack
  <2>1. PICK from \in Files, to \in Files :
          /\ from # to
          /\ dir[to] = NoFile
          /\ dir' = [dir EXCEPT ![from] = NoFile, ![to] = dir[from]]
    BY <1>9 DEF SaveRenameTemp, SavePutBack, RenameAt, SetDir, StoreInv, Careful, Shape,
       SaveShape, Exists, Files
  <2>2. whole' = whole /\ UNCHANGED <<op, history>> /\ pc \in WrittenLines
    BY <1>9 DEF SaveRenameTemp, SavePutBack, RenameAt, SetDir, WrittenLines
  <2>3. \A x \in whole : (\E f \in Files : dir'[f] = x) <=> (\E f \in Files : dir[f] = x)
    <3> SUFFICES ASSUME NEW x \in whole
                 PROVE  (\E f \in Files : dir'[f] = x) <=> (\E f \in Files : dir[f] = x)
      OBVIOUS
    <3>1. x # NoFile
      BY <1>1
    <3>2. dir'[from] = NoFile /\ dir'[to] = dir[from]
      BY <1>1, <2>1
    <3>3. \A f \in Files : f # from /\ f # to => dir'[f] = dir[f]
      BY <1>1, <2>1
    <3> QED BY <2>1, <3>1, <3>2, <3>3
  <2>4. Readable' = {x \in whole' : \E f \in Files : dir'[f] = x}
    BY DEF Readable, Valid, Files
  <2>5. Readable = {x \in whole : \E f \in Files : dir[f] = x}
    BY DEF Readable, Valid
  <2>6. Readable' = Readable
    BY <2>2, <2>3, <2>4, <2>5 DEF Readable
  <2> QED BY <1>5, <2>2, <2>6
<1>8. CASE SaveReturns
  <2>1. attempts \in whole /\ dir["final"] = attempts /\ dir["tmp"] = NoFile
    BY <1>8 DEF StoreInv, Careful, Written, WrittenLines, Shape, SaveShape, Exists, SaveReturns
  <2>2. attempts \in Readable
    BY <2>1 DEF Readable, Valid, Files
  <2>3. Readable' = {attempts}
    <3>1. {g \in Files : Valid(g)}' = {"final"}
      BY <1>1, <1>8, <2>1 DEF SaveReturns, SetDir, Valid, Files, NoFile
    <3> QED BY <1>1, <1>8, <2>1, <3>1 DEF Readable, SaveReturns, SetDir, Files
  <2>4. attempts \in Candidates /\ Candidates' = {attempts}
    BY <2>2, <2>3 DEF Candidates
  <2>5. ~Writing /\ ~Writing'
    BY <1>8, <2>1 DEF SaveReturns, Writing
  <2>6. Store!Acknowledge
    BY <1>8, <2>4, <2>5 DEF Store!Acknowledge, SaveReturns, Candidates, Writing
  <2> QED BY <2>6 DEF Store!Next
<1> QED BY <1>2, <1>3, <1>4, <1>6, <1>7, <1>8, <1>9 DEF Save, SaveBackUp

(***************************************************************************)
(* With crashes and failed operations, for any number of saves and of each *)
(* fault, the three files implement the register of DurableStore: every    *)
(* file operation of recover, load and save is a step of the register or   *)
(* does not show.                                                          *)
(***************************************************************************)
THEOREM ImplementsDurableStore ==
  ASSUME StopsOnly
  PROVE  Spec => ImplementsStore
<1>1. Init => Store!Init
  <2> SUFFICES ASSUME Init
               PROVE  Store!Init
    OBVIOUS
  <2>1. Readable = {}
    BY DEF Init, StartWith, Readable, Valid
  <2> QED BY <2>1 DEF Init, StartWith, Store!Init, NoFile
<1>2. Init => StoreInv
  BY InitCareful DEF StoreInv, NotYetWhole, Init, StartWith
<1>3. StoreInv /\ [Next]_vars => StoreInv'
  BY CarefulStep, NotYetWholeStep DEF StoreInv, Careful
<1>4. StoreInv /\ [Next]_vars => [Store!Next]_Store!store
  <2> SUFFICES ASSUME StoreInv, [Next]_vars
               PROVE  Store!Next \/ UNCHANGED Store!store
    OBVIOUS
  <2>1. bounds["read"] = 0 /\ bounds["power"] = 0
    BY DEF StoreInv, Careful, Base, Typed, StopsOnly
  <2>2. ~PowerFailure
    BY <2>1 DEF PowerFailure, Fault, StoreInv, Careful, Base, Typed, FaultKinds
  <2>3. CASE Next
    BY <2>1, <2>2, <2>3, StoreRecover, StoreLoad, StoreSave, StoreBegins, StoreStops
    DEF Next, Step
  <2>4. CASE UNCHANGED vars
    BY <2>4 DEF vars, files, history, Store!store, Readable, Valid, NoFile, Files
  <2> QED BY <2>3, <2>4
<1> QED BY <1>1, <1>2, <1>3, <1>4, PTL DEF Spec, ImplementsStore, Store!Spec
=============================================================================
