------------------------- MODULE PersistenceManager -------------------------
(***************************************************************************)
(* save, load and recover of src/persistence/persistence-manager.ts, one   *)
(* step per awaited file operation, over a directory that holds the        *)
(* database file, its .tmp and its .bak.  One process uses the directory   *)
(* and awaits each call: Database.open loads, then the database saves.     *)
(* The process may crash and the power may fail between any two steps, and *)
(* any file operation may throw.                                           *)
(*                                                                         *)
(* Each save writes a version of its own; what a version contains does not *)
(* matter.  Every label of pc that is a number is the line of              *)
(* persistence-manager.ts the process waits at.                            *)
(***************************************************************************)
EXTENDS Naturals

CONSTANT
  Bounds  \* each b of them: at most b.saves saves, and b[k] faults of kind k

(* "crash": the process dies; what it wrote stays in the file cache.         *)
(* "power": the machine dies; what was not synced may be lost.               *)
(* "io":    a file operation throws and changes nothing.                     *)
(* "read":  isValid cannot read the file, and so takes it to be invalid.     *)
FaultKinds == {"crash", "power", "io", "read"}

ASSUME PersistenceAssumption ==
  Bounds \subseteq [FaultKinds \cup {"saves"} -> Nat]

VARIABLES
  dir,       \* the version each of the three files holds
  whole,     \* the versions whose file is complete: those codec.decode accepts
  synced,    \* the versions whose contents are on the disk
  disk,      \* the directories a power failure may leave
  pc,        \* where the process is: a line, "idle", or "down" if not running
  op,        \* which of save and load the line belongs to
  seen,      \* finalExists, tempExists and backupExists of recover
  attempts,  \* the version the latest save attempts; it numbers the saves
  acked,     \* the version of the latest save that returned
  returned,  \* the version the latest load returned
  faults,    \* the faults of each kind so far
  bounds     \* the bounds of this behaviour

files == <<dir, whole, synced, disk>>
history == <<attempts, acked, returned>>
vars == <<files, pc, op, seen, history, faults, bounds>>

Files == {"final", "tmp", "bak"}
NoFile == 0   \* no file; and what load returns then (null)

Empty == [f \in Files |-> NoFile]

Exists(f) == dir[f] # NoFile
Valid(f) == dir[f] \in whole

RecoverLines ==
  {"93", "94", "95", "102", "107", "108", "110", "116", "117", "121", "122",
   "123", "131", "132", "134", "139", "140", "141", "143", "148", "149", "150",
   "151", "159", "160", "161", "165", "166", "167"}
CheckLines == {"107", "116", "121", "131", "139", "148", "159", "166"}
LoadLines == {"36", "40"}
SaveLines == {"50", "55", "55 writing", "56", "58", "59", "60", "64", "66",
              "67", "72", "73"}

Fault(kind) ==
  /\ faults[kind] < bounds[kind]
  /\ faults' = [faults EXCEPT ![kind] = @ + 1]

(* The call throws.  Database.open then gives no database; after a failed    *)
(* save the database goes on.                                                *)
Rejected == IF op = "load" THEN "down" ELSE "idle"

(* recover returns to the line after its await in load or save.              *)
Recovered == IF op = "load" THEN "36" ELSE "50"

----------------------------------------------------------------------------
(* File operations.  A rename replaces its target; a remove of a file that   *)
(* is not there does nothing (force).                                        *)

SetDir(d) == dir' = d /\ disk' = disk \cup {d} /\ UNCHANGED <<whole, synced>>

RemoveAt(line, f, next) ==
  /\ pc = line
  /\ SetDir([dir EXCEPT ![f] = NoFile])
  /\ pc' = next
  /\ UNCHANGED <<op, seen, history, faults>>

(* Variant: the old name stays.                                              *)
CopyAt(line, from, to, next) ==
  /\ pc = line
  /\ Exists(from)
  /\ SetDir([dir EXCEPT ![to] = dir[from]])
  /\ pc' = next
  /\ UNCHANGED <<op, seen, history, faults>>

RenameAt(line, from, to, next) ==
  /\ pc = line
  /\ Exists(from)
  /\ SetDir([dir EXCEPT ![from] = NoFile, ![to] = dir[from]])
  /\ pc' = next
  /\ UNCHANGED <<op, seen, history, faults>>

(* isValid: a file that cannot be read counts as invalid.                    *)
CheckAt(line, f, valid, invalid) ==
  /\ pc = line
  /\ \/ Valid(f) /\ pc' = valid /\ UNCHANGED faults
     \/ ~Valid(f) /\ pc' = invalid /\ UNCHANGED faults
     \/ Fault("read") /\ pc' = invalid
  /\ UNCHANGED <<files, op, seen, history>>

SeeAt(line, f, next) ==
  /\ pc = line
  /\ seen' = [seen EXCEPT ![f] = Exists(f)]
  /\ pc' = next
  /\ UNCHANGED <<files, op, history, faults>>

----------------------------------------------------------------------------
(* recover.                                                                  *)

(* Variant: a final file is never checked against its backup.                *)
CaseTrustsFinal(final, tmp, bak) ==
  IF final /\ tmp       THEN "131"
  ELSE IF final /\ bak  THEN "117"
  ELSE IF tmp /\ bak    THEN "159"
  ELSE IF tmp           THEN "107"
  ELSE IF bak           THEN "102"
  ELSE Recovered

(* The third exists, and the choice among the cases.                         *)
Case(final, tmp, bak) ==
  IF final /\ tmp       THEN "131"
  ELSE IF final /\ bak  THEN "116"
  ELSE IF tmp /\ bak    THEN "159"
  ELSE IF tmp           THEN "107"
  ELSE IF bak           THEN "102"
  ELSE Recovered

ChooseCase ==
  /\ pc = "95"
  /\ seen' = [seen EXCEPT !["bak"] = Exists("bak")]
  /\ pc' = Case(seen["final"], seen["tmp"], Exists("bak"))
  /\ UNCHANGED <<files, op, history, faults>>

RecoverLook == SeeAt("93", "final", "94") \/ SeeAt("94", "tmp", "95") \/ ChooseCase

RecoverBackupOnly == RenameAt("102", "bak", "final", Recovered)

(* Variant: a lone invalid temporary file is an error.                       *)
RecoverTempOnlyOrThrow ==
  \/ CheckAt("107", "tmp", "108", Rejected)
  \/ RenameAt("108", "tmp", "final", Recovered)

RecoverTempOnly ==
  \/ CheckAt("107", "tmp", "108", "110")
  \/ RenameAt("108", "tmp", "final", Recovered)
  \/ RemoveAt("110", "tmp", Recovered)

(* Variant: the backup stays beside a valid final file.                      *)
RecoverFinalKeepsBackup ==
  \/ CheckAt("116", "final", Recovered, "121")
  \/ CheckAt("121", "bak", "122", Rejected)
  \/ RemoveAt("122", "final", "123")
  \/ RenameAt("123", "bak", "final", Recovered)

RecoverFinalAndBackup ==
  \/ CheckAt("116", "final", "117", "121")
  \/ RemoveAt("117", "bak", Recovered)
  \/ CheckAt("121", "bak", "122", Rejected)
  \/ RemoveAt("122", "final", "123")
  \/ RenameAt("123", "bak", "final", Recovered)

(* Variant: the temporary file stays beside a valid final file.              *)
RecoverFinalKeepsTemp ==
  LET thenBackup(line) == IF seen["bak"] THEN line ELSE Recovered
  IN  \/ CheckAt("131", "final", thenBackup("134"), "139")
      \/ RemoveAt("134", "bak", Recovered)
      \/ CheckAt("139", "tmp", "140", IF seen["bak"] THEN "148" ELSE Rejected)
      \/ RemoveAt("140", "final", "141")
      \/ RenameAt("141", "tmp", "final", thenBackup("143"))
      \/ RemoveAt("143", "bak", Recovered)
      \/ CheckAt("148", "bak", "149", Rejected)
      \/ RemoveAt("149", "final", "150")
      \/ RemoveAt("150", "tmp", "151")
      \/ RenameAt("151", "bak", "final", Recovered)

RecoverFinalAndTemp ==
  LET thenBackup(line) == IF seen["bak"] THEN line ELSE Recovered
  IN  \/ CheckAt("131", "final", "132", "139")
      \/ RemoveAt("132", "tmp", thenBackup("134"))
      \/ RemoveAt("134", "bak", Recovered)
      \/ CheckAt("139", "tmp", "140", IF seen["bak"] THEN "148" ELSE Rejected)
      \/ RemoveAt("140", "final", "141")
      \/ RenameAt("141", "tmp", "final", thenBackup("143"))
      \/ RemoveAt("143", "bak", Recovered)
      \/ CheckAt("148", "bak", "149", Rejected)
      \/ RemoveAt("149", "final", "150")
      \/ RemoveAt("150", "tmp", "151")
      \/ RenameAt("151", "bak", "final", Recovered)

RecoverTempAndBackup ==
  \/ CheckAt("159", "tmp", "160", "165")
  \/ RenameAt("160", "tmp", "final", "161")
  \/ RemoveAt("161", "bak", Recovered)
  \/ RemoveAt("165", "tmp", "166")
  \/ CheckAt("166", "bak", "167", Rejected)
  \/ RenameAt("167", "bak", "final", Recovered)

Recover ==
  \/ RecoverLook
  \/ RecoverBackupOnly
  \/ RecoverTempOnly
  \/ RecoverFinalAndBackup
  \/ RecoverFinalAndTemp
  \/ RecoverTempAndBackup

----------------------------------------------------------------------------
(* load, called by Database.open.                                            *)

Open ==
  /\ pc = "down"
  /\ pc' = "93"
  /\ op' = "load"
  /\ UNCHANGED <<files, seen, history, faults>>

LoadFindsNothing ==
  /\ pc = "36"
  /\ ~Exists("final")
  /\ returned' = NoFile
  /\ pc' = "idle"
  /\ UNCHANGED <<files, op, seen, attempts, acked, faults>>

LoadFindsFile ==
  /\ pc = "36"
  /\ Exists("final")
  /\ pc' = "40"
  /\ UNCHANGED <<files, op, seen, history, faults>>

LoadDecodes ==
  /\ pc = "40"
  /\ Valid("final")
  /\ returned' = dir["final"]
  /\ pc' = "idle"
  /\ UNCHANGED <<files, op, seen, attempts, acked, faults>>

LoadCorrupt ==
  /\ pc = "40"
  /\ ~Valid("final")
  /\ pc' = Rejected
  /\ UNCHANGED <<files, op, seen, history, faults>>

Load == LoadFindsNothing \/ LoadFindsFile \/ LoadDecodes \/ LoadCorrupt

----------------------------------------------------------------------------
(* save.                                                                     *)

StartSave ==
  /\ pc = "idle"
  /\ attempts < bounds.saves
  /\ attempts' = attempts + 1
  /\ pc' = "93"
  /\ op' = "save"
  /\ UNCHANGED <<files, seen, acked, returned, faults>>

(* encode refuses a snapshot that is not a valid database.                   *)
SaveEncode ==
  /\ pc = "50"
  /\ pc' \in {"55", "idle"}
  /\ UNCHANGED <<files, op, seen, history, faults>>

(* writeText empties the file, or creates it, before it fills it.            *)
SaveWriteBegins ==
  /\ pc = "55"
  /\ SetDir([dir EXCEPT !["tmp"] = attempts])
  /\ pc' = "55 writing"
  /\ UNCHANGED <<op, seen, history, faults>>

SaveWriteEnds ==
  /\ pc = "55 writing"
  /\ whole' = whole \cup {attempts}
  /\ pc' = "56"
  /\ UNCHANGED <<dir, synced, disk, op, seen, history, faults>>

(* Variant: an adapter without syncFile.                                     *)
SaveSkipsSyncFile ==
  /\ pc = "56"
  /\ pc' = "58"
  /\ UNCHANGED <<files, op, seen, history, faults>>

SaveSyncFile ==
  /\ pc = "56"
  /\ synced' = synced \cup {dir["tmp"]}
  /\ pc' = "58"
  /\ UNCHANGED <<dir, whole, disk, op, seen, history, faults>>

SaveLookForFinal ==
  /\ pc = "58"
  /\ pc' = IF Exists("final") THEN "59" ELSE "64"
  /\ UNCHANGED <<files, op, seen, history, faults>>

SaveBackUp == RemoveAt("59", "bak", "60") \/ RenameAt("60", "final", "bak", "64")

SaveRenameTemp == RenameAt("64", "tmp", "final", "72")

(* The rename of .tmp failed: put the backup back if there is one, throw.    *)
SaveLookForBackup ==
  /\ pc = "66"
  /\ pc' = IF Exists("bak") THEN "67" ELSE Rejected
  /\ UNCHANGED <<files, op, seen, history, faults>>

SavePutBack == RenameAt("67", "bak", "final", Rejected)

(* Variant: an adapter without syncDirectory.                                *)
SaveSkipsSyncDirectory ==
  /\ pc = "72"
  /\ pc' = "73"
  /\ UNCHANGED <<files, op, seen, history, faults>>

SaveSyncDirectory ==
  /\ pc = "72"
  /\ disk' = {dir}
  /\ pc' = "73"
  /\ UNCHANGED <<dir, whole, synced, op, seen, history, faults>>

SaveReturns ==
  /\ pc = "73"
  /\ SetDir([dir EXCEPT !["bak"] = NoFile])
  /\ acked' = attempts
  /\ pc' = "idle"
  /\ UNCHANGED <<op, seen, attempts, returned, faults>>

Save ==
  \/ SaveEncode
  \/ SaveWriteBegins
  \/ SaveWriteEnds
  \/ SaveSyncFile
  \/ SaveLookForFinal
  \/ SaveBackUp
  \/ SaveRenameTemp
  \/ SaveLookForBackup
  \/ SavePutBack
  \/ SaveSyncDirectory
  \/ SaveReturns

----------------------------------------------------------------------------
(* Faults.                                                                   *)

(* A file operation throws.  A write that has begun leaves a partial file;   *)
(* the rename of .tmp has a handler of its own, and isValid catches whatever *)
(* its read throws.                                                          *)
IOError ==
  /\ pc \in (RecoverLines \ CheckLines) \cup LoadLines \cup SaveLines
  /\ pc # "50"
  /\ Fault("io")
  /\ pc' = IF pc = "64" THEN "66" ELSE Rejected
  /\ UNCHANGED <<files, op, seen, history>>

Crash ==
  /\ pc # "down"
  /\ Fault("crash")
  /\ pc' = "down"
  /\ UNCHANGED <<files, op, seen, history>>

(* Changes of the directory reach the disk in their order, so the disk holds *)
(* a directory there was since the last sync of it; contents that were not   *)
(* synced may be lost.  What is there after the restart stays.               *)
PowerFailure ==
  /\ Fault("power")
  /\ dir' \in disk
  /\ \E lost \in SUBSET (whole \ synced) :
       /\ whole' = whole \ lost
       /\ synced' = synced \cup whole'
  /\ disk' = {dir'}
  /\ pc' = "down"
  /\ UNCHANGED <<op, seen, history>>

----------------------------------------------------------------------------
Step == (Open \/ Recover \/ Load \/ Save) /\ UNCHANGED bounds

Next ==
  \/ Step
  \/ (StartSave \/ IOError \/ Crash \/ PowerFailure) /\ UNCHANGED bounds

StartWith(d, complete, versions) ==
  /\ dir = d
  /\ whole = complete
  /\ synced = complete
  /\ disk = {d}
  /\ pc = "down"
  /\ op = "load"
  /\ seen = [f \in Files |-> FALSE]
  /\ attempts = versions
  /\ acked = NoFile
  /\ returned = NoFile
  /\ faults = [k \in FaultKinds |-> 0]
  /\ bounds \in Bounds

(* A path where nothing was ever saved.                                      *)
Init == StartWith(Empty, {}, 0)

Spec == Init /\ [][Next]_vars

(* A directory with any of the three files, each complete or not, as a       *)
(* caller may find it who did not write it: the recovery is written for      *)
(* every combination.                                                        *)
FoundVersion == [f \in Files |-> CASE f = "bak" -> 1 [] f = "final" -> 2 [] f = "tmp" -> 3]

InitFound ==
  \E present \in SUBSET Files : \E complete \in SUBSET present :
    StartWith([f \in Files |-> IF f \in present THEN FoundVersion[f] ELSE NoFile],
              {FoundVersion[f] : f \in complete}, 3)

(* A file operation that was started is eventually answered, and a database  *)
(* that could not be opened, or went down, is opened again.                  *)
FairSpec == Spec /\ WF_vars(Step)

----------------------------------------------------------------------------
(* Properties.                                                             *)

(* Every variable has its type; the three files never share a version.       *)
TypeOK ==
  /\ dir \in [Files -> Nat]
  /\ whole \subseteq Nat \ {NoFile}
  /\ synced \subseteq Nat \ {NoFile}
  /\ disk \subseteq [Files -> Nat]
  /\ dir \in disk
  /\ pc \in RecoverLines \cup LoadLines \cup SaveLines \cup {"idle", "down"}
  /\ op \in {"load", "save"}
  /\ seen \in [Files -> BOOLEAN]
  /\ attempts \in Nat
  /\ acked \in Nat
  /\ returned \in Nat
  /\ faults \in [FaultKinds -> Nat]
  /\ bounds \in Bounds
  /\ \A f \in Files : dir[f] <= attempts
  /\ \A f, g \in Files : dir[f] = dir[g] /\ Exists(f) => f = g

(* At every moment, also in the middle of a save or of a recovery, the       *)
(* directory has a readable version at least as new as the last save that    *)
(* was acknowledged (persistence-manager.ts keeps the old file as .bak until *)
(* the new one is in place).                                                 *)
AckedSurvives == acked # NoFile => \E f \in Files : Valid(f) /\ dir[f] >= acked

(* A load that returns gives the last acknowledged save or a later attempt,  *)
(* and never null once a save was acknowledged.                              *)
LoadIsRecent == [][pc' = "idle" /\ pc \in LoadLines => returned' >= acked]_vars

(* Unless the power fails, a version that was loaded once is not exchanged   *)
(* for an older one by a later crash and recovery.                           *)
LoadsNeverGoBack ==
  [][faults["power"] = 0 => returned' >= returned]_vars

(* A save or a recovery that can read the files never destroys the last      *)
(* readable one.                                                             *)
SomethingReadable == \E f \in Files : Valid(f)

LastReadableKept ==
  [][/\ SomethingReadable
     /\ faults'["read"] = 0
     /\ faults'["power"] = faults["power"]
     => SomethingReadable']_vars

(* After a crash anywhere, and as long as faults do not go on for ever, the  *)
(* database can be opened again: recovery cannot get stuck on files that     *)
(* earlier saves and recoveries left (PERSISTENCE_RECOVERY_FAILED).          *)
Reopens == pc = "down" ~> pc = "idle"

(* The files implement the register of DurableStore: save and load keep its  *)
(* promise across crashes and failed file operations, although both take     *)
(* many steps and either may stop after any of them.  In particular a load   *)
(* leaves one candidate: what it did not return is gone, and no later        *)
(* recovery brings it back.                                                  *)
Readable == {dir[f] : f \in {g \in Files : Valid(g)}}

Store == INSTANCE DurableStore WITH
  candidates <- IF Readable = {} THEN {NoFile} ELSE Readable,
  writing    <- op = "save" /\ pc \notin {"idle", "down"} /\ attempts \notin whole,
  newest     <- attempts

ImplementsStore == Store!Spec
============================================================================
