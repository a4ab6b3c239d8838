--------------------------- MODULE MCPersistence ---------------------------
(***************************************************************************)
(* Instances of PersistenceManager for TLC: how many saves there are, and  *)
(* how many faults of each kind may happen.                                *)
(***************************************************************************)
EXTENDS PersistenceManager

Limits(saves, crash, power, io, read) ==
  [k \in FaultKinds \cup {"saves"} |->
     CASE k = "saves" -> saves
       [] k = "crash" -> crash
       [] k = "power" -> power
       [] k = "io"    -> io
       [] k = "read"  -> read]

CrashesAndErrors == {Limits(3, 2, 0, 2, 0)}
TwoReadsFail == {Limits(2, 1, 0, 1, 2)}

PowerFailures == Limits(3, 1, 2, 1, 0)
OneReadFails == Limits(3, 2, 0, 2, 1)
FoundFiles == Limits(4, 1, 0, 1, 0)

AllFaults == {PowerFailures, OneReadFails, FoundFiles}

(* Any directory with one set of limits, an empty one with the others.       *)
SpecFaults ==
  /\ \/ Init /\ bounds # FoundFiles
     \/ InitFound /\ bounds = FoundFiles
  /\ [][Next]_vars
============================================================================
