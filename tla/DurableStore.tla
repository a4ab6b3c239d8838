---------------------------- MODULE DurableStore ----------------------------
(***************************************************************************)
(* What PersistenceManager promises to the database that uses it, with no  *)
(* files: a register whose write may end undecided.  A save that returned  *)
(* is the content.  A save that threw or was cut off leaves its version    *)
(* and the ones before it as candidates; the next load decides for one of  *)
(* them, and the others never come back.  Versions are numbered by         *)
(* attempt; 0 is the database that was never saved.                        *)
(***************************************************************************)
EXTENDS Naturals

VARIABLES
  candidates,  \* the versions the next load may return
  writing,     \* a save runs, and its version is not a candidate yet
  newest,      \* the version of the latest attempt
  acked,       \* the version of the latest save that returned
  returned     \* the version the latest load returned

store == <<candidates, writing, newest, acked, returned>>

Init ==
  /\ candidates = {0}
  /\ writing = FALSE
  /\ newest = 0
  /\ acked = 0
  /\ returned = 0

BeginSave ==
  /\ writing' = TRUE
  /\ newest' = newest + 1
  /\ UNCHANGED <<candidates, acked, returned>>

(* The new version becomes readable, with or instead of the others.          *)
Write ==
  /\ writing
  /\ candidates' \in {{newest}, candidates \cup {newest}}
  /\ writing' = FALSE
  /\ UNCHANGED <<newest, acked, returned>>

Acknowledge ==
  /\ ~writing
  /\ newest \in candidates
  /\ candidates' = {newest}
  /\ acked' = newest
  /\ UNCHANGED <<writing, newest, returned>>

Abandon ==
  /\ writing
  /\ writing' = FALSE
  /\ UNCHANGED <<candidates, newest, acked, returned>>

(* A recovery, or the next save, drops some of the candidates, never all.    *)
Decide ==
  /\ candidates' \in (SUBSET candidates) \ {{}}
  /\ UNCHANGED <<writing, newest, acked, returned>>

Load ==
  /\ returned' \in candidates
  /\ candidates' = {returned'}
  /\ UNCHANGED <<writing, newest, acked>>

Next == BeginSave \/ Write \/ Acknowledge \/ Abandon \/ Decide \/ Load

Spec == Init /\ [][Next]_store
============================================================================
