----------------------------- MODULE MCAsyncRace -----------------------------
(***************************************************************************)
(* A program that never writes the file twice at a time: of its calls only *)
(* one awaits a save.  save() returns a promise, and insertRow and the     *)
(* other operations of the storage engine are synchronous, so a change may *)
(* well come before the promise is settled.                                *)
(***************************************************************************)
EXTENDS AsyncDatabase, FiniteSets

OneSave == Cardinality(Saving) <= 1

SpecOneSave == Init /\ [][Next /\ OneSave']_vars
==============================================================================
