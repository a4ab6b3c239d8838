------------------------------ MODULE MCScripts ------------------------------
(***************************************************************************)
(* Two callers and their scripts for TLC: transactions that one script     *)
(* opens and another ends, changes and saves between them, and scripts for *)
(* the atomic mode, with and without a control statement.                  *)
(***************************************************************************)
EXTENDS Scripts, TLC

Calls == {[statements |-> <<"begin", "mutation">>, stop |-> TRUE],
          [statements |-> <<"commit", "rollback">>, stop |-> FALSE],
          [statements |-> <<"mutation", "mutation">>, stop |-> FALSE],
          [statements |-> <<"query", "save">>, stop |-> TRUE]}

(* The callers are alike.                                                    *)
Symmetry == Permutations(Callers)
============================================================================
