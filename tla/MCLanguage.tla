----------------------------- MODULE MCLanguage -----------------------------
(***************************************************************************)
(* Keyboards for TLC.                                                      *)
(***************************************************************************)
EXTENDS Language

(* Every character the lexer and the editor tell apart.                      *)
Characters ==
  [before |-> <<>>, after |-> <<>>, limit |-> 5, careful |-> FALSE, unordered |-> FALSE,
   chunks |-> {<<"COMMIT">>, <<" ">>, <<";">>, <<"'">>, <<"a">>, <<"1">>, <<"\f">>}]

(* Scripts of statements with strings in them.                               *)
Statements ==
  [before |-> <<>>, after |-> <<>>, limit |-> 6, careful |-> TRUE, unordered |-> FALSE,
   chunks |-> {<<"commit">>, <<" ">>, <<";">>, <<"'">>, <<")">>,
               <<"INSERT", " ", "INTO", " ", "t", " ", "VALUES", " ", "(", "'">>}]

Conditions ==
  [before |-> <<"DELETE", " ", "FROM", " ", "t", " ", "WHERE", " ">>, after |-> <<>>,
   limit |-> 5, careful |-> TRUE, unordered |-> FALSE,
   chunks |-> {<<"a">>, <<"(">>, <<")">>, <<"-">>, <<" ", "*", " ", "1", ".", "0">>,
               <<"-", "(">>, <<"=", "1">>, <<"0", "0">>, <<" ", "IS", " ", "NULL">>,
               <<" ", "AND", " ", "a">>, <<" ", "OR", " ", "a">>}]

Logic ==
  [before |-> <<"DELETE", " ", "FROM", " ", "t", " ", "WHERE", " ">>, after |-> <<>>,
   limit |-> 5, careful |-> TRUE, unordered |-> FALSE,
   chunks |-> {<<"a">>, <<"b", "<", "1">>, <<"b", "!", "=", "2", "%", "0">>,
               <<" ", "AND", " ">>, <<" ", "OR", " ">>,
               <<" ", "IS", " ", "NOT", " ", "NULL">>}]

Constraints ==
  [before |-> <<"CREATE", " ", "TABLE", " ", "t", " ", "(", "a", " ", "INTEGER">>,
   after |-> <<")">>, limit |-> 4, careful |-> FALSE, unordered |-> TRUE,
   chunks |-> {<<" ", "PRIMARY", " ", "KEY">>, <<" ", "UNIQUE">>, <<" ", "NULL">>,
               <<" ", "NOT", " ", "NULL">>,
               <<" ", "REFERENCES", " ", "t", "(", "b", ")">>}]

(* Columns and constraints of a table, of which some name one column.        *)
TableElements ==
  [before |-> <<"CREATE", " ", "TABLE", " ", "t", " ", "(", "b", " ", "INTEGER">>,
   after |-> <<")">>, limit |-> 4, careful |-> FALSE, unordered |-> TRUE,
   chunks |-> {<<",", "a", " ", "INTEGER">>, <<",", "A", " ", "TEXT", " ", "NULL">>,
               <<",", "PRIMARY", " ", "KEY", "(", "A", ")">>,
               <<",", "PRIMARY", " ", "KEY", "(", "b", ")">>,
               <<",", "FOREIGN", " ", "KEY", "(", "a", ")", "REFERENCES", " ", "t", "(", "b", ")">>}]

Clauses ==
  [before |-> <<"SELECT", " ">>, after |-> <<>>, limit |-> 5, careful |-> TRUE,
   unordered |-> FALSE,
   chunks |-> {<<"*">>, <<"a">>, <<",">>, <<" ", "AS", " ", "b">>, <<"COUNT", "(", "*", ")">>,
               <<" ", "FROM", " ", "t">>,
               <<" ", "LEFT", " ", "JOIN", " ", "t", " ", "b", " ", "ON", " ", "a", "=", "b", ".", "a">>,
               <<" ", "WHERE", " ", "a">>, <<" ", "GROUP", " ", "BY", " ", "a">>,
               <<" ", "ORDER", " ", "BY", " ", "1">>, <<" ", "DESC">>,
               <<" ", "NULLS", " ", "FIRST">>, <<" ", "LIMIT", " ", "1">>, <<";">>}]

AllKeyboards == {Characters, Statements, Conditions, Logic, Constraints, TableElements, Clauses}

(* The columns a and b of a row.                                             *)
AllRows ==
  {(Column(Unqualified, <<"a">>) :> a) @@ (Column(Unqualified, <<"b">>) :> b) :
     a \in {Null, Boolean(TRUE), Boolean(FALSE), Number(1)},
     b \in {Null, Number(0), Number(2), String(<<"a">>)}}
============================================================================
