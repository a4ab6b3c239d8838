---------------------------- MODULE MCWorkbench ----------------------------
(***************************************************************************)
(* Users for TLC: one of databases and transactions, one of the dialogs,   *)
(* one of scripts and settings, one of the example tabs and their changes, *)
(* one of new tabs, and one of the history.                                *)
(***************************************************************************)
EXTENDS Workbench

SqlTexts == {<<>>, <<"query">>, <<"change">>, <<"change", "error">>, <<"begin", "change">>}
Initial == <<"query">>
Examples == <<<<"change">>, <<"query">>, <<"query">>>>

DatabaseUser ==
  [does |-> {"example", "memory", "open", "runs", "edits", "databases"},
   texts |-> {<<"change">>}, tabs |-> 1, limit |-> 0]
DialogUser ==
  [does |-> {"example", "open", "runs", "databases", "dialog", "reset"},
   texts |-> {}, tabs |-> 1, limit |-> 0]
ScriptUser ==
  [does |-> {"open", "runs", "edits", "scripts", "settings"},
   texts |-> {<<"change", "error">>, <<"begin", "change">>}, tabs |-> 1, limit |-> 0]
TabUser ==
  [does |-> {"example", "tabs", "edits"}, texts |-> {}, tabs |-> 1, limit |-> 0]
NewTabUser ==
  [does |-> {"open", "tabs"}, texts |-> {}, tabs |-> 3, limit |-> 0]
HistoryUser ==
  [does |-> {"memory", "runs", "history"}, texts |-> {<<"query">>}, tabs |-> 2, limit |-> 2]

PaletteUsers == {[DialogUser EXCEPT !.does = @ \ {"reset"}]}

AllUsers == {DatabaseUser, DialogUser, ScriptUser, TabUser, NewTabUser, HistoryUser}
============================================================================
