----------------------------- MODULE MCDatabase -----------------------------
(***************************************************************************)
(* Small instances of Database for TLC.  One has two tables, of which one  *)
(* refers to the other, or one table that refers to itself; and one is the *)
(* programming interface, which can also drop a table and create one with  *)
(* other columns in its place.                                             *)
(***************************************************************************)
EXTENDS Database, TLC

CONSTANTS zero, minusZero, one,  \* INTEGER values
          text                   \* a TEXT value

Integers == {zero, minusZero, one}
TwoNumbers == [d \in {"INTEGER", "DECIMAL"} |->
                 IF d = "INTEGER" THEN Integers ELSE {zero, one}]
TwoTypes == [d \in {"INTEGER", "TEXT"} |->
               IF d = "INTEGER" THEN Integers ELSE {text}]

(* JSON.stringify(-0) is "0".                                                *)
JsonValues == [v \in Values |-> IF v = minusZero THEN zero ELSE v]

Column(type, nullable, unique, primaryKey, references) ==
  [type |-> type, nullable |-> nullable, unique |-> unique,
   primaryKey |-> primaryKey, references |-> references]

Key == Column("INTEGER", TRUE, FALSE, TRUE, NoReference)
Text == Column("TEXT", FALSE, TRUE, FALSE, NoReference)
ToParent(nullable) == Column("INTEGER", nullable, FALSE, FALSE,
                             [table |-> "parent", column |-> "id"])

KeyOnly == [c \in {"id"} |-> Key]
TextOnly == [c \in {"id"} |-> Text]
Child == [c \in {"ref"} |-> ToParent(TRUE)]
StrictChild == [c \in {"ref"} |-> ToParent(FALSE)]

(* As a parent it refers to itself.                                          *)
Tree == [c \in {"id", "ref"} |->
           [(IF c = "id" THEN Key ELSE ToParent(TRUE)) EXCEPT !.type = "DECIMAL"]]

ParentAndChild == {KeyOnly, StrictChild, Tree}
Recreated == {KeyOnly, TextOnly, Child}

(* Bounds of the SQL instance: beside a tree there is no other table, and    *)
(* nothing goes on from two tables that are both full.                       *)
TreeIsAlone ==
  (\E t \in DOMAIN tables : DOMAIN tables[t].schema = DOMAIN Tree)
    => DOMAIN tables = {"parent"}

RoomIsLeft ==
  DOMAIN tables = TableNames => \E t \in TableNames : Len(tables[t].rows) < MaxRows
============================================================================
