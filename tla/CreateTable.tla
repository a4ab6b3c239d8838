---------------------------- MODULE CreateTable ----------------------------
(***************************************************************************)
(* The columns that CREATE TABLE makes of its columns and its constraints  *)
(* (src/execution/executor.ts), and what the storage makes of those        *)
(* (src/storage/column.ts and table.ts).  What they refer to is resolved   *)
(* among the tables that there are, which is Database's part.              *)
(***************************************************************************)
EXTENDS Ast

Named(columns, name) == {k \in DOMAIN columns : Folded(columns[k].name) = Folded(name)}
PrimaryKeys(columns) == {k \in DOMAIN columns : columns[k].primaryKey}

KeyColumn(column) ==
  [column EXCEPT !.primaryKey = TRUE, !.unique = TRUE, !.nullable = FALSE]
ReferringColumn(column, references) == [column EXCEPT !.references = Present(references)]

(* The columns so far, or that they were refused.                            *)
ApplyTableConstraint(r, constraint) ==
  LET named == Named(r.node, constraint.columnName)
      k == Min(named)
  IN  IF ~r.ok \/ named = {} THEN Wrong(r.at)
      ELSE IF constraint.type = "primary_key"
           THEN IF PrimaryKeys(r.node) # {} THEN Wrong(r.at)
                ELSE Parsed([r.node EXCEPT ![k] = KeyColumn(@)], r.at)
      ELSE IF r.node[k].references # Absent THEN Wrong(r.at)
      ELSE Parsed([r.node EXCEPT ![k] = ReferringColumn(@, constraint.references)], r.at)

BuildCreateTableColumns(statement) ==
  LET Built[i \in 0..Len(statement.constraints)] ==
        IF i = 0 THEN Parsed(statement.columns, 1)
        ELSE ApplyTableConstraint(Built[i - 1], statement.constraints[i])
  IN  Built[Len(statement.constraints)]

(* The storage refuses a name, and a primary key, that is there twice.       *)
Storable(columns) ==
  /\ \A k \in DOMAIN columns : Named(columns, columns[k].name) = {k}
  /\ \A k, l \in PrimaryKeys(columns) : k = l

StoredColumn(column) == IF column.primaryKey THEN KeyColumn(column) ELSE column
StoredColumns(columns) == [k \in DOMAIN columns |-> StoredColumn(columns[k])]

Created(built) ==
  IF ~built.ok THEN built
  ELSE IF ~Storable(built.node) THEN Wrong(built.at)
  ELSE Parsed(StoredColumns(built.node), built.at)

CreatedColumns(statement) == Created(BuildCreateTableColumns(statement))
============================================================================
