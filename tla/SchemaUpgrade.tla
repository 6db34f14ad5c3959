---------------------------- MODULE SchemaUpgrade ----------------------------
(***************************************************************************)
(* init_db of the todos database (src/src/utils/todos_db.py), which every  *)
(* program runs when it starts: the portal, the MCP server, the migration, *)
(* the rescoring and discovery.  Its first statements commit one by one,   *)
(* the rebuild of the table for the source 'SCAN' is a transaction of its  *)
(* own, decided before it begins, and everything from the UPDATE of        *)
(* autonomy_level on is one last transaction.  "parent" stands for the     *)
(* columns that the rebuild copies when it has seen them (parent_id,       *)
(* dependencies, related_projects), "autonomy" for autonomy_level and      *)
(* "context" for the other columns, which the rebuilt table does not have. *)
(***************************************************************************)
EXTENDS Naturals, Sequences

CONSTANTS Programs,
          MaxRows,    \* rows written by programs that are running
          MaxKills  \* programs killed inside init_db

VARIABLES table,    \* [there, scan, columns]
          records,  \* [written, kept] of each row: columns with a value
          program,  \* [at, copies] of each program
          rebuilds, \* history variable: tables rebuilt
          kills

schemaVars == <<table, records, program, rebuilds, kills>>

Columns == {"parent", "autonomy", "context"}
Inside  == {"check", "columns", "rebuild", "alter", "finish"}

\* No table, or the table of an earlier version, with or without parents.
SchemaInit ==
    /\ table \in [there : {FALSE}, scan : {FALSE}, columns : {{}}]
                 \cup [there : {TRUE}, scan : {FALSE}, columns : {{}, {"parent"}}]
    /\ records = IF table.there THEN <<[written |-> table.columns, kept |-> table.columns]>> ELSE <<>>
    /\ program = [p \in Programs |-> [at |-> "off", copies |-> {}]]
    /\ rebuilds = 0 /\ kills = 0

Goto(p, at) == program' = [program EXCEPT ![p].at = at]

-----------------------------------------------------------------------------
\* CREATE TABLE IF NOT EXISTS and the columns every table gets first.
Create(p) ==
    /\ program[p].at \in {"off", "failed"}
    /\ table' = IF table.there THEN table
                ELSE [there |-> TRUE, scan |-> TRUE, columns |-> {}]
    /\ Goto(p, "check") /\ UNCHANGED <<records, rebuilds, kills>>

\* Mutant: a table that already allows 'SCAN' is taken for up to date.
Check_SkipsRest(p) ==
    /\ program[p].at = "check"
    /\ Goto(p, IF table.scan THEN "ready" ELSE "columns")
    /\ UNCHANGED <<table, records, rebuilds, kills>>

\* _table_allows_scan_source, in no transaction.
Check(p) ==
    /\ program[p].at = "check"
    /\ Goto(p, IF table.scan THEN "alter" ELSE "columns")
    /\ UNCHANGED <<table, records, rebuilds, kills>>

\* _migrate_todos_for_scan_source looks at the columns before its BEGIN.
ReadColumns(p) ==
    /\ program[p].at = "columns"
    /\ program' = [program EXCEPT ![p] = [at |-> "rebuild", copies |-> table.columns \cap {"parent"}]]
    /\ UNCHANGED <<table, records, rebuilds, kills>>

\* Mutant: the rebuild as it was before it copied the optional columns.
Rebuild_ForgetsParent(p) ==
    /\ program[p].at = "rebuild"
    /\ table' = [there |-> TRUE, scan |-> TRUE, columns |-> {"parent"}]
    /\ records' = [i \in DOMAIN records |-> [records[i] EXCEPT !.kept = {}]]
    /\ rebuilds' = rebuilds + 1
    /\ Goto(p, "alter") /\ UNCHANGED kills

\* The transaction of _migrate_todos_for_scan_source.
Rebuild(p) ==
    /\ program[p].at = "rebuild"
    /\ table' = [there |-> TRUE, scan |-> TRUE, columns |-> {"parent"}]
    /\ records' = [i \in DOMAIN records |-> [records[i] EXCEPT !.kept = @ \cap program[p].copies]]
    /\ rebuilds' = rebuilds + 1
    /\ Goto(p, "alter") /\ UNCHANGED kills

AlterAutonomy(p) ==
    /\ program[p].at = "alter"
    /\ table' = [table EXCEPT !.columns = @ \cup {"autonomy"}]
    /\ Goto(p, "finish") /\ UNCHANGED <<records, rebuilds, kills>>

\* The backfill and the rest, one transaction; the UPDATE raises when the
\* table was rebuilt under it and has lost autonomy_level.
FinishSchema(p) ==
    /\ program[p].at = "finish"
    /\ \/ /\ "autonomy" \in table.columns
          /\ table' = [table EXCEPT !.columns = Columns] /\ Goto(p, "ready")
       \/ "autonomy" \notin table.columns /\ UNCHANGED table /\ Goto(p, "failed")
    /\ UNCHANGED <<records, rebuilds, kills>>

\* add_todo, create_children_batch, ...: a row with a value in every column.
WriteRow(p) ==
    /\ program[p].at = "ready" /\ table.columns = Columns /\ Len(records) < MaxRows
    /\ records' = Append(records, [written |-> Columns, kept |-> Columns])
    /\ UNCHANGED <<table, program, rebuilds, kills>>

KillProgram(p) ==
    /\ program[p].at \in Inside /\ kills < MaxKills
    /\ kills' = kills + 1
    /\ Goto(p, "off") /\ UNCHANGED <<table, records, rebuilds>>

SchemaNext == \E p \in Programs :
    \/ Create(p) \/ Check(p) \/ ReadColumns(p) \/ Rebuild(p)
    \/ AlterAutonomy(p) \/ FinishSchema(p) \/ WriteRow(p) \/ KillProgram(p)

SchemaSpec == SchemaInit /\ [][SchemaNext]_schemaVars

-----------------------------------------------------------------------------
\* A program that has come out of init_db finds every column, whatever other
\* programs upgrade or are killed in the middle; when two of them rebuilt the
\* table, only once all of them are out of init_db and none was killed.
SchemaComplete ==
    /\ \E p \in Programs : program[p].at = "ready"
    /\ rebuilds <= 1 \/ (kills = 0 /\ \A p \in Programs : program[p].at \notin Inside)
    => table.columns = Columns

\* A table that is rebuilt once keeps all that was ever written to it: what
\* the earlier version wrote is copied, although the columns are looked up
\* before the transaction, and no program can write the columns that the
\* rebuild drops before it (_migrate_todos_for_scan_source).
RebuiltOnceKeepsAll ==
    rebuilds <= 1 => \A i \in DOMAIN records : records[i].kept = records[i].written
=============================================================================
