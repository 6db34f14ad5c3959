---------------------------- MODULE SchemaProofs ----------------------------
(***************************************************************************)
(* What init_db leaves behind for any number of programs, rows and kills.  *)
(***************************************************************************)
EXTENDS SchemaUpgrade, TLAPS

Record == [written : SUBSET Columns, kept : SUBSET Columns]

Typed ==
    /\ table \in [there : BOOLEAN, scan : BOOLEAN, columns : SUBSET Columns]
    /\ records \in Seq(Record)
    /\ program \in [Programs -> [at : Inside \cup {"off", "failed", "ready"},
                                 copies : SUBSET Columns]]
    /\ rebuilds \in Nat /\ kills \in Nat

AtIn(p, places) == program[p].at \in places

\* Before the first rebuild: nobody has got past it, what is to be copied is
\* known, and the rows have values in no other column.
BeforeRebuild ==
    /\ ~table.there => ~table.scan /\ records = <<>> /\ \A p \in Programs : AtIn(p, {"off"})
    /\ ~table.scan =>
          /\ rebuilds = 0 /\ table.columns \subseteq {"parent"}
          /\ \A p \in Programs : AtIn(p, {"off", "check", "columns", "rebuild"})
          /\ \A p \in Programs : AtIn(p, {"rebuild"}) => table.columns \subseteq program[p].copies
          /\ \A i \in DOMAIN records : records[i].written \subseteq table.columns
    /\ table.scan /\ rebuilds = 0 => \A p \in Programs : ~AtIn(p, {"columns", "rebuild"})

\* Columns are lost only to a second rebuild.
OneRebuild ==
    rebuilds <= 1 => ((\E p \in Programs : AtIn(p, {"ready"})) => table.columns = Columns)

\* As long as nobody is killed, a program is on its way that will add the
\* columns that are missing.
SomebodyCompletes ==
    kills = 0 /\ table.scan /\ table.columns # Columns =>
        \E p \in Programs : \/ AtIn(p, {"check", "alter"})
                            \/ AtIn(p, {"finish"}) /\ "autonomy" \in table.columns

Inv == Typed /\ BeforeRebuild /\ RebuiltOnceKeepsAll /\ OneRebuild /\ SomebodyCompletes

\* Nobody runs, and the table is absent or of an earlier version.
LEMMA InitInv == SchemaInit => Inv
<1> SUFFICES ASSUME SchemaInit PROVE Inv
  OBVIOUS
<1>1. /\ table \in [there : BOOLEAN, scan : BOOLEAN, columns : SUBSET Columns]
      /\ ~table.scan /\ table.columns \subseteq {"parent"}
  BY DEF SchemaInit, Columns
<1>2. \A p \in Programs : program[p] = [at |-> "off", copies |-> {}]
  BY DEF SchemaInit
<1>3. program \in [Programs -> [at : Inside \cup {"off", "failed", "ready"}, copies : SUBSET Columns]]
  BY DEF SchemaInit
<1>4. /\ records \in Seq(Record)
      /\ \A i \in DOMAIN records : /\ records[i].kept = records[i].written
                                   /\ records[i].written \subseteq table.columns
  <2>1. CASE table.there
    <3> DEFINE first == [written |-> table.columns, kept |-> table.columns]
    <3>1. first \in Record /\ first.kept = first.written /\ first.written = table.columns
      BY <1>1 DEF Record
    <3>2. records = <<first>>
      BY <2>1 DEF SchemaInit
    <3> HIDE DEF first
    <3> QED BY <3>1, <3>2
  <2>2. CASE ~table.there
    <3>1. records = <<>>
      BY <2>2 DEF SchemaInit
    <3> QED BY <3>1
  <2> QED BY <2>1, <2>2
<1>5. rebuilds = 0 /\ kills = 0 /\ (~table.there => records = <<>>)
  BY DEF SchemaInit
<1> QED
  BY <1>1, <1>2, <1>3, <1>4, <1>5
  DEF Inv, Typed, BeforeRebuild, RebuiltOnceKeepsAll, OneRebuild, SomebodyCompletes, AtIn

\* A program counter that moves, and nothing else of the programs.
LEMMA Moves ==
    ASSUME Typed, NEW p \in Programs, NEW at \in Inside \cup {"off", "failed", "ready"}, Goto(p, at)
    PROVE  /\ program' \in [Programs -> [at : Inside \cup {"off", "failed", "ready"},
                                         copies : SUBSET Columns]]
           /\ program'[p].at = at /\ program'[p].copies = program[p].copies
           /\ \A q \in Programs : q # p => program'[q] = program[q]
  BY DEF Typed, Goto

\* The rows after a rebuild by p: what p copies of each of them.
LEMMA RowsRebuilt ==
    ASSUME Typed, NEW p \in Programs, Rebuild(p)
    PROVE  /\ records' \in Seq(Record) /\ DOMAIN records' = DOMAIN records
           /\ \A i \in DOMAIN records :
                /\ records'[i].written = records[i].written
                /\ records'[i].kept = records[i].kept \cap program[p].copies
<1> DEFINE row(i) == [records[i] EXCEPT !.kept = @ \cap program[p].copies]
<1>1. records' = [i \in DOMAIN records |-> row(i)]
  BY DEF Rebuild
<1>2. /\ Len(records) \in Nat /\ DOMAIN records = 1..Len(records)
      /\ \A i \in DOMAIN records : records[i] \in Record
  BY DEF Typed
<1>3. \A i \in DOMAIN records : /\ row(i) \in Record
                                /\ row(i).written = records[i].written
                                /\ row(i).kept = records[i].kept \cap program[p].copies
  BY <1>2 DEF Record
<1> HIDE DEF row
<1> QED BY <1>1, <1>2, <1>3

\* A row that is appended is the only new one.
LEMMA RowAppended ==
    ASSUME Typed, NEW p \in Programs, WriteRow(p)
    PROVE  /\ records' \in Seq(Record)
           /\ (\A i \in DOMAIN records : records[i].kept = records[i].written)
              => \A i \in DOMAIN records' : records'[i].kept = records'[i].written
<1> DEFINE new == [written |-> Columns, kept |-> Columns]
<1>1. new \in Record /\ new.kept = new.written
  BY DEF Record
<1>2. records' = Append(records, new)
  BY DEF WriteRow
<1> HIDE DEF new
<1> QED BY <1>1, <1>2 DEF Typed

\* One step of init_db, of a running program, or a kill.
LEMMA NextInv == Inv /\ [SchemaNext]_schemaVars => Inv'
<1> SUFFICES ASSUME Inv, [SchemaNext]_schemaVars PROVE Inv'
  OBVIOUS
<1> USE DEF Inv
<1>1. ASSUME NEW p \in Programs, Create(p) PROVE Inv'
  <2>1. Goto(p, "check") /\ UNCHANGED <<records, rebuilds, kills>>
    BY <1>1 DEF Create
  <2>2. /\ program' \in [Programs -> [at : Inside \cup {"off", "failed", "ready"}, copies : SUBSET Columns]]
        /\ program'[p].at = "check" /\ program'[p].copies = program[p].copies
        /\ \A q \in Programs : q # p => program'[q] = program[q]
    BY <2>1, Moves DEF Inside
  <2>3. /\ table.there => table' = table
        /\ ~table.there => table' = [there |-> TRUE, scan |-> TRUE, columns |-> {}]
    BY <1>1 DEF Create
  <2>4. CASE table.there
    BY <2>1, <2>2, <2>3, <2>4
    DEF Typed, BeforeRebuild, RebuiltOnceKeepsAll, OneRebuild, SomebodyCompletes, AtIn
  <2>5. CASE ~table.there
    <3>1. /\ table' \in [there : BOOLEAN, scan : BOOLEAN, columns : SUBSET Columns]
          /\ table'.there /\ table'.scan /\ table'.columns = {}
      <4> DEFINE none == {}
      <4>1. table' = [there |-> TRUE, scan |-> TRUE, columns |-> none] /\ none \in SUBSET Columns
        BY <2>3, <2>5
      <4>2. none = {}
        OBVIOUS
      <4> HIDE DEF none
      <4> QED BY <4>1, <4>2
    <3> QED
      BY <2>1, <2>2, <3>1, <2>5
      DEF Typed, BeforeRebuild, RebuiltOnceKeepsAll, OneRebuild, SomebodyCompletes, AtIn
  <2> QED BY <2>4, <2>5
<1>2. ASSUME NEW p \in Programs, Check(p) PROVE Inv'
  <2> DEFINE to == IF table.scan THEN "alter" ELSE "columns"
  <2>1. Goto(p, to) /\ program[p].at = "check" /\ UNCHANGED <<table, records, rebuilds, kills>>
    BY <1>2 DEF Check
  <2>2. /\ program' \in [Programs -> [at : Inside \cup {"off", "failed", "ready"}, copies : SUBSET Columns]]
        /\ program'[p].at = to /\ program'[p].copies = program[p].copies
        /\ \A q \in Programs : q # p => program'[q] = program[q]
    <3>1. to \in Inside \cup {"off", "failed", "ready"}
      BY DEF Inside
    <3> HIDE DEF to
    <3> QED BY <2>1, <3>1, Moves
  <2>3. table.there
    BY <2>1 DEF BeforeRebuild, AtIn
  <2> QED
    BY <2>1, <2>2, <2>3
    DEF Typed, BeforeRebuild, RebuiltOnceKeepsAll, OneRebuild, SomebodyCompletes, AtIn
<1>3. ASSUME NEW p \in Programs, ReadColumns(p) PROVE Inv'
  <2> DEFINE seen == table.columns \cap {"parent"}
  <2>1. /\ program[p].at = "columns" /\ UNCHANGED <<table, records, rebuilds, kills>>
        /\ program' = [program EXCEPT ![p] = [at |-> "rebuild", copies |-> seen]]
    BY <1>3 DEF ReadColumns
  <2>2. seen \in SUBSET Columns /\ (table.columns \subseteq {"parent"} => table.columns \subseteq seen)
    BY DEF Typed
  <2> HIDE DEF seen
  <2>3. /\ program' \in [Programs -> [at : Inside \cup {"off", "failed", "ready"}, copies : SUBSET Columns]]
        /\ program'[p].at = "rebuild" /\ program'[p].copies = seen
        /\ \A q \in Programs : q # p => program'[q] = program[q]
    BY <2>1, <2>2 DEF Typed, Inside
  <2> QED
    BY <2>1, <2>2, <2>3
    DEF Typed, BeforeRebuild, RebuiltOnceKeepsAll, OneRebuild, SomebodyCompletes, AtIn
<1>4. ASSUME NEW p \in Programs, Rebuild(p) PROVE Inv'
  <2>1. /\ program[p].at = "rebuild" /\ Goto(p, "alter")
        /\ rebuilds' = rebuilds + 1 /\ UNCHANGED kills
        /\ table' = [there |-> TRUE, scan |-> TRUE, columns |-> {"parent"}]
    BY <1>4 DEF Rebuild
  <2>2. /\ program' \in [Programs -> [at : Inside \cup {"off", "failed", "ready"}, copies : SUBSET Columns]]
        /\ program'[p].at = "alter" /\ \A q \in Programs : q # p => program'[q] = program[q]
    BY <2>1, Moves DEF Inside
  <2>3. /\ table' \in [there : BOOLEAN, scan : BOOLEAN, columns : SUBSET Columns]
        /\ table'.there /\ table'.scan
    BY <2>1 DEF Columns
  <2>4. Typed'
    BY <1>4, <2>1, <2>2, <2>3, RowsRebuilt DEF Typed
  <2>5. rebuilds' <= 1 => ~table.scan
    BY <2>1 DEF Typed, BeforeRebuild, AtIn
  <2>6. RebuiltOnceKeepsAll'
    <3> SUFFICES ASSUME rebuilds' <= 1, NEW i \in DOMAIN records'
                 PROVE  records'[i].kept = records'[i].written
      BY DEF RebuiltOnceKeepsAll
    <3>1. /\ i \in DOMAIN records /\ records'[i].written = records[i].written
          /\ records'[i].kept = records[i].kept \cap program[p].copies
      BY <1>4, RowsRebuilt
    <3>2. rebuilds <= 1 /\ table.columns \subseteq program[p].copies
      BY <2>1, <2>5 DEF Typed, BeforeRebuild, AtIn
    <3>3. records[i].written \subseteq table.columns
      BY <2>5, <3>1 DEF BeforeRebuild
    <3>4. records[i].kept = records[i].written
      BY <3>1, <3>2 DEF RebuiltOnceKeepsAll
    <3> QED BY <3>1, <3>2, <3>3, <3>4
  <2>7. OneRebuild'
    <3>1. rebuilds' <= 1 => \A q \in Programs : program'[q].at # "ready"
      BY <2>2, <2>5 DEF BeforeRebuild, AtIn
    <3> QED BY <3>1 DEF OneRebuild, AtIn
  <2>8. SomebodyCompletes'
    BY <2>2 DEF SomebodyCompletes, AtIn
  <2>9. BeforeRebuild'
    BY <2>1, <2>3 DEF BeforeRebuild, Typed
  <2> QED BY <2>4, <2>6, <2>7, <2>8, <2>9
<1>5. ASSUME NEW p \in Programs, AlterAutonomy(p) PROVE Inv'
  <2>1. /\ program[p].at = "alter" /\ Goto(p, "finish") /\ UNCHANGED <<records, rebuilds, kills>>
        /\ table' = [table EXCEPT !.columns = @ \cup {"autonomy"}]
    BY <1>5 DEF AlterAutonomy
  <2>2. /\ program' \in [Programs -> [at : Inside \cup {"off", "failed", "ready"}, copies : SUBSET Columns]]
        /\ program'[p].at = "finish" /\ \A q \in Programs : q # p => program'[q] = program[q]
    BY <2>1, Moves DEF Inside
  <2>3. /\ table' \in [there : BOOLEAN, scan : BOOLEAN, columns : SUBSET Columns]
        /\ table'.there = table.there /\ table'.scan = table.scan
        /\ table'.columns = table.columns \cup {"autonomy"}
    BY <2>1 DEF Typed, Columns
  <2>4. table.there /\ table.scan
    BY <2>1 DEF BeforeRebuild, AtIn
  <2>5. table.columns = Columns => table'.columns = Columns
    BY <2>3 DEF Columns
  <2>6. OneRebuild'
    BY <2>1, <2>2, <2>5 DEF OneRebuild, AtIn
  <2>7. SomebodyCompletes'
    BY <2>2, <2>3 DEF SomebodyCompletes, AtIn
  <2> QED
    BY <2>1, <2>2, <2>3, <2>4, <2>6, <2>7 DEF Typed, BeforeRebuild, RebuiltOnceKeepsAll, AtIn
<1>6. ASSUME NEW p \in Programs, FinishSchema(p) PROVE Inv'
  <2>1. program[p].at = "finish" /\ UNCHANGED <<records, rebuilds, kills>>
    BY <1>6 DEF FinishSchema
  <2>2. table.there /\ table.scan
    BY <2>1 DEF BeforeRebuild, AtIn
  <2>3. CASE "autonomy" \in table.columns
    <3>1. table' = [table EXCEPT !.columns = Columns] /\ Goto(p, "ready")
      BY <1>6, <2>3 DEF FinishSchema
    <3>2. /\ program' \in [Programs -> [at : Inside \cup {"off", "failed", "ready"}, copies : SUBSET Columns]]
          /\ program'[p].at = "ready" /\ \A q \in Programs : q # p => program'[q] = program[q]
      BY <3>1, Moves
    <3>3. /\ table' \in [there : BOOLEAN, scan : BOOLEAN, columns : SUBSET Columns]
          /\ table'.there /\ table'.scan /\ table'.columns = Columns
      BY <2>2, <3>1 DEF Typed
    <3> QED
      BY <2>1, <2>2, <3>2, <3>3
      DEF Typed, BeforeRebuild, RebuiltOnceKeepsAll, OneRebuild, SomebodyCompletes, AtIn
  <2>4. CASE "autonomy" \notin table.columns
    <3>1. UNCHANGED table /\ Goto(p, "failed")
      BY <1>6, <2>4 DEF FinishSchema
    <3>2. /\ program' \in [Programs -> [at : Inside \cup {"off", "failed", "ready"}, copies : SUBSET Columns]]
          /\ program'[p].at = "failed" /\ \A q \in Programs : q # p => program'[q] = program[q]
      BY <3>1, Moves
    <3> QED
      BY <2>1, <2>2, <2>4, <3>1, <3>2
      DEF Typed, BeforeRebuild, RebuiltOnceKeepsAll, OneRebuild, SomebodyCompletes, AtIn
  <2> QED BY <2>3, <2>4
<1>7. ASSUME NEW p \in Programs, WriteRow(p) PROVE Inv'
  <2>1. program[p].at = "ready" /\ UNCHANGED <<table, program, rebuilds, kills>>
    BY <1>7 DEF WriteRow
  <2>2. table.there /\ table.scan
    BY <2>1 DEF BeforeRebuild, AtIn
  <2>3. records' \in Seq(Record) /\ RebuiltOnceKeepsAll'
    BY <1>7, <2>1, RowAppended DEF RebuiltOnceKeepsAll
  <2> QED
    BY <2>1, <2>2, <2>3 DEF Typed, BeforeRebuild, OneRebuild, SomebodyCompletes, AtIn
<1>8. ASSUME NEW p \in Programs, KillProgram(p) PROVE Inv'
  <2>1. /\ program[p].at \in Inside /\ kills' = kills + 1 /\ Goto(p, "off")
        /\ UNCHANGED <<table, records, rebuilds>>
    BY <1>8 DEF KillProgram
  <2>2. /\ program' \in [Programs -> [at : Inside \cup {"off", "failed", "ready"}, copies : SUBSET Columns]]
        /\ program'[p].at = "off" /\ \A q \in Programs : q # p => program'[q] = program[q]
    BY <2>1, Moves
  <2>3. table.there /\ kills' # 0 /\ kills' \in Nat
    BY <2>1 DEF BeforeRebuild, AtIn, Inside, Typed
  <2> QED
    BY <2>1, <2>2, <2>3
    DEF Typed, BeforeRebuild, RebuiltOnceKeepsAll, OneRebuild, SomebodyCompletes, AtIn
<1>9. CASE UNCHANGED schemaVars
  BY <1>9 DEF schemaVars, Typed, BeforeRebuild, RebuiltOnceKeepsAll, OneRebuild, SomebodyCompletes, AtIn
<1> QED BY <1>1, <1>2, <1>3, <1>4, <1>5, <1>6, <1>7, <1>8, <1>9 DEF SchemaNext

\* A table that is rebuilt once keeps every value ever written to it, whoever
\* starts or is killed meanwhile (_migrate_todos_for_scan_source).
THEOREM NothingForgotten == SchemaSpec => []RebuiltOnceKeepsAll
<1>1. Inv => RebuiltOnceKeepsAll
  BY DEF Inv
<1> QED BY <1>1, InitInv, NextInv, PTL DEF SchemaSpec

\* A program that has come out of init_db finds every column; when the table
\* was rebuilt twice, once all programs are out and none was killed (init_db).
THEOREM ColumnsComplete == SchemaSpec => []SchemaComplete
<1>1. Inv => SchemaComplete
  BY DEF Inv, OneRebuild, SomebodyCompletes, BeforeRebuild, SchemaComplete, AtIn, Inside
<1> QED BY <1>1, InitInv, NextInv, PTL DEF SchemaSpec
=============================================================================
