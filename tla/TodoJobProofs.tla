--------------------------- MODULE TodoJobProofs ---------------------------
(***************************************************************************)
(* The programs that work through many todos at once, for every value of   *)
(* their constants: the migration of the flat files loses nothing, the     *)
(* rescorers leave what they promise, and discovery writes what was chosen *)
(* and counts it right.                                                    *)
(***************************************************************************)
EXTENDS TodoMigration, PriorityRescore, TodoDiscovery, FiniteSetTheorems, TLAPS

-----------------------------------------------------------------------------
(* The migration.                                                          *)

AllItems == UNION {Contents[f] : f \in Files}

MigrationTyped ==
    /\ disk \subseteq Files
    /\ mig \in [Migrators -> [at : {"off", "reading", "removing"},
                              ahead : SUBSET Files, text : SUBSET AllItems]]

\* What a migration has passed over is in the database or in its hands, and
\* all of it is in the database before the migration removes its first file.
PassedFilesCovered ==
    \A m \in Migrators, f \in Readable :
        /\ (mig[m].at = "reading" /\ f \notin mig[m].ahead) =>
              Contents[f] \subseteq db \cup mig[m].text
        /\ mig[m].at = "removing" => Contents[f] \subseteq db

MigrationInv == MigrationTyped /\ PassedFilesCovered /\ ReadItemsKept

\* All files are there and no migration runs at the start.
LEMMA MigrationStart == MigrationInit => MigrationInv
  BY DEF MigrationInit, NotMigrating, MigrationInv, MigrationTyped, PassedFilesCovered, ReadItemsKept, Readable

\* A file that is removed is one whose items a removing migration has covered;
\* rows are only added, so nothing that is covered is uncovered.
LEMMA MigrationStep == MigrationInv /\ [MigrationNext]_migrationVars => MigrationInv'
<1> SUFFICES ASSUME MigrationInv, [MigrationNext]_migrationVars PROVE MigrationInv'
  OBVIOUS
<1> USE DEF MigrationInv, MigrationTyped, PassedFilesCovered, ReadItemsKept, Readable
<1>1. ASSUME NEW m \in Migrators, AutoStart(m) \/ CommandStart(m) PROVE MigrationInv'
  BY <1>1 DEF AutoStart, CommandStart, Started
<1>2. ASSUME NEW m \in Migrators, ReadFile(m) PROVE MigrationInv'
  <2>1. PICK g \in mig[m].ahead :
          mig' = [mig EXCEPT ![m].ahead = @ \ {g},
                             ![m].text = IF g \in disk \ Unreadable THEN Contents[g] ELSE {}]
    BY <1>2 DEF ReadFile
  <2>2. g \in Files /\ Contents[g] \subseteq AllItems
    BY <2>1 DEF AllItems
  <2>3. /\ mig[m].at = "reading" /\ mig[m].text = {}
        /\ UNCHANGED <<db, disk>>
    BY <1>2 DEF ReadFile
  <2>4. /\ mig'[m] = [at |-> "reading", ahead |-> mig[m].ahead \ {g},
                      text |-> IF g \in disk \ Unreadable THEN Contents[g] ELSE {}]
        /\ \A n \in Migrators : n # m => mig'[n] = mig[n]
    BY <2>1, <2>3
  <2>5. MigrationTyped'
    BY <2>1, <2>2, <2>3
  <2>6. ASSUME NEW f \in Readable, f \notin mig'[m].ahead
        PROVE  Contents[f] \subseteq db \cup mig'[m].text
    <3>1. CASE f = g
      BY <3>1, <2>3, <2>4 DEF Readable
    <3>2. CASE f # g
      BY <3>2, <2>3, <2>4, <2>6
    <3> QED BY <3>1, <3>2
  <2>7. PassedFilesCovered'
    BY <2>3, <2>4, <2>6
  <2> QED BY <2>3, <2>5, <2>7
<1>3. ASSUME NEW m \in Migrators, InsertItem(m) PROVE MigrationInv'
  <2>1. PICK i \in mig[m].text : db' = db \cup {i} /\ mig' = [mig EXCEPT ![m].text = @ \ {i}]
    BY <1>3 DEF InsertItem
  <2> QED BY <1>3, <2>1 DEF InsertItem
<1>4. ASSUME NEW m \in Migrators, StartRemoving(m) PROVE MigrationInv'
  BY <1>4 DEF StartRemoving
<1>5. ASSUME NEW m \in Migrators, RemoveFile(m) PROVE MigrationInv'
  BY <1>5 DEF RemoveFile
<1>6. ASSUME NEW m \in Migrators, FinishMigration(m) \/ KillMigrator(m) PROVE MigrationInv'
  BY <1>6 DEF FinishMigration, KillMigrator, NotMigrating
<1>7. CASE UNCHANGED migrationVars
  BY <1>7 DEF migrationVars
<1> QED BY <1>1, <1>2, <1>3, <1>4, <1>5, <1>6, <1>7 DEF MigrationNext

\* A file that can be read stays on disk until all its todos have rows,
\* whichever migrations run at once and are killed (migrate).
THEOREM NothingLost == MigrationSpec => []ReadItemsKept
<1>1. MigrationInv => ReadItemsKept
  BY DEF MigrationInv
<1> QED BY <1>1, MigrationStart, MigrationStep, PTL DEF MigrationSpec

-----------------------------------------------------------------------------
(* The rescorers.                                                          *)

\* What a priority can be: chosen by somebody, or the score of a text.
AllPriorities == Priorities \cup {Score[x] : x \in Texts}

Rows == [Todos -> [open : BOOLEAN, text : Texts, priority : AllPriorities, version : Nat]]
Run  == [at : {"off", "scoring", "previewed", "applying", "failed"},
         kind : {"weekly", "bulk"}, seen : Rows,
         ahead : SUBSET Todos, touched : SUBSET Todos]
Runs == [Rescorers -> Run]

RescoreTyped == todo \in Rows /\ history \in [Todos -> Seq(AllPriorities)] /\ run \in Runs

\* A row that nobody else has written is what the run saw of it until the run
\* has come to it, and has the score of its text from then on.
UntouchedAsSeen ==
    \A r \in Rescorers : run[r].at \in {"scoring", "applying"} =>
        \A t \in Todos \ run[r].touched :
            IF t \in run[r].ahead THEN todo[t] = run[r].seen[t]
            ELSE todo[t].priority = Score[todo[t].text]

RescoreInv == RescoreTyped /\ HistoryIsInForce /\ UntouchedAsSeen

\* No run has begun and no history has been written.
LEMMA RescoreStart == RescoreInit => RescoreInv
<1> SUFFICES ASSUME RescoreInit PROVE RescoreInv
  OBVIOUS
<1>1. todo \in Rows
  BY DEF RescoreInit, Rows, AllPriorities
<1>2. NotRescoring \in [at : {"off"}, kind : {"weekly"}, seen : Rows, ahead : SUBSET Todos, touched : SUBSET Todos]
  BY <1>1 DEF NotRescoring
<1>3. run \in Runs /\ \A r \in Rescorers : run[r].at = "off"
  BY <1>2 DEF RescoreInit, Runs, Run
<1>4. history \in [Todos -> Seq(AllPriorities)] /\ \A t \in Todos : history[t] = <<>>
  BY DEF RescoreInit
<1> QED BY <1>1, <1>3, <1>4 DEF RescoreInv, RescoreTyped, HistoryIsInForce, UntouchedAsSeen

\* One write with its history row keeps the two in step.
LEMMA UpdateKeeps ==
    ASSUME RescoreTyped, HistoryIsInForce, NEW t \in Todos, NEW p \in AllPriorities, Update(t, p)
    PROVE  /\ todo' \in Rows /\ history' \in [Todos -> Seq(AllPriorities)]
           /\ HistoryIsInForce'
           /\ todo'[t].text = todo[t].text /\ todo'[t].priority = p
           /\ \A u \in Todos : u # t => todo'[u] = todo[u]
<1>1. /\ todo' = [todo EXCEPT ![t].priority = p, ![t].version = @ + 1]
      /\ history' = [history EXCEPT ![t] = Append(@, p)]
  BY DEF Update
<1>2. /\ todo' \in Rows
      /\ todo'[t].text = todo[t].text /\ todo'[t].priority = p
      /\ \A u \in Todos : u # t => todo'[u] = todo[u]
  <2>1. /\ todo[t] \in [open : BOOLEAN, text : Texts, priority : AllPriorities, version : Nat]
        /\ todo[t].version + 1 \in Nat
    BY DEF RescoreTyped, Rows
  <2>2. todo'[t] = [todo[t] EXCEPT !.priority = p, !.version = @ + 1]
    BY <1>1 DEF RescoreTyped, Rows
  <2>3. /\ todo'[t] \in [open : BOOLEAN, text : Texts, priority : AllPriorities, version : Nat]
        /\ todo'[t].text = todo[t].text /\ todo'[t].priority = p
    BY <2>1, <2>2
  <2>4. \A u \in Todos : u # t => todo'[u] = todo[u]
    BY <1>1 DEF RescoreTyped, Rows
  <2>5. DOMAIN todo' = Todos /\ todo' = [u \in Todos |-> todo'[u]]
    BY <1>1 DEF RescoreTyped, Rows
  <2> QED BY <2>3, <2>4, <2>5 DEF RescoreTyped, Rows
<1>3. history[t] \in Seq(AllPriorities) /\ history'[t] = Append(history[t], p)
  BY <1>1 DEF RescoreTyped
<1>4. /\ history'[t] \in Seq(AllPriorities)
      /\ history'[t][Len(history'[t])] = p
  BY <1>3
<1>5. \A u \in Todos : u # t => history'[u] = history[u]
  BY <1>1 DEF RescoreTyped
<1>6. history' \in [Todos -> Seq(AllPriorities)]
  BY <1>1, <1>4 DEF RescoreTyped
<1>7. HistoryIsInForce'
  BY <1>2, <1>4, <1>5 DEF HistoryIsInForce
<1> QED BY <1>2, <1>6, <1>7

\* A row written by somebody who is not the run r is touched for r.
LEMMA TouchedOf ==
    ASSUME NEW t \in Todos, NEW runs \in Runs, NEW r
    PROVE  /\ Touched(t, r, runs) \in Runs
           /\ \A q \in Rescorers :
                Touched(t, r, runs)[q] = IF q = r THEN runs[q]
                                         ELSE [runs[q] EXCEPT !.touched = @ \cup {t}]
  BY DEF Touched, Runs, Run

\* What somebody else than any run writes to t is touched for every run, and
\* the other rows stay as they are.
LEMMA OtherKeeps ==
    ASSUME RescoreTyped, UntouchedAsSeen, NEW t \in Todos, NEW who, who \notin Rescorers,
           run' = Touched(t, who, run), \A u \in Todos : u # t => todo'[u] = todo[u]
    PROVE  run' \in Runs /\ UntouchedAsSeen'
<1>1. /\ run' \in Runs
      /\ \A q \in Rescorers : run'[q] = [run[q] EXCEPT !.touched = @ \cup {t}]
  <2>1. run \in Runs
    BY DEF RescoreTyped
  <2>2. \A q \in Rescorers : q # who
    OBVIOUS
  <2> QED BY <2>1, <2>2, TouchedOf
<1>2. \A q \in Rescorers : /\ run'[q].at = run[q].at /\ run'[q].ahead = run[q].ahead
                           /\ run'[q].seen = run[q].seen
                           /\ run'[q].touched = run[q].touched \cup {t}
  BY <1>1 DEF RescoreTyped, Runs, Run
<1> QED BY <1>1, <1>2 DEF UntouchedAsSeen

\* The writes of a run to one of its rows: the row gets the score of its text,
\* unless it was touched, and the other runs know that it was written.
LEMMA RescoreKeeps ==
    ASSUME RescoreInv, NEW r \in Rescorers, NEW t \in Todos, Rescore(r, t) PROVE RescoreInv'
<1> DEFINE runs == [run EXCEPT ![r].ahead = @ \ {t}]
<1>1. /\ run[r].at = "applying" /\ t \in run[r].ahead
      /\ NewPriority(r, t) \in AllPriorities
      /\ run \in Runs
  BY DEF Rescore, NewPriority, RescoreInv, RescoreTyped, Runs, Run, Rows, AllPriorities
<1>2. /\ runs \in Runs
      /\ \A q \in Rescorers : q # r => runs[q] = run[q]
      /\ runs[r] = [run[r] EXCEPT !.ahead = @ \ {t}]
  BY <1>1 DEF Runs, Run
<1>3. runs[r].at = "applying" /\ runs[r].ahead = run[r].ahead \ {t}
      /\ runs[r].seen = run[r].seen /\ runs[r].touched = run[r].touched
  BY <1>1, <1>2 DEF Runs, Run
<1>4. CASE Changed(r, t)
  <2>1. Update(t, NewPriority(r, t)) /\ run' = Touched(t, r, runs)
    BY <1>4 DEF Rescore
  <2>2. /\ todo' \in Rows /\ history' \in [Todos -> Seq(AllPriorities)]
        /\ HistoryIsInForce'
        /\ todo'[t].text = todo[t].text /\ todo'[t].priority = NewPriority(r, t)
        /\ \A u \in Todos : u # t => todo'[u] = todo[u]
    BY <1>1, <2>1, UpdateKeeps DEF RescoreInv
  <2>3. /\ run' \in Runs /\ run'[r] = runs[r]
        /\ \A q \in Rescorers : q # r => run'[q] = [run[q] EXCEPT !.touched = @ \cup {t}]
    <3> HIDE DEF runs
    <3>1. /\ Touched(t, r, runs) \in Runs
          /\ \A q \in Rescorers :
               Touched(t, r, runs)[q] = IF q = r THEN runs[q]
                                        ELSE [runs[q] EXCEPT !.touched = @ \cup {t}]
      BY <1>2, TouchedOf
    <3> QED BY <1>2, <2>1, <3>1
  <2>4. \A q \in Rescorers : q # r =>
           /\ run'[q].at = run[q].at /\ run'[q].ahead = run[q].ahead
           /\ run'[q].seen = run[q].seen /\ run'[q].touched = run[q].touched \cup {t}
    BY <1>1, <2>3 DEF Runs, Run
  <2>5. t \notin run[r].touched => NewPriority(r, t) = Score[todo[t].text]
    BY <1>1 DEF RescoreInv, UntouchedAsSeen, NewPriority
  <2>6. UntouchedAsSeen'
    <3> SUFFICES ASSUME NEW q \in Rescorers, run'[q].at \in {"scoring", "applying"},
                        NEW u \in Todos \ run'[q].touched
                 PROVE  IF u \in run'[q].ahead THEN todo'[u] = run'[q].seen[u]
                        ELSE todo'[u].priority = Score[todo'[u].text]
      BY DEF UntouchedAsSeen
    <3> HIDE DEF runs
    <3>1. CASE q # r
      BY <3>1, <2>2, <2>4 DEF RescoreInv, UntouchedAsSeen
    <3>2. CASE q = r /\ u = t
      BY <3>2, <1>3, <2>2, <2>3, <2>5
    <3>3. CASE q = r /\ u # t
      BY <3>3, <1>1, <1>3, <2>2, <2>3 DEF RescoreInv, UntouchedAsSeen
    <3> QED BY <3>1, <3>2, <3>3
  <2> QED BY <2>2, <2>3, <2>6 DEF RescoreInv, RescoreTyped
<1>5. CASE ~Changed(r, t)
  <2>1. UNCHANGED <<todo, history>> /\ run' = runs
    BY <1>5 DEF Rescore
  <2>2. t \notin run[r].touched => todo[t].priority = Score[todo[t].text]
    BY <1>1, <1>5 DEF RescoreInv, UntouchedAsSeen, Changed, NewPriority
  <2>3. UntouchedAsSeen'
    <3> HIDE DEF runs
    <3> SUFFICES ASSUME NEW q \in Rescorers, run'[q].at \in {"scoring", "applying"},
                        NEW u \in Todos \ run'[q].touched
                 PROVE  IF u \in run'[q].ahead THEN todo'[u] = run'[q].seen[u]
                        ELSE todo'[u].priority = Score[todo'[u].text]
      BY DEF UntouchedAsSeen
    <3>1. CASE q # r
      BY <3>1, <1>2, <2>1 DEF RescoreInv, UntouchedAsSeen
    <3>2. CASE q = r /\ u = t
      BY <3>2, <1>3, <2>1, <2>2
    <3>3. CASE q = r /\ u # t
      BY <3>3, <1>1, <1>3, <2>1 DEF RescoreInv, UntouchedAsSeen
    <3> QED BY <3>1, <3>2, <3>3
  <2> HIDE DEF runs
  <2> QED BY <1>2, <2>1, <2>3 DEF RescoreInv, RescoreTyped, HistoryIsInForce
<1> QED BY <1>4, <1>5

\* Nobody who writes by hand is a rescorer of the same name.
Distinct == {"portal", "agent", "people"} \cap Rescorers = {}

\* One step of anybody, one action after the other.
LEMMA RescoreStep == ASSUME Distinct PROVE RescoreInv /\ [RescoreNext]_rescoreVars => RescoreInv'
<1> SUFFICES ASSUME RescoreInv, [RescoreNext]_rescoreVars PROVE RescoreInv'
  OBVIOUS
<1>1. ASSUME NEW t \in Todos, NEW p \in Priorities, NEW who \in {"portal", "agent"},
             Update(t, p), run' = Touched(t, who, run)
      PROVE  RescoreInv'
  <2>1. p \in AllPriorities /\ who \notin Rescorers
    BY DEF AllPriorities, Distinct
  <2>2. /\ todo' \in Rows /\ history' \in [Todos -> Seq(AllPriorities)]
        /\ HistoryIsInForce' /\ \A u \in Todos : u # t => todo'[u] = todo[u]
    BY <1>1, <2>1, UpdateKeeps DEF RescoreInv
  <2>3. run' \in Runs /\ UntouchedAsSeen'
    BY <1>1, <2>1, <2>2, OtherKeeps DEF RescoreInv
  <2> QED BY <2>2, <2>3 DEF RescoreInv, RescoreTyped
<1>2. ASSUME UNCHANGED <<todo, run>>, UNCHANGED history PROVE RescoreInv'
  BY <1>2 DEF RescoreInv, RescoreTyped, HistoryIsInForce, UntouchedAsSeen
<1>3. ASSUME NEW t \in Todos, NEW p \in Priorities, PortalPriority(t, p) PROVE RescoreInv'
  BY <1>1, <1>3 DEF PortalPriority
<1>4. ASSUME NEW t \in Todos, NEW p \in Priorities, AgentPriority(t, p) PROVE RescoreInv'
  BY <1>1, <1>2, <1>4 DEF AgentPriority
<1>5. ASSUME NEW t \in Todos, AgentRead(t) PROVE RescoreInv'
  BY <1>2, <1>5 DEF AgentRead
<1>6. ASSUME NEW t \in Todos, EditOrClose(t) PROVE RescoreInv'
  <2>1. run' = Touched(t, "people", run) /\ UNCHANGED history
    BY <1>6 DEF EditOrClose
  <2>2. \/ \E x \in Texts : todo' = [todo EXCEPT ![t].text = x, ![t].version = @ + 1]
        \/ todo' = [todo EXCEPT ![t].open = FALSE, ![t].version = @ + 1]
    BY <1>6 DEF EditOrClose
  <2>3. /\ todo' \in Rows /\ todo'[t].priority = todo[t].priority
        /\ \A u \in Todos : u # t => todo'[u] = todo[u]
    <3>0. /\ todo \in Rows /\ todo[t].version + 1 \in Nat
          /\ todo[t] \in [open : BOOLEAN, text : Texts, priority : AllPriorities, version : Nat]
      BY DEF RescoreInv, RescoreTyped, Rows
    <3>1. \/ \E x \in Texts : todo'[t] = [todo[t] EXCEPT !.text = x, !.version = @ + 1]
          \/ todo'[t] = [todo[t] EXCEPT !.open = FALSE, !.version = @ + 1]
      BY <2>2, <3>0 DEF Rows
    <3>2. \A u \in Todos : u # t => todo'[u] = todo[u]
      BY <2>2, <3>0 DEF Rows
    <3>3. DOMAIN todo' = Todos /\ todo' = [u \in Todos |-> todo'[u]]
      BY <2>2, <3>0 DEF Rows
    <3>4. /\ todo'[t] \in [open : BOOLEAN, text : Texts, priority : AllPriorities, version : Nat]
          /\ todo'[t].priority = todo[t].priority
      BY <3>0, <3>1
    <3> QED BY <3>0, <3>2, <3>3, <3>4 DEF Rows
  <2>4. run' \in Runs /\ UntouchedAsSeen'
    <3>1. "people" \notin Rescorers
      BY DEF Distinct
    <3> QED BY <2>1, <2>3, <3>1, OtherKeeps DEF RescoreInv
  <2>5. HistoryIsInForce'
    BY <2>1, <2>3 DEF RescoreInv, HistoryIsInForce
  <2> QED BY <2>1, <2>3, <2>4, <2>5 DEF RescoreInv, RescoreTyped
<1>7. ASSUME NEW r \in Rescorers, NEW kind \in {"weekly", "bulk"}, ReadRows(r, kind) PROVE RescoreInv'
  <2>1. UNCHANGED <<todo, history>>
    BY <1>7 DEF ReadRows
  <2>2. PICK taken \in SUBSET Todos :
          run' = [run EXCEPT ![r] = [at |-> IF kind = "weekly" THEN "applying" ELSE "scoring",
                                     kind |-> kind, seen |-> todo, ahead |-> taken,
                                     touched |-> {t \in Todos : t \notin taken}]]
    BY <1>7 DEF ReadRows
  <2>3. run' \in Runs
    BY <2>2 DEF RescoreInv, RescoreTyped, Runs, Run
  <2>4. UntouchedAsSeen'
    BY <2>1, <2>2 DEF RescoreInv, RescoreTyped, Runs, Run, UntouchedAsSeen
  <2> QED BY <2>1, <2>3, <2>4 DEF RescoreInv, RescoreTyped, HistoryIsInForce
<1>8. ASSUME NEW r \in Rescorers, Preview(r) PROVE RescoreInv'
  <2>1. UNCHANGED <<todo, history>> /\ run[r].at = "scoring"
    BY <1>8 DEF Preview
  <2>2. \/ run' = [run EXCEPT ![r].at = "previewed"]
        \/ run' = [run EXCEPT ![r].at = "applying"]
    BY <1>8 DEF Preview
  <2>3. /\ run[r] \in Run
        /\ DOMAIN run' = Rescorers /\ run' = [q \in Rescorers |-> run'[q]]
        /\ \A q \in Rescorers : q # r => run'[q] = run[q]
        /\ \/ run'[r] = [run[r] EXCEPT !.at = "previewed"]
           \/ run'[r] = [run[r] EXCEPT !.at = "applying"]
    BY <2>2 DEF RescoreInv, RescoreTyped, Runs, Run
  <2>4. /\ run'[r] \in Run
        /\ run'[r].ahead = run[r].ahead /\ run'[r].seen = run[r].seen
        /\ run'[r].touched = run[r].touched
    BY <2>3 DEF Run
  <2>5. run' \in Runs
    BY <2>3, <2>4 DEF RescoreInv, RescoreTyped, Runs, Run
  <2>6. UntouchedAsSeen'
    BY <2>1, <2>3, <2>4 DEF RescoreInv, UntouchedAsSeen
  <2> QED BY <2>1, <2>5, <2>6 DEF RescoreInv, RescoreTyped, HistoryIsInForce
<1>9. ASSUME NEW r \in Rescorers, NEW t \in Todos, RescoreFails(r, t) PROVE RescoreInv'
  <2>1. UNCHANGED <<todo, history>>
    BY <1>9 DEF RescoreFails
  <2>2. \/ run' = [run EXCEPT ![r].at = "failed"]
        \/ run' = [run EXCEPT ![r].ahead = @ \ {t}, ![r].touched = @ \cup {t}]
    BY <1>9 DEF RescoreFails
  <2>3. /\ run[r] \in Run
        /\ DOMAIN run' = Rescorers /\ run' = [q \in Rescorers |-> run'[q]]
        /\ \A q \in Rescorers : q # r => run'[q] = run[q]
        /\ \/ run'[r] = [run[r] EXCEPT !.at = "failed"]
           \/ run'[r] = [run[r] EXCEPT !.ahead = @ \ {t}, !.touched = @ \cup {t}]
    BY <2>2 DEF RescoreInv, RescoreTyped, Runs, Run
  <2>4. /\ run'[r] \in Run
        /\ \/ run'[r].at = "failed"
           \/ /\ run'[r].at = run[r].at /\ run'[r].seen = run[r].seen
              /\ run'[r].ahead = run[r].ahead \ {t}
              /\ run'[r].touched = run[r].touched \cup {t}
    <3>1. CASE run'[r] = [run[r] EXCEPT !.at = "failed"]
      BY <2>3, <3>1 DEF Run
    <3>2. CASE run'[r] = [run[r] EXCEPT !.ahead = @ \ {t}, !.touched = @ \cup {t}]
      <4>1. /\ run[r].ahead \ {t} \in SUBSET Todos
            /\ run[r].touched \cup {t} \in SUBSET Todos
        BY <2>3 DEF Run
      <4> DEFINE a == run[r].ahead \ {t}
                 b == run[r].touched \cup {t}
      <4>2. run'[r] = [run[r] EXCEPT !.ahead = a, !.touched = b]
        BY <3>2
      <4> HIDE DEF a, b
      <4>3. /\ run'[r].at = run[r].at /\ run'[r].kind = run[r].kind
            /\ run'[r].seen = run[r].seen /\ run'[r].ahead = a /\ run'[r].touched = b
            /\ a \in SUBSET Todos /\ b \in SUBSET Todos => run'[r] \in Run
        BY <2>3, <4>2 DEF Run
      <4> QED BY <4>1, <4>3 DEF a, b
    <3> QED BY <2>3, <3>1, <3>2
  <2>5. run' \in Runs
    BY <2>3, <2>4 DEF RescoreInv, RescoreTyped, Runs, Run
  <2>6. UntouchedAsSeen'
    BY <2>1, <2>3, <2>4 DEF RescoreInv, UntouchedAsSeen
  <2> QED BY <2>1, <2>5, <2>6 DEF RescoreInv, RescoreTyped, HistoryIsInForce
<1>10. CASE UNCHANGED rescoreVars
  BY <1>2, <1>10 DEF rescoreVars
<1> QED
  BY <1>3, <1>4, <1>5, <1>6, <1>7, <1>8, <1>9, <1>10, RescoreKeeps DEF RescoreNext

\* The newest history row of a todo is its priority, in every interleaving of
\* versioned, blind and batch writes (update_priority).
THEOREM HistoryAgrees == ASSUME Distinct PROVE RescoreSpec => []HistoryIsInForce
<1>1. RescoreInv => HistoryIsInForce
  BY DEF RescoreInv
<1> QED BY <1>1, RescoreStart, RescoreStep, PTL DEF RescoreSpec

\* A run that has written its last row leaves every row it read, and that
\* nobody else wrote meanwhile, with the score of its text
\* (weekly_priority_rescore.run, bulk_score_todos.main).
THEOREM RowsRescored == ASSUME Distinct PROVE RescoreSpec => []RescoredUnlessTouched
<1>1. RescoreInv => RescoredUnlessTouched
  BY DEF RescoreInv, UntouchedAsSeen, RescoredUnlessTouched
<1> QED BY <1>1, RescoreStart, RescoreStep, PTL DEF RescoreSpec

-----------------------------------------------------------------------------
(* Discovery.                                                              *)

Works == [at : {"start", "shown", "inserting", "done"}, chosen : SUBSET Nat,
          next : Nat, inserted : Nat, skipped : Nat]

\* Candidates are numbered from 1, and no two of them say the same thing.
Numbered(q) ==
    /\ q \in Seq(Spellings)
    /\ \A i, j \in DOMAIN q : i # j => Norm[q[i]] # Norm[q[j]]

\* The chosen candidates this run has come to.
Come == {offer[i] : i \in {n \in work.chosen : n < work.next}}

DiscoveryInv ==
    /\ work \in Works /\ Numbered(offer)
    /\ work.chosen \subseteq DOMAIN offer
    /\ work.at \in {"start", "shown"} => work.chosen = {} /\ work.next = 1
    /\ work.at = "start" => mine = {} /\ work.inserted = 0 /\ work.skipped = 0
    /\ IsFiniteSet(Come) /\ mine \subseteq Come /\ Come \subseteq rows
    /\ work.inserted = Cardinality(mine)
    /\ work.inserted + work.skipped = Cardinality(Come)

\* What is offered is numbered, and of one norm only the first is offered.
LEMMA OfferNumbered ==
  ASSUME NEW q \in Seq(Spellings), NEW o \in Prepared(q)
  PROVE  Numbered(o)
<1> DEFINE first == FirstOfNorm(q)
           kept  == IF Cardinality(first) < Limit THEN Cardinality(first) ELSE Limit
<1>1. first \subseteq DOMAIN q /\ IsFiniteSet(first)
  <2>1. first \subseteq 1..Len(q)
    BY DEF FirstOfNorm
  <2>2. IsFiniteSet(1..Len(q))
    BY FS_Interval
  <2> QED
    BY <2>1, <2>2, FS_Subset
<1>2. kept \in Nat
  BY <1>1, FS_CardinalityType, DiscoveryAssumption
<1>3. PICK c \in [1..kept -> first] :
         /\ \A k, m \in 1..kept : k < m => c[k] < c[m]
         /\ o = [k \in 1..kept |-> q[c[k]]]
  BY DEF Prepared
<1> HIDE DEF kept
<1>4. o \in [1..kept -> Spellings] /\ DOMAIN o = 1..kept
  BY <1>1, <1>3
<1>5. o \in Seq(Spellings)
  BY <1>2, <1>4
<1>6. ASSUME NEW k \in 1..kept, NEW m \in 1..kept, k < m
      PROVE  Norm[o[k]] # Norm[o[m]]
  <2>1. c[k] \in first /\ c[m] \in first /\ c[k] < c[m]
    BY <1>3, <1>6
  <2>2. c[k] \in 1..c[m] - 1
    BY <1>1, <2>1
  <2>3. Norm[q[c[k]]] # Norm[q[c[m]]]
    BY <2>1, <2>2 DEF FirstOfNorm
  <2> QED
    BY <1>3, <2>3
<1>7. ASSUME NEW i \in DOMAIN o, NEW j \in DOMAIN o, i # j
      PROVE  Norm[o[i]] # Norm[o[j]]
  <2>1. i \in 1..kept /\ j \in 1..kept /\ (i < j \/ j < i)
    BY <1>2, <1>4, <1>7
  <2> QED
    BY <1>6, <2>1
<1> QED
  BY <1>5, <1>7 DEF Numbered

\* Nothing is offered yet.
LEMMA DiscoveryStart == DiscoveryInit => DiscoveryInv
<1> SUFFICES ASSUME DiscoveryInit PROVE DiscoveryInv
  OBVIOUS
<1>1. work \in Works /\ Numbered(offer) /\ work.chosen = {} /\ work.next = 1
  BY DEF DiscoveryInit, Works, Numbered
<1>2. Come = {}
  BY <1>1 DEF Come
<1> QED
  BY <1>1, <1>2, FS_EmptySet DEF DiscoveryInit, DiscoveryInv

\* The candidate whose turn it is, if it was chosen: it is one this run has not
\* come to, so each counter counts a row once.
LEMMA ChosenInserted ==
  ASSUME DiscoveryInv, InsertChosen, work.next \in work.chosen
  PROVE  DiscoveryInv'
<1> DEFINE text == offer[work.next]
           new == text \notin rows
<1>1. /\ work.at = "inserting" /\ rows' = rows \cup {text} /\ offer' = offer
      /\ mine' = IF new THEN mine \cup {text} ELSE mine
      /\ work' = [work EXCEPT !.next = work.next + 1,
                              !.inserted = IF new THEN work.inserted + 1 ELSE work.inserted,
                              !.skipped = IF new THEN work.skipped ELSE work.skipped + 1]
  BY DEF InsertChosen
<1>2. work \in Works /\ Numbered(offer) /\ work.chosen \subseteq DOMAIN offer
  BY DEF DiscoveryInv
<1> DEFINE done == IF new THEN work.inserted + 1 ELSE work.inserted
           past == IF new THEN work.skipped ELSE work.skipped + 1
<1>3. done \in Nat /\ past \in Nat /\ work.next + 1 \in Nat
  BY <1>2 DEF Works
<1>4. /\ work' \in Works /\ work'.chosen = work.chosen /\ work'.next = work.next + 1
      /\ work'.at = "inserting" /\ work'.inserted = done /\ work'.skipped = past
  <2>1. work' = [work EXCEPT !.next = work.next + 1, !.inserted = done, !.skipped = past]
    BY <1>1
  <2> HIDE DEF done, past
  <2> QED
    BY <1>1, <1>2, <1>3, <2>1 DEF Works
<1>5. Come' = Come \cup {text}
  <2>1. \A n \in work.chosen : n < work'.next <=> (n < work.next \/ n = work.next)
    BY <1>2, <1>4 DEF Works
  <2> QED
    BY <1>1, <1>4, <2>1 DEF Come
<1>6. text \notin Come
  <2>1. \A i \in {n \in work.chosen : n < work.next} : i \in DOMAIN offer /\ i # work.next
    BY <1>2 DEF Works
  <2> QED
    BY <1>2, <2>1 DEF Come, Numbered
<1>7. IsFiniteSet(mine) /\ IsFiniteSet(Come) /\ mine \subseteq Come /\ Come \subseteq rows
  BY FS_Subset DEF DiscoveryInv
<1> HIDE DEF text
<1>8. IsFiniteSet(Come') /\ Cardinality(Come') = Cardinality(Come) + 1
  BY <1>5, <1>6, <1>7, FS_AddElement
<1>9. new => Cardinality(mine') = Cardinality(mine) + 1
  <2>1. text \notin mine
    BY <1>6, <1>7
  <2> QED
    BY <1>1, <1>7, <2>1, FS_AddElement
<1>10. work'.inserted = Cardinality(mine') /\ work'.inserted + work'.skipped = Cardinality(Come')
  <2>1. /\ work.inserted = Cardinality(mine) /\ work.inserted + work.skipped = Cardinality(Come)
        /\ work.inserted \in Nat /\ work.skipped \in Nat
    BY <1>2 DEF DiscoveryInv, Works
  <2> QED
    BY <1>1, <1>4, <1>8, <1>9, <2>1
<1>11. mine' \subseteq Come' /\ Come' \subseteq rows'
  BY <1>1, <1>5, <1>7
<1>12. Numbered(offer)' /\ work'.chosen \subseteq DOMAIN offer'
  BY <1>1, <1>2, <1>4 DEF Numbered
<1> QED
  BY <1>4, <1>8, <1>10, <1>11, <1>12 DEF DiscoveryInv

\* Every step.
LEMMA DiscoveryStep == DiscoveryInv /\ [DiscoveryNext]_discoveryVars => DiscoveryInv'
<1> SUFFICES ASSUME DiscoveryInv, [DiscoveryNext]_discoveryVars PROVE DiscoveryInv'
  OBVIOUS
<1>1. CASE OthersAdd
  <2>1. rows \subseteq rows' /\ UNCHANGED <<offer, work, mine>>
    BY <1>1 DEF OthersAdd
  <2>2. Come' = Come /\ Numbered(offer)'
    BY <2>1 DEF Come, Numbered, DiscoveryInv
  <2> QED
    BY <2>1, <2>2 DEF DiscoveryInv
<1>2. CASE PrepareOffer
  <2>1. PICK q \in Supplied : offer' \in Prepared(q)
    BY <1>2 DEF PrepareOffer
  <2>2. Numbered(offer')
    BY <2>1, OfferNumbered, DiscoveryAssumption
  <2>3. /\ work' \in Works /\ work'.chosen = {} /\ work'.next = 1 /\ work.at = "start"
        /\ work'.at \in {"shown", "done"}
        /\ work'.inserted = work.inserted /\ work'.skipped = work.skipped
        /\ rows' = rows /\ mine' = mine /\ work.chosen = {}
    BY <1>2 DEF PrepareOffer, DiscoveryInv, Works
  <2>4. Come = {} /\ Come' = {}
    BY <2>3 DEF Come
  <2>5. Numbered(offer)'
    BY <2>2 DEF Numbered
  <2> QED
    BY <2>3, <2>4, <2>5 DEF DiscoveryInv
<1>3. CASE Select
  <2>1. PICK chosen \in SUBSET (1..Len(offer)) :
           work' = [work EXCEPT !.chosen = chosen,
                                !.at = IF chosen = {} THEN "done" ELSE "inserting"]
    BY <1>3 DEF Select
  <2>2. work.at = "shown" /\ work.chosen = {} /\ work.next = 1 /\ UNCHANGED <<rows, offer, mine>>
    BY <1>3 DEF Select, DiscoveryInv
  <2>3. chosen \subseteq DOMAIN offer /\ chosen \subseteq Nat
    BY DEF DiscoveryInv, Numbered
  <2>4. /\ work' \in Works /\ work'.chosen = chosen /\ work'.next = 1
        /\ work'.at \in {"inserting", "done"}
        /\ work'.inserted = work.inserted /\ work'.skipped = work.skipped
    BY <2>1, <2>2, <2>3 DEF DiscoveryInv, Works
  <2>5. \A n \in chosen : ~(n < 1)
    OBVIOUS
  <2>6. Come = {} /\ Come' = {}
    BY <2>2, <2>4, <2>5 DEF Come
  <2>7. Numbered(offer)' /\ work'.chosen \subseteq DOMAIN offer'
    BY <2>2, <2>3, <2>4 DEF DiscoveryInv, Numbered
  <2> QED
    BY <2>2, <2>4, <2>6, <2>7 DEF DiscoveryInv
<1>4. CASE InsertChosen /\ work.next \in work.chosen
  BY <1>4, ChosenInserted
<1>5. CASE InsertChosen /\ work.next \notin work.chosen
  <2>1. work' = [work EXCEPT !.next = work.next + 1] /\ work.at = "inserting"
        /\ UNCHANGED <<rows, mine, offer>>
    BY <1>5 DEF InsertChosen
  <2>2. /\ work \in Works /\ work' \in Works /\ work'.chosen = work.chosen
        /\ work'.next = work.next + 1 /\ work'.at = work.at
        /\ work'.inserted = work.inserted /\ work'.skipped = work.skipped
    BY <2>1 DEF DiscoveryInv, Works
  <2>3. \A n \in work.chosen : n < work'.next <=> n < work.next
    BY <1>5, <2>2 DEF Works
  <2>4. Come' = Come
    BY <2>1, <2>2, <2>3 DEF Come
  <2>5. Numbered(offer)'
    BY <2>1 DEF DiscoveryInv, Numbered
  <2> QED
    BY <2>1, <2>2, <2>4, <2>5 DEF DiscoveryInv
<1>6. CASE UNCHANGED discoveryVars
  BY <1>6 DEF discoveryVars, DiscoveryInv, Come, Numbered
<1> QED
  BY <1>1, <1>2, <1>3, <1>4, <1>5, <1>6 DEF DiscoveryNext

\* A discovery run writes exactly the chosen candidates it has come to, less
\* those somebody else added first, no two that say the same thing, and its two
\* counters add up (_prepare_candidates, _insert_selected), for any candidates
\* and any number of other programs.
THEOREM CountersTrue == DiscoverySpec => []WritesTheChosen
<1>1. DiscoveryInv => WritesTheChosen
  <2> SUFFICES ASSUME DiscoveryInv PROVE WritesTheChosen
    OBVIOUS
  <2>1. \A s \in mine : \E i \in DOMAIN offer : s = offer[i]
    BY DEF DiscoveryInv, Come
  <2>2. \A s, u \in mine : Norm[s] = Norm[u] => s = u
    BY <2>1 DEF DiscoveryInv, Numbered
  <2> QED
    BY <2>2 DEF DiscoveryInv, WritesTheChosen, Come
<1> QED
  BY <1>1, DiscoveryStart, DiscoveryStep, PTL DEF DiscoverySpec
=============================================================================
