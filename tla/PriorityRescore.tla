-------------------------- MODULE PriorityRescore --------------------------
(***************************************************************************)
(* Who changes the priority of a todo: Tyler through the portal and the    *)
(* agent through the MCP server, one row at a time, and the two programs   *)
(* that score all open rows anew, weekly_priority_rescore.py and           *)
(* bulk_score_todos.py.  A rescorer reads the open rows once and writes    *)
(* row after row without looking again; each write is one transaction of   *)
(* update_priority, with its row of priority_history.  A text stands for   *)
(* what score_priority sees of it, Score for that function: it depends on  *)
(* nothing else and never leaves 1..10.                                    *)
(***************************************************************************)
EXTENDS Naturals, Sequences

CONSTANTS Todos, Texts,
          Score,       \* Score[x] for each text
          Priorities,  \* priorities people choose
          Rescorers,
          MaxWrites    \* bound: what people write, in all

VARIABLES todo,     \* [open, text, priority, version] of each row
          history,  \* priority_history of each row, oldest first
          known,    \* the version of each row the agent read last
          run,      \* what each rescorer is doing
          writes

rescoreVars == <<todo, history, known, run, writes>>

\* seen: the rows read; ahead: those still to write; touched: history variable,
\* rows somebody else has written since they were read
NotRescoring == [at |-> "off", kind |-> "weekly", seen |-> todo, ahead |-> {}, touched |-> {}]

RescoreInit ==
    /\ \E texts \in [Todos -> Texts], p \in Priorities :
         todo = [t \in Todos |-> [open |-> TRUE, text |-> texts[t], priority |-> p, version |-> 1]]
    /\ history = [t \in Todos |-> <<>>]
    /\ known = [t \in Todos |-> 1]
    /\ run = [r \in Rescorers |-> NotRescoring]
    /\ writes = 0

Touched(t, r, runs) ==
    [q \in Rescorers |-> IF q = r THEN runs[q] ELSE [runs[q] EXCEPT !.touched = @ \cup {t}]]
Write == writes < MaxWrites /\ writes' = writes + 1

\* update_priority: the row whether open or not, and its history.
Update(t, p) ==
    /\ todo' = [todo EXCEPT ![t].priority = p, ![t].version = @ + 1]
    /\ history' = [history EXCEPT ![t] = Append(@, p)]
Stale(t) == known[t] # todo[t].version

-----------------------------------------------------------------------------
PortalPriority(t, p) ==
    /\ Write /\ Update(t, p)
    /\ run' = Touched(t, "portal", run) /\ UNCHANGED known

\* Mutant: the history row is written before the version is checked.
AgentPriority_HistoryFirst(t, p) ==
    /\ Write
    /\ \/ ~Stale(t) /\ Update(t, p) /\ run' = Touched(t, "agent", run)
       \/ /\ Stale(t) /\ history' = [history EXCEPT ![t] = Append(@, p)]
          /\ UNCHANGED <<todo, run>>
    /\ UNCHANGED known

\* todo.set_priority names the version it expects; a stale one is refused.
AgentPriority(t, p) ==
    /\ Write
    /\ \/ ~Stale(t) /\ Update(t, p) /\ run' = Touched(t, "agent", run)
       \/ Stale(t) /\ UNCHANGED <<todo, history, run>>
    /\ UNCHANGED known

AgentRead(t) ==
    /\ Stale(t) /\ known' = [known EXCEPT ![t] = todo[t].version]
    /\ UNCHANGED <<todo, history, run, writes>>

EditOrClose(t) ==
    /\ Write
    /\ \/ \E x \in Texts : todo' = [todo EXCEPT ![t].text = x, ![t].version = @ + 1]
       \/ todo[t].open /\ todo' = [todo EXCEPT ![t].open = FALSE, ![t].version = @ + 1]
    /\ run' = Touched(t, "people", run) /\ UNCHANGED <<history, known>>

-----------------------------------------------------------------------------
NewPriority(r, t) == Score[run[r].seen[t].text]
\* Mutant: a rescorer only ever raises a priority.
Changed_Raised(r, t) == NewPriority(r, t) > run[r].seen[t].priority
Changed(r, t) == NewPriority(r, t) # run[r].seen[t].priority

\* get_open_todos; the bulk tool may be limited to some of the rows.
ReadRows(r, kind) ==
    /\ run[r].at = "off"
    /\ \E rows \in SUBSET {t \in Todos : todo[t].open} :
         /\ kind = "weekly" => rows = {t \in Todos : todo[t].open}
         /\ run' = [run EXCEPT ![r] = [at |-> IF kind = "weekly" THEN "applying" ELSE "scoring",
                                       kind |-> kind, seen |-> todo, ahead |-> rows,
                                       touched |-> {t \in Todos : t \notin rows}]]
    /\ UNCHANGED <<todo, history, known, writes>>

\* The bulk tool previews; without --apply, or when nothing changes, or when
\* the answer is not APPLY, it ends there.
Preview(r) ==
    /\ run[r].at = "scoring"
    /\ \/ run' = [run EXCEPT ![r].at = "previewed"]
       \/ /\ \E t \in run[r].ahead : Changed(r, t)
          /\ run' = [run EXCEPT ![r].at = "applying"]
    /\ UNCHANGED <<todo, history, known, writes>>

Rescore(r, t) ==
    /\ run[r].at = "applying" /\ t \in run[r].ahead
    /\ \/ Changed(r, t) /\ Update(t, NewPriority(r, t))
       \/ ~Changed(r, t) /\ UNCHANGED <<todo, history>>
    /\ LET runs == [run EXCEPT ![r].ahead = @ \ {t}]
       IN  run' = IF Changed(r, t) THEN Touched(t, r, runs) ELSE runs
    /\ UNCHANGED <<known, writes>>

\* A write that fails ends the weekly run; the bulk tool goes on.
RescoreFails(r, t) ==
    /\ run[r].at = "applying" /\ t \in run[r].ahead /\ Changed(r, t)
    /\ run' = IF run[r].kind = "weekly" THEN [run EXCEPT ![r].at = "failed"]
              ELSE [run EXCEPT ![r].ahead = @ \ {t}, ![r].touched = @ \cup {t}]
    /\ UNCHANGED <<todo, history, known, writes>>

RescoreNext ==
    \/ \E t \in Todos : EditOrClose(t) \/ AgentRead(t)
    \/ \E t \in Todos, p \in Priorities : PortalPriority(t, p) \/ AgentPriority(t, p)
    \/ \E r \in Rescorers :
         \/ Preview(r) \/ \E kind \in {"weekly", "bulk"} : ReadRows(r, kind)
         \/ \E t \in Todos : Rescore(r, t) \/ RescoreFails(r, t)

RescoreSpec == RescoreInit /\ [][RescoreNext]_rescoreVars

-----------------------------------------------------------------------------
\* A run that has written its last row leaves every row it read with the score
\* of its text, except those that somebody else wrote after the run read them
\* or whose own write failed.
RescoredUnlessTouched ==
    \A r \in Rescorers :
        (run[r].at = "applying" /\ run[r].ahead = {}) =>
            \A t \in Todos \ run[r].touched : todo[t].priority = Score[todo[t].text]

\* The newest history row of a todo is its priority, whoever wrote it last and
\* however the versioned and the blind writes interleave: what _is_stale and
\* the audit read is what is in force.
HistoryIsInForce ==
    \A t \in Todos : history[t] # <<>> => history[t][Len(history[t])] = todo[t].priority
=============================================================================
