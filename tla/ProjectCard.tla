---------------------------- MODULE ProjectCard ----------------------------
(***************************************************************************)
(* How the portal builds the card of one project: gather_project_status    *)
(* reads the database several times, each time on its own connection, and  *)
(* build_todo_hierarchy nests the rows it found (executive_audio_brief.py).*)
(* Rows are closed, with their subtree, and added between the reads, so    *)
(* one card is made of several versions of the table.  Readiness, the      *)
(* done count and the lifecycle label only change how a row looks.         *)
(***************************************************************************)
EXTENDS Naturals, FiniteSets

CONSTANTS MaxId,      \* ids are handed out upwards, a child after its parent
          Projects,   \* the card is made for Home
          Home,
          MaxChanges  \* bound: what other programs do during the gather

ASSUME CardAssumption == MaxId \in Nat /\ Home \in Projects

Ids == 1..MaxId

VARIABLES line,      \* [state, project, parent] of each id, parent 0 for none
          card,      \* [at, open, allOpen, allDone]: what has been read
          changes

cardVars == <<line, card, changes>>

State(s) == {x \in Ids : line[x].state = s}

CardInit ==
    /\ line \in [Ids -> [state : {"absent", "open", "done"}, project : Projects, parent : 0..MaxId - 1]]
    /\ \A x \in Ids : /\ line[x].parent < x
                      /\ line[x].state = "absent" => /\ line[x].parent = 0 /\ line[x].project = Home
                                                    /\ \A y \in x..MaxId : line[y].state = "absent"
    /\ card = [at |-> "open", open |-> {}, allOpen |-> {}, allDone |-> {}, seen |-> State("open")]
    /\ changes = 0

Change == changes < MaxChanges /\ changes' = changes + 1

Chain == LET up[x \in 0..MaxId] == IF x = 0 THEN {} ELSE {x} \cup up[line[x].parent] IN up

\* The ancestors close_todo_tree closes after the tree of x: going up, each open
\* one with no open child left.  The walk passes rows that are done, or stops
\* where one of them ended neither completed nor cancelled.
Walks(x) ==
    {above \in SUBSET (Chain[line[x].parent] \cap State("open")) :
        \A y \in State("open") \ above : x \notin Chain[y] =>
            line[y].parent \notin above /\ (y \in Chain[x] => Chain[y] \cap above = {})}

\* close_todo_tree and the inserts, by whoever; seen is a history variable:
\* the rows that were open at some moment of the gather.
CloseTree(x) ==
    /\ line[x].state = "open" /\ Change
    /\ \E above \in Walks(x) :
          line' = [y \in Ids |->
                     IF line[y].state = "open" /\ (x \in Chain[y] \/ y \in above)
                     THEN [line[y] EXCEPT !.state = "done"] ELSE line[y]]
    /\ UNCHANGED card

AddRow(x) ==
    /\ line[x].state = "absent" /\ \A y \in 1..x - 1 : line[y].state # "absent"
    /\ Change
    /\ \E p \in 0..x - 1, project \in Projects :
         line' = [line EXCEPT ![x] = [state |-> "open", project |-> project, parent |-> p]]
    /\ card' = [card EXCEPT !.seen = @ \cup {x}]

\* get_open_todos(key): the rows the card must show.
ReadOpen ==
    /\ card.at = "open"
    /\ card' = [card EXCEPT !.at = "all",
                            !.open = {x \in State("open") : line[x].project = Home}]
    /\ UNCHANGED <<line, changes>>

\* get_open_todos() + get_done_todos(): where parents are looked up.
ReadAllOpen ==
    /\ card.at = "all"
    /\ card' = [card EXCEPT !.at = "done", !.allOpen = State("open")]
    /\ UNCHANGED <<line, changes>>

ReadAllDone ==
    /\ card.at = "done"
    /\ card' = [card EXCEPT !.at = "built", !.allDone = State("done")]
    /\ UNCHANGED <<line, changes>>

CardNext == ReadOpen \/ ReadAllOpen \/ ReadAllDone \/ \E x \in Ids : CloseTree(x) \/ AddRow(x)

CardSpec == CardInit /\ [][CardNext]_cardVars

-----------------------------------------------------------------------------
\* rows_by_id: a row that is in both lists was closed in between, and counts
\* as done.
ById == card.allOpen \cup card.allDone

\* parent_context: the chain of parents of every open row of the project, as
\* far as their rows were found.
Upwards[x \in 0..MaxId] ==
    IF x = 0 \/ x \notin ById THEN {} ELSE {x} \cup Upwards[line[x].parent]
Context ==
    UNION {Upwards[line[x].parent] : x \in card.open}

\* Mutant: closed parents stay on the card.
Shown_KeepsDone == card.open \cup Context

\* build_todo_hierarchy drops done rows, nests a row under its parent when the
\* parent is there, and shows the others at the top.
Shown == card.open \cup (Context \ card.allDone)
Nested == {x \in Shown : line[x].parent \in Shown}

\* How often each row appears on the card.
Rendered[x \in Ids] ==
    IF x \notin Shown THEN 0 ELSE IF x \in Nested THEN Rendered[line[x].parent] ELSE 1

\* Whatever happened between the reads, the card shows every row that was open
\* in the project when the gather began, each exactly once, nothing that was
\* closed all along, and every row under its parent if that is still open.
CardComplete ==
    card.at = "built" =>
        /\ \A x \in card.open : Rendered[x] = 1
        /\ \A x \in Ids : Rendered[x] > 0 => x \in card.seen
        /\ \A x \in Shown : line[x].parent \in State("open") => x \in Nested
=============================================================================
