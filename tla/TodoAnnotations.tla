--------------------------- MODULE TodoAnnotations ---------------------------
(***************************************************************************)
(* What is attached to a todo: the feature request it belongs to, kept     *)
(* twice (a column of its row and a row of todo_fr_links), and its         *)
(* decision metadata, kept twice too (the current assessment and the       *)
(* append-only list of all of them).  The priority guidance reads the      *)
(* todo and its current assessment through two connections.                *)
(***************************************************************************)
EXTENDS Naturals, Sequences
LOCAL INSTANCE Functions

CONSTANTS Rows,        \* ids of todos
          Root, FRs,
          Levels,      \* priorities
          Offers,      \* metadata that callers send: [scores, evidence, category]
          Readers,     \* callers of todo.priority_guidance
          MaxAssessments, MaxAsks, NoValue

VARIABLES info,     \* [here, fr, priority] of each row of todos
          links,    \* the feature requests in todo_fr_links, for each todo
          current,  \* todo_decision_metadata
          assessed, \* todo_decision_assessments, oldest first
          guide     \* what each reader has read, and the answer

annotationVars == <<info, links, current, assessed, guide>>

\* asks and since: history variables, requests made and the assessments there
\* were when the current one began
Quiet == [at |-> "off", todo |-> Root, priority |-> 0, recommended |-> NoValue,
          since |-> 0, asks |-> 0]

\* Rows of earlier versions may carry a feature request without a link.
AnnotationInit ==
    /\ \E f \in FRs \cup {NoValue}, p \in Levels :
         info = [t \in Rows |-> [here |-> t = Root, fr |-> f, priority |-> p]]
    /\ links = [t \in Rows |-> {}]
    /\ current = [t \in Rows |-> NoValue]
    /\ assessed = [t \in Rows |-> <<>>]
    /\ guide = [r \in Readers |-> Quiet]

-----------------------------------------------------------------------------
\* Mutant: a second feature request replaces the first in the row.
LinkToFr_Overwrites(t, f) ==
    /\ info[t].here /\ info[t].fr # f
    /\ info' = [info EXCEPT ![t].fr = f]
    /\ links' = [links EXCEPT ![t] = @ \cup {f}]
    /\ UNCHANGED <<current, assessed, guide>>

\* link_todo_to_fr, after the confirmation asked by the MCP server: only a
\* row without a feature request takes one, and both tables change at once.
LinkToFr(t, f) ==
    /\ info[t].here /\ info[t].fr = NoValue
    /\ info' = [info EXCEPT ![t].fr = f]
    /\ links' = [links EXCEPT ![t] = @ \cup {f}]
    /\ UNCHANGED <<current, assessed, guide>>

\* decompose_todo, which may decline to inherit, and create_children_batch.
CreateChild(parent, t) ==
    /\ info[parent].here /\ ~info[t].here
    /\ \E f \in {NoValue, info[parent].fr} :
         /\ info' = [info EXCEPT ![t] = [here |-> TRUE, fr |-> f, priority |-> info[parent].priority]]
         /\ links' = [links EXCEPT ![t] = {f} \ {NoValue}]
    /\ UNCHANGED <<current, assessed, guide>>

UpdatePriority(t, p) ==
    /\ info[t].here /\ info[t].priority # p
    /\ info' = [info EXCEPT ![t].priority = p]
    /\ UNCHANGED <<links, current, assessed, guide>>

Impact(m) == CHOOSE n \in {m.scores[k] : k \in DOMAIN m.scores} :
                \A k \in DOMAIN m.scores : m.scores[k] <= n

\* Scores of 1 to 10; an impact of 8 needs evidence, one of 9 two items.
Valid(m) ==
    /\ \A k \in DOMAIN m.scores : m.scores[k] \in 1..10
    /\ m.category
    /\ Impact(m) >= 8 => m.evidence >= 1
    /\ Impact(m) >= 9 => m.evidence >= 2

\* Mutant: the row of the current assessment is only ever inserted.
SetMetadata_KeepsFirst(t, m) ==
    /\ info[t].here /\ Valid(m) /\ Len(assessed[t]) < MaxAssessments
    /\ current' = [current EXCEPT ![t] = IF @ = NoValue THEN m ELSE @]
    /\ assessed' = [assessed EXCEPT ![t] = Append(@, m)]
    /\ UNCHANGED <<info, links, guide>>

\* set_decision_metadata: the current row is replaced, the list grows.
SetMetadata(t, m) ==
    /\ info[t].here /\ Valid(m) /\ Len(assessed[t]) < MaxAssessments
    /\ current' = [current EXCEPT ![t] = m]
    /\ assessed' = [assessed EXCEPT ![t] = Append(@, m)]
    /\ UNCHANGED <<info, links, guide>>

-----------------------------------------------------------------------------
\* round(mean of the five scores): with five terms there is no tie to break.
Recommended(m) == (2 * FoldFunction(+, 0, m.scores) + 5) \div 10

\* get_priority_guidance, first connection: the todo.
AskGuidance(r, t) ==
    /\ guide[r].at # "asked" /\ guide[r].asks < MaxAsks /\ info[t].here
    /\ guide' = [guide EXCEPT ![r] = [at |-> "asked", todo |-> t, priority |-> info[t].priority,
                                      recommended |-> NoValue, since |-> Len(assessed[t]),
                                      asks |-> @.asks + 1]]
    /\ UNCHANGED <<info, links, current, assessed>>

\* Second connection: its current assessment, whatever has happened meanwhile.
AnswerGuidance(r) ==
    /\ guide[r].at = "asked"
    /\ LET m == current[guide[r].todo]
       IN guide' = [guide EXCEPT ![r].at = "answered",
                                 ![r].recommended = IF m = NoValue THEN NoValue ELSE Recommended(m)]
    /\ UNCHANGED <<info, links, current, assessed>>

AnnotationNext ==
    \/ \E t \in Rows : \/ \E f \in FRs : LinkToFr(t, f)
                       \/ \E p \in Rows : CreateChild(p, t)
                       \/ \E p \in Levels : UpdatePriority(t, p)
                       \/ \E m \in Offers : SetMetadata(t, m)
    \/ \E r \in Readers : AnswerGuidance(r) \/ \E t \in Rows : AskGuidance(r, t)

AnnotationSpec == AnnotationInit /\ [][AnnotationNext]_annotationVars

-----------------------------------------------------------------------------
\* The two records of a todo's feature request agree, whoever linked it and
\* whatever its parent carried: a link row names the feature request of the
\* row, and only a row of an earlier version has one without a link
\* (link_todo_to_fr, decompose_todo, create_children_batch).
LinksAgree ==
    \A t \in Rows : info[t].here =>
        /\ links[t] \subseteq {info[t].fr} \ {NoValue}
        /\ links[t] = {} /\ info[t].fr # NoValue => t = Root

\* Guidance is computed from an assessment at least as recent as the newest
\* one there was when the request came in, although the assessment is read
\* after the todo and assessments are replaced in between
\* (get_priority_guidance, set_decision_metadata).
GuidanceIsRecent ==
    \A r \in Readers : LET g == guide[r] IN
        g.at = "answered" =>
            \/ g.since = 0 /\ g.recommended = NoValue
            \/ \E k \in 1..Len(assessed[g.todo]) :
                 k >= g.since /\ g.recommended = Recommended(assessed[g.todo][k])
=============================================================================
