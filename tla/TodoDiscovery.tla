--------------------------- MODULE TodoDiscovery ---------------------------
(***************************************************************************)
(* tools/discover_todos.py: candidates for new todos are collected once,   *)
(* shown with their numbers, and the chosen ones are inserted one by one.  *)
(* Meanwhile other programs add and close rows.  A text is known by its    *)
(* spelling; Norm gives what _normalize makes of it.  The unique index is  *)
(* on the spelling, the program's own duplicate check on the norm.         *)
(***************************************************************************)
EXTENDS Naturals, Sequences, FiniteSets

CONSTANTS Spellings,
          Norm,        \* Norm[s] is what _normalize makes of s
          Supplied,    \* what the agent's file or the heuristics may offer
          Limit,
          MaxOthers    \* bound: rows others add or close

ASSUME DiscoveryAssumption ==
    /\ Supplied \subseteq Seq(Spellings) /\ DOMAIN Norm = Spellings
    /\ Limit \in Nat /\ MaxOthers \in Nat

VARIABLES rows,      \* rows, open or closed: a closed one keeps its place in the index
          offer,   \* the candidates as numbered on the screen
          work,    \* [at, chosen, next, inserted, skipped]
          mine,    \* history: rows this run has written
          others

discoveryVars == <<rows, offer, work, mine, others>>

DiscoveryInit ==
    /\ rows \in {{}} \cup {{s} : s \in Spellings}
    /\ offer = <<>> /\ mine = {} /\ others = 0
    /\ work = [at |-> "start", chosen |-> {}, next |-> 1, inserted |-> 0, skipped |-> 0]

OthersAdd ==
    /\ others < MaxOthers /\ others' = others + 1
    /\ \E s \in Spellings \ rows : rows' = rows \cup {s}
    /\ UNCHANGED <<offer, work, mine>>

\* Mutant: only equal spellings are taken for duplicates.
FirstOfNorm_Spelling(q) == {i \in DOMAIN q : \A j \in 1..i - 1 : q[j] # q[i]}

\* _prepare_candidates keeps the first of each norm, and Limit of them at most;
\* likeness to an open row only marks a candidate.
FirstOfNorm(q) == {i \in DOMAIN q : \A j \in 1..i - 1 : Norm[q[j]] # Norm[q[i]]}

\* c numbers the candidates kept, in the order they came; the set has one member.
Prepared(q) ==
    LET first == FirstOfNorm(q)
        kept  == IF Cardinality(first) < Limit THEN Cardinality(first) ELSE Limit
    IN  {[k \in 1..kept |-> q[c[k]]] :
           c \in {c \in [1..kept -> first] :
                    /\ \A k, m \in 1..kept : k < m => c[k] < c[m]
                    /\ \A i \in first : \A k \in 1..kept : i < c[k] => \E m \in 1..k - 1 : c[m] = i}}

PrepareOffer ==
    /\ work.at = "start"
    /\ \E q \in Supplied : offer' \in Prepared(q)
    /\ work' = [work EXCEPT !.at = IF offer' = <<>> THEN "done" ELSE "shown"]
    /\ UNCHANGED <<rows, mine, others>>

\* --yes takes all; otherwise the answer names numbers, those out of range are
\* ignored.  Without --apply, on a "no" or an empty choice nothing is written.
Select ==
    /\ work.at = "shown"
    /\ \E chosen \in SUBSET (1..Len(offer)) :
         work' = [work EXCEPT !.chosen = chosen,
                              !.at = IF chosen = {} THEN "done" ELSE "inserting"]
    /\ UNCHANGED <<rows, offer, mine, others>>

\* _insert_selected: add_todo in its own transaction; IntegrityError from the
\* unique index counts as skipped.
InsertChosen ==
    LET text == offer[work.next]
        new  == text \notin rows
    IN  /\ work.at = "inserting" /\ work.next \in DOMAIN offer
        /\ IF work.next \notin work.chosen
           THEN work' = [work EXCEPT !.next = @ + 1] /\ UNCHANGED <<rows, mine>>
           ELSE /\ rows' = rows \cup {text}
                /\ mine' = IF new THEN mine \cup {text} ELSE mine
                /\ work' = [work EXCEPT !.next = @ + 1,
                              !.inserted = IF new THEN @ + 1 ELSE @,
                              !.skipped = IF new THEN @ ELSE @ + 1]
        /\ UNCHANGED <<offer, others>>

DiscoveryNext == OthersAdd \/ PrepareOffer \/ Select \/ InsertChosen

DiscoverySpec == DiscoveryInit /\ [][DiscoveryNext]_discoveryVars

-----------------------------------------------------------------------------
\* At every moment this run has written exactly the chosen candidates it has
\* come to, less those somebody else had added first; the two counters it will
\* print add up to them, and no two rows it wrote say the same thing.
WritesTheChosen ==
    LET come == {offer[i] : i \in {n \in work.chosen : n < work.next}}
    IN  /\ mine \subseteq come /\ come \subseteq rows
        /\ work.inserted = Cardinality(mine)
        /\ work.inserted + work.skipped = Cardinality(come)
        /\ \A s, u \in mine : Norm[s] = Norm[u] => s = u
=============================================================================
