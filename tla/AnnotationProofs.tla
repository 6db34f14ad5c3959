-------------------------- MODULE AnnotationProofs --------------------------
(***************************************************************************)
(* The feature requests and assessments of todos, for any number of todos, *)
(* callers and assessments.                                                *)
(***************************************************************************)
EXTENDS TodoAnnotations, TLAPS

\* The missing value is no feature request and no metadata.
Distinct == NoValue \notin FRs /\ NoValue \notin Offers /\ Root \in Rows

Info  == [here : BOOLEAN, fr : FRs \cup {NoValue}, priority : Levels]
Guide == [at : {"off", "asked", "answered"}, todo : Rows, priority : Levels \cup {0},
          recommended : {NoValue} \cup {Recommended(m) : m \in Offers},
          since : Nat, asks : Nat]
Typed ==
    /\ info \in [Rows -> Info]
    /\ links \in [Rows -> SUBSET FRs]
    /\ assessed \in [Rows -> Seq(Offers)]
    /\ DOMAIN current = Rows
    /\ guide \in [Readers -> Guide]

\* The current assessment is the newest of the list.
CurrentIsNewest ==
    \A t \in Rows : current[t] = IF assessed[t] = <<>> THEN NoValue
                                  ELSE assessed[t][Len(assessed[t])]

\* A request counts assessments that are in the list.
SinceCounted ==
    \A r \in Readers : guide[r].since <= Len(assessed[guide[r].todo])

Inv == Typed /\ CurrentIsNewest /\ SinceCounted /\ LinksAgree /\ GuidanceIsRecent

\* The tables of an earlier version: feature requests, no links, no assessment.
LEMMA InitInv == ASSUME Distinct PROVE AnnotationInit => Inv
<1> SUFFICES ASSUME AnnotationInit PROVE Inv
  OBVIOUS
<1>1. PICK f \in FRs \cup {NoValue}, p \in Levels :
        info = [t \in Rows |-> [here |-> t = Root, fr |-> f, priority |-> p]]
  BY DEF AnnotationInit
<1>2. \A t \in Rows : info[t].here => t = Root
  BY <1>1
<1>3. info \in [Rows -> Info]
  BY <1>1 DEF Info
<1>4. \A r \in Readers : guide[r].at = "off" /\ guide[r].todo = Root /\ guide[r].since = 0
  BY DEF AnnotationInit, Quiet
<1>5. \A t \in Rows : links[t] = {} /\ assessed[t] = <<>> /\ current[t] = NoValue
  BY DEF AnnotationInit
<1>6. Typed
  <2>1. Quiet \in Guide
    BY DEF Quiet, Guide, Distinct
  <2> QED BY <1>3, <2>1 DEF AnnotationInit, Typed
<1>7. CurrentIsNewest /\ LinksAgree
  BY <1>2, <1>5 DEF CurrentIsNewest, LinksAgree
<1>8. SinceCounted
  BY <1>4, <1>5 DEF SinceCounted, Distinct
<1>9. GuidanceIsRecent
  BY <1>4 DEF GuidanceIsRecent
<1> QED BY <1>6, <1>7, <1>8, <1>9 DEF Inv

\* Rows and links change together, nothing else does.
LEMMA RowKeeps ==
    ASSUME Inv, UNCHANGED <<current, assessed, guide>>,
           info' \in [Rows -> Info], links' \in [Rows -> SUBSET FRs], LinksAgree'
    PROVE  Inv'
  BY DEF Inv, Typed, CurrentIsNewest, SinceCounted, GuidanceIsRecent

\* A link is given to a row that has none, as its first.
LEMMA LinkKeeps ==
    ASSUME Distinct, Inv, NEW t \in Rows, NEW f \in FRs, LinkToFr(t, f) PROVE Inv'
<1>1. /\ info[t].here /\ info[t].fr = NoValue
      /\ info' = [info EXCEPT ![t].fr = f]
      /\ links' = [links EXCEPT ![t] = @ \cup {f}]
      /\ UNCHANGED <<current, assessed, guide>>
  BY DEF LinkToFr
<1>2. links[t] = {} /\ f # NoValue
  BY <1>1 DEF Inv, LinksAgree, Distinct
<1>3. /\ info' \in [Rows -> Info] /\ info'[t].fr = f /\ info'[t].here = info[t].here
      /\ \A u \in Rows : u # t => info'[u] = info[u]
  BY <1>1 DEF Inv, Typed, Info
<1>4. /\ links' \in [Rows -> SUBSET FRs] /\ links'[t] = {f}
      /\ \A u \in Rows : u # t => links'[u] = links[u]
  BY <1>1, <1>2 DEF Inv, Typed
<1>5. LinksAgree'
  BY <1>2, <1>3, <1>4 DEF Inv, LinksAgree
<1> QED BY <1>1, <1>3, <1>4, <1>5, RowKeeps

\* A child takes its parent's feature request with its link, or neither.
LEMMA ChildKeeps ==
    ASSUME Distinct, Inv, NEW t \in Rows, NEW p \in Rows, CreateChild(p, t) PROVE Inv'
<1>1. PICK f \in {NoValue, info[p].fr} :
        /\ info' = [info EXCEPT ![t] = [here |-> TRUE, fr |-> f, priority |-> info[p].priority]]
        /\ links' = [links EXCEPT ![t] = {f} \ {NoValue}]
  BY DEF CreateChild
<1>2. f \in FRs \cup {NoValue} /\ info[p].priority \in Levels
  BY DEF Inv, Typed, Info
<1>3. /\ info' \in [Rows -> Info] /\ info'[t].fr = f
      /\ \A u \in Rows : u # t => info'[u] = info[u]
  BY <1>1, <1>2 DEF Inv, Typed, Info
<1>4. {f} \ {NoValue} \in SUBSET FRs
  BY <1>2
<1>5. /\ links' \in [Rows -> SUBSET FRs] /\ links'[t] = {f} \ {NoValue}
      /\ \A u \in Rows : u # t => links'[u] = links[u]
  BY <1>1, <1>4 DEF Inv, Typed
<1>6. LinksAgree'
  BY <1>2, <1>3, <1>5 DEF Inv, LinksAgree
<1> QED BY <1>3, <1>5, <1>6, RowKeeps DEF CreateChild

\* A priority changes neither the feature request nor the links.
LEMMA PriorityKeeps ==
    ASSUME Inv, NEW t \in Rows, NEW p \in Levels, UpdatePriority(t, p) PROVE Inv'
<1>1. info' = [info EXCEPT ![t].priority = p] /\ UNCHANGED <<links, current, assessed, guide>>
  BY DEF UpdatePriority
<1>2. /\ info' \in [Rows -> Info]
      /\ \A u \in Rows : info'[u].here = info[u].here /\ info'[u].fr = info[u].fr
  BY <1>1 DEF Inv, Typed, Info
<1>3. links' \in [Rows -> SUBSET FRs] /\ LinksAgree'
  BY <1>1, <1>2 DEF Inv, Typed, LinksAgree
<1> QED BY <1>1, <1>2, <1>3, RowKeeps

\* The list grows and the current assessment is its last: what was recent
\* enough for an answer remains in the list at its place.
LEMMA MetadataKeeps ==
    ASSUME Inv, NEW t \in Rows, NEW m \in Offers, SetMetadata(t, m) PROVE Inv'
<1>1. /\ current' = [current EXCEPT ![t] = m]
      /\ assessed' = [assessed EXCEPT ![t] = Append(@, m)]
      /\ UNCHANGED <<info, links, guide>>
  BY DEF SetMetadata
<1>2. /\ assessed[t] \in Seq(Offers) /\ assessed'[t] = Append(assessed[t], m)
      /\ \A u \in Rows : u # t => assessed'[u] = assessed[u]
  BY <1>1 DEF Inv, Typed
<1>3. /\ assessed'[t] \in Seq(Offers) /\ Len(assessed'[t]) = Len(assessed[t]) + 1
      /\ assessed'[t] # <<>> /\ assessed'[t][Len(assessed'[t])] = m
      /\ \A k \in 1..Len(assessed[t]) : assessed'[t][k] = assessed[t][k]
  BY <1>2
<1>4. assessed' \in [Rows -> Seq(Offers)]
  BY <1>1, <1>3 DEF Inv, Typed
<1>5. CurrentIsNewest'
  <2>1. current'[t] = m /\ \A u \in Rows : u # t => current'[u] = current[u]
    BY <1>1 DEF Inv, Typed
  <2> QED BY <1>2, <1>3, <2>1 DEF Inv, CurrentIsNewest
<1>6. \A u \in Rows : /\ Len(assessed[u]) \in Nat /\ Len(assessed'[u]) \in Nat
                      /\ Len(assessed[u]) <= Len(assessed'[u])
                      /\ \A k \in 1..Len(assessed[u]) : assessed'[u][k] = assessed[u][k]
  <2> TAKE u \in Rows
  <2>1. assessed[u] \in Seq(Offers)
    BY DEF Inv, Typed
  <2>2. CASE u = t
    BY <1>2, <1>3, <2>2
  <2>3. CASE u # t
    BY <1>2, <2>1, <2>3
  <2> QED BY <2>2, <2>3
<1>7. SinceCounted'
  BY <1>1, <1>6 DEF Inv, Typed, Guide, SinceCounted
<1>8. GuidanceIsRecent'
  <2> SUFFICES ASSUME NEW r \in Readers, guide[r].at = "answered",
                      ~(guide[r].since = 0 /\ guide[r].recommended = NoValue)
               PROVE  \E k \in 1..Len(assessed'[guide[r].todo]) :
                        /\ k >= guide[r].since
                        /\ guide[r].recommended = Recommended(assessed'[guide[r].todo][k])
    BY <1>1 DEF GuidanceIsRecent
  <2> DEFINE u == guide[r].todo
  <2>1. PICK k \in 1..Len(assessed[u]) :
          k >= guide[r].since /\ guide[r].recommended = Recommended(assessed[u][k])
    BY DEF Inv, GuidanceIsRecent
  <2>2. u \in Rows
    BY DEF Inv, Typed, Guide
  <2>3. k \in 1..Len(assessed'[u]) /\ assessed'[u][k] = assessed[u][k]
    BY <1>6, <2>2
  <2> QED BY <2>1, <2>3
<1> QED BY <1>1, <1>4, <1>5, <1>7, <1>8 DEF Inv, Typed, LinksAgree

\* A request begins with as many assessments as there are.
LEMMA AskKeeps ==
    ASSUME Inv, NEW r \in Readers, NEW t \in Rows, AskGuidance(r, t) PROVE Inv'
<1>1. UNCHANGED <<info, links, current, assessed>>
  BY DEF AskGuidance
<1>2. Len(assessed[t]) \in Nat
  BY DEF Inv, Typed
<1>3. info[t].here /\ guide[r].asks + 1 \in Nat /\ info[t].priority \in Levels
  BY DEF AskGuidance, Inv, Typed, Guide, Info
<1>4. /\ guide' \in [Readers -> Guide]
      /\ guide'[r].at = "asked" /\ guide'[r].todo = t /\ guide'[r].since = Len(assessed[t])
      /\ \A q \in Readers : q # r => guide'[q] = guide[q]
  BY <1>2, <1>3 DEF AskGuidance, Inv, Typed, Guide
<1>5. SinceCounted'
  BY <1>1, <1>2, <1>4 DEF Inv, SinceCounted
<1>6. GuidanceIsRecent'
  BY <1>1, <1>4 DEF Inv, GuidanceIsRecent
<1> QED BY <1>1, <1>4, <1>5, <1>6 DEF Inv, Typed, CurrentIsNewest, LinksAgree

\* The answer comes from the newest assessment there is.
LEMMA AnswerKeeps ==
    ASSUME Distinct, Inv, NEW r \in Readers, AnswerGuidance(r) PROVE Inv'
<1> DEFINE t == guide[r].todo
           answer == IF current[t] = NoValue THEN NoValue ELSE Recommended(current[t])
<1>1. UNCHANGED <<info, links, current, assessed>>
  BY DEF AnswerGuidance
<1>2. /\ t \in Rows /\ guide[r].since \in Nat /\ guide[r].since <= Len(assessed[t])
      /\ assessed[t] \in Seq(Offers) /\ guide[r] \in Guide
  BY DEF Inv, Typed, Guide, SinceCounted
<1>3. \/ assessed[t] = <<>> /\ current[t] = NoValue
      \/ /\ assessed[t] # <<>> /\ current[t] = assessed[t][Len(assessed[t])]
         /\ Len(assessed[t]) \in 1..Len(assessed[t]) /\ current[t] \in Offers
  BY <1>2 DEF Inv, CurrentIsNewest
<1>4. answer \in {NoValue} \cup {Recommended(m) : m \in Offers}
  BY <1>3
<1>5. \/ guide[r].since = 0 /\ answer = NoValue
      \/ \E k \in 1..Len(assessed[t]) : k >= guide[r].since /\ answer = Recommended(assessed[t][k])
  BY <1>2, <1>3 DEF Distinct
<1>6. guide' = [guide EXCEPT ![r].at = "answered", ![r].recommended = answer]
  BY DEF AnswerGuidance
<1> HIDE DEF answer
<1>7. /\ guide' \in [Readers -> Guide]
      /\ guide'[r].todo = t /\ guide'[r].since = guide[r].since /\ guide'[r].recommended = answer
      /\ \A q \in Readers : q # r => guide'[q] = guide[q]
  <2>1. guide'[r] = [guide[r] EXCEPT !.at = "answered", !.recommended = answer]
    BY <1>6 DEF Inv, Typed
  <2>2. /\ guide'[r] \in Guide /\ guide'[r].todo = t
        /\ guide'[r].since = guide[r].since /\ guide'[r].recommended = answer
    BY <1>2, <1>4, <2>1 DEF Guide
  <2>3. /\ \A q \in Readers : q # r => guide'[q] = guide[q]
        /\ guide' = [q \in Readers |-> guide'[q]]
    BY <1>6 DEF Inv, Typed
  <2> QED BY <2>2, <2>3 DEF Inv, Typed
<1>8. SinceCounted'
  BY <1>1, <1>7 DEF Inv, SinceCounted
<1>9. GuidanceIsRecent'
  BY <1>1, <1>5, <1>7 DEF Inv, GuidanceIsRecent
<1> QED BY <1>1, <1>7, <1>8, <1>9 DEF Inv, Typed, CurrentIsNewest, LinksAgree

\* One step of any caller.
LEMMA NextInv == ASSUME Distinct PROVE Inv /\ [AnnotationNext]_annotationVars => Inv'
<1>1. Inv /\ UNCHANGED annotationVars => Inv'
  BY DEF annotationVars, Inv, Typed, CurrentIsNewest, SinceCounted, LinksAgree, GuidanceIsRecent
<1> QED
  BY <1>1, LinkKeeps, ChildKeeps, PriorityKeeps, MetadataKeeps, AskKeeps, AnswerKeeps DEF AnnotationNext

\* The row of a todo and the table of links name the same feature request
\* (link_todo_to_fr, decompose_todo, create_children_batch).
THEOREM LinksInStep == ASSUME Distinct PROVE AnnotationSpec => []LinksAgree
<1>1. Inv => LinksAgree
  BY DEF Inv
<1> QED BY <1>1, InitInv, NextInv, PTL DEF AnnotationSpec

\* Guidance is never computed from an assessment that had been replaced before
\* it was asked for (get_priority_guidance, set_decision_metadata).
THEOREM GuidanceRecent == ASSUME Distinct PROVE AnnotationSpec => []GuidanceIsRecent
<1>1. Inv => GuidanceIsRecent
  BY DEF Inv
<1> QED BY <1>1, InitInv, NextInv, PTL DEF AnnotationSpec
=============================================================================
