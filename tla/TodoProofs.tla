------------------------------ MODULE TodoProofs ------------------------------
(***************************************************************************)
(* Proofs about the todo graph, for every number of rows and every initial *)
(* table.  The closing transaction is described by two closures, the tree  *)
(* below a row and the upward walk from it; the lemmas of the first part   *)
(* say where their members are.                                            *)
(***************************************************************************)
EXTENDS TodoGraph, WellFoundedInduction, TLAPS

(* The structural invariant: parents are older than their children, and    *)
(* rows that do not exist have no place in the forest.                     *)
Forest ==
  \A x \in Ids : /\ parent[x] \in Int /\ 0 <= parent[x] /\ parent[x] < x
                 /\ status[x] # "absent" => \A y \in 1..x : status[y] # "absent"
                 /\ status[x] = "absent" => parent[x] = 0

(* What the agent knows of a row it has read is true of the row while its  *)
(* version has not changed.                                                *)
AgentKnows ==
  agent.at # "idle" =>
    /\ agent.id \in Ids
    /\ status[agent.id] # "absent"
    /\ agent.version <= version[agent.id]
    /\ version[agent.id] = agent.version => edits[agent.id] = agent.edits

-----------------------------------------------------------------------------
(* Closures.                                                               *)

\* A row is in its own tree.
LEMMA SubtreeRoot == ASSUME NEW x \in Ids PROVE x \in Subtree(x)
  BY DEF Subtree

\* A tree contains the children of its members.
LEMMA SubtreeChild ==
  ASSUME NEW x \in Ids, NEW c \in Ids, parent[c] \in Subtree(x)
  PROVE  c \in Subtree(x)
  BY DEF Subtree

\* A tree is the least such set.
LEMMA SubtreeLeast ==
  ASSUME NEW x \in Ids, NEW S \in SUBSET Ids, x \in S,
         \A c \in Ids : parent[c] \in S => c \in S
  PROVE  Subtree(x) \subseteq S
  BY DEF Subtree

\* Every member of a tree but its root has its parent in the tree.
LEMMA SubtreeParent ==
  ASSUME NEW x \in Ids, NEW y \in Subtree(x), y # x, parent[y] \notin Subtree(x)
  PROVE  FALSE
<1> DEFINE S == Subtree(x) \ {y}
<1>1. S \in SUBSET Ids /\ x \in S
  BY SubtreeRoot DEF Subtree
<1>2. \A c \in Ids : parent[c] \in S => c \in S
  BY SubtreeChild
<1>3. Subtree(x) \subseteq S
  <2> HIDE DEF S
  <2> QED BY <1>1, <1>2, SubtreeLeast
<1> QED BY <1>3

\* Trees grow towards younger rows.
LEMMA SubtreeOrder ==
  ASSUME Forest, NEW x \in Ids, NEW y \in Subtree(x)
  PROVE  y \in Ids /\ y >= x
<1> DEFINE S == {z \in Ids : z >= x}
<1>1. x \in S /\ \A c \in Ids : parent[c] \in S => c \in S
  BY TodoAssumption DEF Forest, Ids
<1>2. Subtree(x) \subseteq S
  <2>1. S \in SUBSET Ids
    OBVIOUS
  <2> HIDE DEF S
  <2> QED BY <1>1, <2>1, SubtreeLeast
<1> QED BY <1>2

\* Siblings have disjoint trees.
LEMMA SiblingTrees ==
  ASSUME Forest, NEW b \in Ids, NEW c \in Ids, NEW d \in Ids,
         parent[c] = b, parent[d] = b, c # d
  PROVE  Subtree(c) \cap Subtree(d) = {}
<1> DEFINE S == Subtree(c) \ Subtree(d)
<1>1. b < c /\ b < d
  BY DEF Forest
<1>2. b \notin Subtree(c) /\ b \notin Subtree(d)
  BY <1>1, TodoAssumption, SubtreeOrder DEF Ids
<1>3. c \notin Subtree(d)
  BY <1>2, SubtreeParent
<1>4. S \in SUBSET Ids /\ c \in S
  BY <1>3, SubtreeRoot DEF Subtree
<1>5. ASSUME NEW e \in Ids, parent[e] \in S PROVE e \in S
  <2>1. e \in Subtree(c)
    BY <1>5, SubtreeChild
  <2>2. CASE e \in Subtree(d)
    <3>1. e # d
      BY <1>2, <1>5
    <3>2. parent[e] \in Subtree(d)
      BY <2>2, <3>1, SubtreeParent
    <3> QED BY <3>2, <1>5
  <2> QED BY <2>1, <2>2
<1>6. Subtree(c) \subseteq S
  <2> HIDE DEF S
  <2> QED BY <1>4, <1>5, SubtreeLeast
<1> QED BY <1>6

\* The walk continues from where it stands while it may climb.
LEMMA WalkClimbs ==
  ASSUME Forest, NEW x \in Ids, NEW z \in Walked(x) \cup {x}, Climbs(z)
  PROVE  parent[z] \in Walked(x)
<1>1. z \in Ids
  BY DEF Walked
<1>2. parent[z] \in Ids
  BY <1>1, TodoAssumption DEF Climbs, Forest, Ids
<1>3. ASSUME NEW S \in SUBSET Ids, \A w \in S \cup {x} : Climbs(w) => parent[w] \in S
      PROVE  parent[z] \in S
  <2>1. z \in S \cup {x}
    BY <1>3 DEF Walked
  <2> QED BY <2>1, <1>3
<1> QED BY <1>2, <1>3 DEF Walked

\* The walk goes nowhere else.
LEMMA WalkLeast ==
  ASSUME NEW x \in Ids, NEW S \in SUBSET Ids,
         \A w \in S \cup {x} : Climbs(w) => parent[w] \in S
  PROVE  Walked(x) \subseteq S
  BY DEF Walked

\* A row on the walk is an ancestor, not stale, and the walk came to it from
\* one of its children, which had no unfinished sibling.
LEMMA WalkAbove ==
  ASSUME Forest, NEW x \in Ids, NEW w \in Walked(x)
  PROVE  /\ w \in Ids /\ w < x
         /\ x \in Subtree(w)
         /\ status[w] # "stale"
         /\ \E z \in Walked(x) \cup {x} : z \in Ids /\ parent[z] = w /\ Climbs(z)
<1> DEFINE S == {v \in Walked(x) : /\ v < x
                                   /\ x \in Subtree(v)
                                   /\ status[v] # "stale"
                                   /\ \E z \in Walked(x) \cup {x} :
                                        z \in Ids /\ parent[z] = v /\ Climbs(z)}
<1>1. S \in SUBSET Ids
  BY DEF Walked
<1>2. ASSUME NEW v \in S \cup {x}, Climbs(v) PROVE parent[v] \in S
  <2>1. v \in Ids /\ v <= x /\ x \in Subtree(v)
    BY <1>1, TodoAssumption, SubtreeRoot DEF Ids
  <2>2. parent[v] \in Ids /\ parent[v] < v
    BY <2>1, <1>2, TodoAssumption DEF Climbs, Forest, Ids
  <2>3. parent[v] \in Walked(x)
    BY <1>2, WalkClimbs
  <2>4. v \in Subtree(parent[v])
    BY <2>1, <2>2, SubtreeRoot, SubtreeChild
  <2>5. Subtree(v) \subseteq Subtree(parent[v])
    <3>1. Subtree(parent[v]) \in SUBSET Ids
      BY DEF Subtree
    <3> QED BY <2>1, <2>2, <2>4, <3>1, SubtreeChild, SubtreeLeast
  <2>6. x \in Subtree(parent[v])
    BY <2>1, <2>5
  <2>7. parent[v] < x
    BY <2>1, <2>2, TodoAssumption DEF Ids
  <2>8. status[parent[v]] # "stale"
    BY <1>2 DEF Climbs
  <2> QED BY <1>2, <2>1, <2>3, <2>6, <2>7, <2>8
<1>3. Walked(x) \subseteq S
  <2> HIDE DEF S
  <2> QED BY <1>1, <1>2, WalkLeast
<1> QED BY <1>1, <1>3

-----------------------------------------------------------------------------
(* What closing a tree does.                                               *)

Changed(x) == OpenIn(Subtree(x)) \cup OpenIn(Walked(x))

\* The rows of the tree get the reason, the rows of the walk are completed,
\* and nothing else changes.
LEMMA CloseEffect ==
  ASSUME TypeOK, NEW x \in Ids, NEW how \in Finished, CloseTree(x, how)
  PROVE  /\ status' \in [Ids -> Status]
         /\ \A y \in OpenIn(Subtree(x)) : y \in Ids /\ status'[y] = how
         /\ \A y \in OpenIn(Walked(x)) : y \in Ids /\ status'[y] \in Finished
         /\ \A y \in Ids \ Changed(x) : status'[y] = status[y]
         /\ \A y \in Ids : status[y] # "open" => status'[y] = status[y]
         /\ parent' = parent /\ edits' = edits /\ edges' = edges
         /\ batches' = batches /\ answers' = answers /\ origin' = origin
<1> DEFINE tree == OpenIn(Subtree(x))
           walk == OpenIn(Walked(x))
<1>1. tree \subseteq Ids /\ walk \subseteq Ids
  BY DEF OpenIn, Subtree, Walked
<1>2. \A y \in tree \cup walk : status[y] = "open"
  BY DEF OpenIn
<1>3. status' = [y \in Ids |-> IF y \in tree THEN how
                               ELSE IF y \in walk /\ y > 0 THEN "completed"
                               ELSE status[y]]
  BY DEF CloseTree, ClosedUpTo
<1>4. how \in Status /\ "completed" \in Status /\ "completed" \in Finished
  BY DEF Status, Finished, Terminal
<1>5. \A y \in Ids : y > 0
  BY TodoAssumption DEF Ids
<1>6. status \in [Ids -> Status]
  BY DEF TypeOK
<1>7. Changed(x) = tree \cup walk
  BY DEF Changed
<1>8. /\ parent' = parent /\ edits' = edits /\ edges' = edges
      /\ batches' = batches /\ answers' = answers /\ origin' = origin
  BY DEF CloseTree
<1> HIDE DEF tree, walk
<1>9. status' \in [Ids -> Status]
  BY <1>3, <1>4, <1>6
<1>10. \A y \in tree : y \in Ids /\ status'[y] = how
  BY <1>1, <1>3
<1>11. \A y \in walk : y \in Ids /\ status'[y] \in Finished
  BY <1>1, <1>3, <1>4, <1>5
<1>12. \A y \in Ids \ Changed(x) : status'[y] = status[y]
  BY <1>3, <1>7
<1>13. \A y \in Ids : status[y] # "open" => status'[y] = status[y]
  BY <1>2, <1>3
<1> QED BY <1>8, <1>9, <1>10, <1>11, <1>12, <1>13 DEF tree, walk

\* A row that changes, and whose parent does not, lies between the root of the
\* closing and its oldest ancestor on the walk.
LEMMA ChangedEdge ==
  ASSUME Forest, NEW x \in Ids, status[x] = "open", NEW d \in Changed(x),
         parent[d] \notin Subtree(x)
  PROVE  d \in Walked(x) \cup {x} /\ x \in Subtree(d)
<1>1. CASE d \in Subtree(x)
  BY <1>1, SubtreeParent, SubtreeRoot
<1>2. CASE d \in Walked(x)
  BY <1>2, WalkAbove
<1> QED BY <1>1, <1>2 DEF Changed, OpenIn

\* Closing a tree leaves no parent behind: if the last unfinished child of an
\* open row closes, it was on the walk, and the walk went on to the row.
LEMMA CloseKeepsParents ==
  ASSUME TypeOK, Forest, NoParentLeftBehind, NEW x \in Ids, status[x] = "open",
         NEW how \in Finished, CloseTree(x, how)
  PROVE  NoParentLeftBehind'
<1> SUFFICES ASSUME NEW p \in Ids, LeftBehind(status', parent', p)
             PROVE  FALSE
  BY DEF NoParentLeftBehind
<1>1. parent' = parent
  BY CloseEffect
<1>2. status'[p] = "open" /\ \A c \in Ids : parent[c] = p => status'[c] \in Finished
  BY <1>1 DEF LeftBehind
<1>3. \E c \in Ids : parent[c] = p
  BY <1>1 DEF LeftBehind
<1>4. "open" \notin Finished
  BY DEF Finished
<1>5. p \notin OpenIn(Subtree(x)) /\ p \notin OpenIn(Walked(x))
  BY <1>2, <1>4, CloseEffect
<1>6. status[p] = "open"
  BY <1>2, <1>5, CloseEffect DEF Changed
<1>7. p \notin Subtree(x) /\ p \notin Walked(x)
  BY <1>5, <1>6 DEF OpenIn
<1>8. PICK d \in Ids : parent[d] = p /\ status[d] \notin Finished
  BY <1>3, <1>6 DEF NoParentLeftBehind, LeftBehind
<1>9. ASSUME NEW e \in Ids, parent[e] = p, status[e] \notin Finished
      PROVE  e \in Walked(x) \cup {x} /\ x \in Subtree(e)
  <2>1. status'[e] # status[e]
    BY <1>2, <1>9
  <2>2. e \in Changed(x)
    BY <2>1, CloseEffect
  <2> QED BY <2>2, <1>7, <1>9, ChangedEdge
<1>10. ~Climbs(d)
  BY <1>7, <1>8, <1>9, WalkClimbs
<1>11. PICK e \in Ids \ {d} : parent[e] = p /\ status[e] \notin Finished
  <2>1. p # 0 /\ status[p] # "stale"
    BY <1>6, TodoAssumption DEF Ids
  <2> QED BY <2>1, <1>8, <1>10 DEF Climbs
<1>12. x \in Subtree(d) \cap Subtree(e)
  BY <1>8, <1>9, <1>11
<1>13. Subtree(d) \cap Subtree(e) = {}
  BY <1>8, <1>11, SiblingTrees
<1> QED BY <1>12, <1>13

\* The children of a row on the walk are all finished after the closing.
LEMMA WalkEmpties ==
  ASSUME TypeOK, Forest, NEW x \in Ids, status[x] = "open",
         NEW how \in Finished, CloseTree(x, how),
         NEW y \in Walked(x), NEW c \in Ids, parent[c] = y
  PROVE  status'[c] \in Finished
<1>1. "open" \notin Finished
  BY DEF Finished
<1>2. PICK z \in Walked(x) \cup {x} : z \in Ids /\ parent[z] = y /\ Climbs(z)
  BY WalkAbove
<1>3. CASE c # z
  <2>1. status[c] \in Finished
    BY <1>2, <1>3 DEF Climbs
  <2> QED BY <2>1, <1>1, CloseEffect
<1>4. CASE c = z /\ status[z] = "open"
  <2>1. z \in Subtree(x) \/ z \in Walked(x)
    BY <1>2, SubtreeRoot
  <2> QED BY <1>4, <2>1, CloseEffect DEF OpenIn
<1>5. CASE c = z /\ status[z] # "open"
  <2>1. status[z] # "stale"
    BY <1>2, <1>5, WalkAbove
  <2>2. status[z] # "absent"
    <3>1. parent[z] # 0
      BY <1>2 DEF Climbs
    <3> QED BY <3>1, <1>2 DEF Forest
  <2>3. status[z] \in Finished
    BY <1>2, <1>5, <2>1, <2>2 DEF TypeOK, Status, Terminal, Finished
  <2> QED BY <1>2, <1>5, <2>3, CloseEffect
<1> QED BY <1>3, <1>4, <1>5

\* A closing that checks readiness closes no row before its prerequisites.
LEMMA CloseReady ==
  ASSUME TypeOK, NEW x \in Ids, status[x] = "open", NEW how \in Finished,
         TreeReady(x, how), CloseTree(x, how),
         NEW y \in Ids, status'[y] # status[y]
  PROVE  Ready(y, status')
<1> SUFFICES ASSUME NEW e \in edges, e.todo = y PROVE status'[e.needs] \in e.ok
  BY DEF Ready
<1> DEFINE tree == OpenIn(Subtree(x))
           walk == OpenIn(Walked(x))
<1>1. e.needs \in Ids /\ e.ok \subseteq Terminal
  BY DEF TypeOK, Edge
<1>2. "open" \notin e.ok
  BY <1>1 DEF Terminal
<1>3. y \in tree \/ y \in walk
  BY CloseEffect DEF Changed
<1>4. CASE y \in tree
  <2>1. status[e.needs] \in e.ok
    BY <1>4 DEF TreeReady, Ready
  <2> QED BY <2>1, <1>1, <1>2, CloseEffect
<1>5. CASE y \in walk
  <2>1. ClosedUpTo(x, how, y)[e.needs] \in e.ok
    BY <1>5 DEF TreeReady, Ready
  <2>2. ClosedUpTo(x, how, y)[e.needs] =
          IF e.needs \in tree THEN how
          ELSE IF e.needs \in walk /\ e.needs > y THEN "completed"
          ELSE status[e.needs]
    BY <1>1 DEF ClosedUpTo
  <2>3. status'[e.needs] =
          IF e.needs \in tree THEN how
          ELSE IF e.needs \in walk /\ e.needs > 0 THEN "completed"
          ELSE status[e.needs]
    BY <1>1 DEF CloseTree, ClosedUpTo
  <2>4. \A w \in tree \cup walk : status[w] = "open"
    BY DEF OpenIn
  <2>5. e.needs > 0
    BY <1>1, TodoAssumption DEF Ids
  <2> HIDE DEF tree, walk
  <2> QED BY <2>1, <2>2, <2>3, <2>4, <2>5, <1>2
<1> QED BY <1>3, <1>4, <1>5

-----------------------------------------------------------------------------
(* The inductive invariant.                                                *)

(* Edges and batch children are rows that exist. *)
Present ==
  /\ \A e \in edges : status[e.todo] # "absent" /\ status[e.needs] # "absent"
  /\ \A x \in Ids : status[x] = "absent" => origin[x] = None

(* What the record of a batch says is so: its key inserted its children and   *)
(* no others, with their parent and edges, and only records are answered.     *)
Recorded ==
  /\ answers \subseteq batches
  /\ \A b, c \in batches : b.key = c.key => b = c
  /\ \A b \in batches :
       /\ {x \in Ids : origin[x] = b.key} = Children(b)
       /\ \A x \in Children(b) : parent[x] = b.parent
       /\ \A d \in b.asked.needs : \E e \in edges :
             e.todo = Child(b, d[1]) /\ e.needs = Child(b, d[2])
  /\ \A x \in Ids : origin[x] # None => \E b \in batches : b.key = origin[x]

Inv == /\ TypeOK /\ Forest /\ Present /\ AgentKnows
       /\ NoParentLeftBehind /\ PrerequisitesAcyclic /\ Recorded

\* The databases the code may start from satisfy it.
LEMMA InitInv == Init => Inv
<1> SUFFICES ASSUME Init PROVE Inv
  OBVIOUS
<1>1. PICK s \in Seeds : status = s.status /\ parent = s.parent
  BY DEF Init
<1>2. WellFormed(status, parent)
  BY <1>1, TodoAssumption
<1>3. TypeOK
  BY <1>2 DEF Init, TypeOK, WellFormed, Idle, Edge
<1>4. Forest /\ NoParentLeftBehind
  BY <1>2 DEF WellFormed, Forest, NoParentLeftBehind
<1>5. Present /\ AgentKnows /\ PrerequisitesAcyclic
  BY DEF Init, Present, AgentKnows, Idle, PrerequisitesAcyclic
<1>6. Recorded
  BY DEF Init, Recorded
<1> QED BY <1>3, <1>4, <1>5, <1>6 DEF Inv

\* The parts of the invariant that mention the rows only, for any insertion of
\* rows that do not exist yet under a parent that does.
LEMMA InsertKeeps ==
  ASSUME Inv, NEW xs \in SUBSET Ids, NEW p, NEW k \in Keys \cup {None},
         ParentOk(p), InsertRows(xs, p, k),
         \A x \in xs : status[x] = "absent",
         \A x \in xs : \A y \in 1..(x - 1) : status[y] # "absent" \/ y \in xs
  PROVE  /\ status' \in [Ids -> Status] /\ parent' \in [Ids -> Int]
         /\ version' \in [Ids -> Nat] /\ origin' \in [Ids -> Keys \cup {None}]
         /\ edits' = edits /\ agent' = agent
         /\ \A x \in Ids : status[x] # "absent" => status'[x] = status[x]
         /\ \A x \in xs : status'[x] = "open"
         /\ \A x \in Ids : status'[x] = "absent" => x \notin xs /\ status[x] = "absent"
         /\ \A x \in Ids : /\ origin'[x] = IF x \in xs THEN k ELSE origin[x]
                          /\ parent'[x] = IF x \in xs THEN p ELSE parent[x]
         /\ Forest' /\ AgentKnows' /\ NoParentLeftBehind'
<1> USE DEF Inv
<1>1. /\ status \in [Ids -> Status] /\ parent \in [Ids -> Int]
      /\ version \in [Ids -> Nat] /\ origin \in [Ids -> Keys \cup {None}]
  BY DEF TypeOK
<1>2. /\ status' = [x \in Ids |-> IF x \in xs THEN "open" ELSE status[x]]
      /\ parent' = [x \in Ids |-> IF x \in xs THEN p ELSE parent[x]]
      /\ version' = [x \in Ids |-> IF x \in xs THEN 1 ELSE version[x]]
      /\ origin' = [x \in Ids |-> IF x \in xs THEN k ELSE origin[x]]
      /\ edits' = edits /\ agent' = agent
  BY DEF InsertRows
<1>3. "open" \in Status /\ "open" # "absent" /\ "open" \notin Finished
  BY DEF Status, Finished
<1>4. p \in Int
  BY TodoAssumption DEF ParentOk, Ids
<1>5. /\ status' \in [Ids -> Status] /\ parent' \in [Ids -> Int]
      /\ version' \in [Ids -> Nat] /\ origin' \in [Ids -> Keys \cup {None}]
  BY <1>1, <1>2, <1>3, <1>4
<1>6. /\ \A x \in Ids : status[x] # "absent" => status'[x] = status[x] /\ x \notin xs
      /\ \A x \in xs : status'[x] = "open"
      /\ \A x \in Ids : status'[x] = "absent" => x \notin xs /\ status[x] = "absent"
  BY <1>2, <1>3
<1>7. \A x \in xs : 0 <= p /\ p < x
  <2> SUFFICES ASSUME NEW x \in xs PROVE 0 <= p /\ p < x
    OBVIOUS
  <2>1. CASE p = 0
    BY <2>1, TodoAssumption DEF Ids
  <2>2. CASE p \in Ids /\ status[p] # "absent"
    <3>1. ~(x \in 1..p)
      BY <2>2 DEF Forest
    <3> QED BY <3>1, <2>2, TodoAssumption DEF Ids
  <2> QED BY <2>1, <2>2 DEF ParentOk
<1>8. Forest'
  <2> SUFFICES ASSUME NEW x \in Ids
               PROVE  /\ parent'[x] \in Int /\ 0 <= parent'[x] /\ parent'[x] < x
                      /\ status'[x] # "absent" => \A y \in 1..x : status'[y] # "absent"
                      /\ status'[x] = "absent" => parent'[x] = 0
    BY DEF Forest
  <2>1. parent'[x] \in Int /\ 0 <= parent'[x] /\ parent'[x] < x
    <3>1. CASE x \in xs
      BY <3>1, <1>2, <1>4, <1>7
    <3>2. CASE x \notin xs
      BY <3>2, <1>2 DEF Forest
    <3> QED BY <3>1, <3>2
  <2>2. ASSUME status'[x] # "absent", NEW y \in 1..x PROVE status'[y] # "absent"
    <3>1. y \in Ids
      BY TodoAssumption DEF Ids
    <3>2. CASE x \in xs
      <4>1. y = x \/ y \in 1..(x - 1)
        BY TodoAssumption DEF Ids
      <4>2. status[y] # "absent" \/ y \in xs
        BY <3>2, <4>1
      <4> QED BY <4>2, <3>1, <1>3, <1>6
    <3>3. CASE x \notin xs
      <4>1. status[x] # "absent"
        BY <3>3, <2>2, <1>2
      <4> QED BY <4>1, <3>1, <1>6 DEF Forest
    <3> QED BY <3>2, <3>3
  <2>3. status'[x] = "absent" => parent'[x] = 0
    BY <1>2, <1>6 DEF Forest
  <2> QED BY <2>1, <2>2, <2>3
<1>9. AgentKnows'
  BY <1>2, <1>6 DEF AgentKnows
<1>10. NoParentLeftBehind'
  <2> SUFFICES ASSUME NEW q \in Ids, LeftBehind(status', parent', q) PROVE FALSE
    BY DEF NoParentLeftBehind
  <2>1. /\ status'[q] = "open"
        /\ \A c \in Ids : parent'[c] = q => status'[c] \in Finished
    BY DEF LeftBehind
  <2>2. PICK c \in Ids : parent'[c] = q
    BY DEF LeftBehind
  <2>3. \A d \in xs : parent'[d] # q
    BY <2>1, <1>3, <1>6
  <2>4. q \notin xs
    <3> SUFFICES ASSUME q \in xs PROVE FALSE
      OBVIOUS
    <3>1. parent[c] = q
      BY <2>2, <2>3, <1>2
    <3>2. status[c] # "absent" /\ q \in 1..c
      BY <3>1, TodoAssumption DEF Forest, Ids
    <3> QED BY <3>2 DEF Forest
  <2>5. LeftBehind(status, parent, q)
    <3>1. status[q] = "open" /\ parent[c] = q
      BY <2>1, <2>2, <2>3, <2>4, <1>2
    <3>2. ASSUME NEW d \in Ids, parent[d] = q PROVE status[d] \in Finished
      <4>1. d \notin xs
        BY <3>2, TodoAssumption DEF Forest, Ids
      <4> QED BY <4>1, <3>2, <2>1, <1>2
    <3> QED BY <3>1, <3>2 DEF LeftBehind
  <2> QED BY <2>5 DEF NoParentLeftBehind
<1> QED BY <1>2, <1>5, <1>6, <1>8, <1>9, <1>10

\* Records stay true when rows that exist keep their parents, every row its
\* batch and the table its edges.
LEMMA RecordedKeeps ==
  ASSUME Inv, batches' = batches, answers' = answers, edges \subseteq edges',
         \A z \in Ids : origin'[z] = origin[z],
         \A z \in Ids : status[z] # "absent" => parent'[z] = parent[z]
  PROVE  Recorded'
<1>1. ASSUME NEW b \in batches
      PROVE  /\ {x \in Ids : origin'[x] = b.key} = Children(b)
             /\ \A x \in Children(b) : parent'[x] = b.parent
             /\ \A d \in b.asked.needs : \E e \in edges' :
                   e.todo = Child(b, d[1]) /\ e.needs = Child(b, d[2])
  <2>1. b.key # None
    BY TodoAssumption DEF Inv, TypeOK, Batch
  <2>2. /\ {x \in Ids : origin[x] = b.key} = Children(b)
        /\ \A x \in Children(b) : parent[x] = b.parent
        /\ \A d \in b.asked.needs : \E e \in edges :
              e.todo = Child(b, d[1]) /\ e.needs = Child(b, d[2])
    BY DEF Inv, Recorded
  <2>3. \A x \in Children(b) : x \in Ids /\ status[x] # "absent"
    BY <2>1, <2>2 DEF Inv, Present
  <2> QED BY <2>2, <2>3
<1>2. /\ answers' \subseteq batches'
      /\ \A b, c \in batches' : b.key = c.key => b = c
      /\ \A x \in Ids : origin'[x] # None => \E b \in batches' : b.key = origin'[x]
  BY DEF Inv, Recorded
<1> QED BY <1>1, <1>2 DEF Recorded

\* A new row on its own.
LEMMA AddTodoKeeps ==
  ASSUME Inv, NEW p \in Ids \cup {0}, AddTodo(p) PROVE Inv'
<1>1. PICK x \in Ids : NextId(x) /\ InsertRows({x}, p, None)
  BY DEF AddTodo
<1>2. /\ status[x] = "absent"
      /\ \A z \in {x} : \A y \in 1..(z - 1) : status[y] # "absent" \/ y \in {x}
      /\ {x} \in SUBSET Ids /\ ParentOk(p)
  BY <1>1 DEF NextId, AddTodo
<1> DEFINE xs == {x}
<1>3. \A z \in xs : status[z] = "absent"
  BY <1>2
<1>4. /\ status' \in [Ids -> Status] /\ parent' \in [Ids -> Int]
      /\ version' \in [Ids -> Nat] /\ origin' \in [Ids -> Keys \cup {None}]
      /\ edits' = edits /\ agent' = agent
      /\ \A z \in Ids : status[z] # "absent" => status'[z] = status[z]
      /\ \A z \in xs : status'[z] = "open"
      /\ \A z \in Ids : status'[z] = "absent" => z \notin xs /\ status[z] = "absent"
      /\ \A z \in Ids : /\ origin'[z] = IF z \in xs THEN None ELSE origin[z]
                       /\ parent'[z] = IF z \in xs THEN p ELSE parent[z]
      /\ Forest' /\ AgentKnows' /\ NoParentLeftBehind'
  <2>1. InsertRows(xs, p, None) /\ xs \in SUBSET Ids
    BY <1>1, <1>2
  <2>2. \A z \in xs : \A y \in 1..(z - 1) : status[y] # "absent" \/ y \in xs
    BY <1>2
  <2> HIDE DEF xs
  <2> QED BY <2>1, <2>2, <1>2, <1>3, InsertKeeps
<1>5. edges' = edges /\ batches' = batches /\ answers' = answers
  BY DEF AddTodo
<1>6. TypeOK'
  BY <1>4, <1>5 DEF Inv, TypeOK
<1>7. \A z \in Ids : origin'[z] = origin[z]
  BY <1>3, <1>4 DEF Inv, Present
<1>8. Present'
  <2>1. \A e \in edges : e.todo \in Ids /\ e.needs \in Ids
    BY DEF Inv, TypeOK, Edge
  <2> QED BY <1>4, <1>5, <1>7, <2>1 DEF Inv, Present
<1>9. PrerequisitesAcyclic'
  BY <1>5 DEF Inv, PrerequisitesAcyclic
<1>10. Recorded'
  <2>1. \A z \in Ids : status[z] # "absent" => parent'[z] = parent[z]
    BY <1>3, <1>4
  <2> QED BY <2>1, <1>5, <1>7, RecordedKeeps
<1> QED BY <1>4, <1>6, <1>8, <1>9, <1>10 DEF Inv

\* Every set of numbers that is not empty has a least member.
LEMMA LeastNumber ==
  ASSUME NEW T \in SUBSET Nat, T # {}
  PROVE  \E x \in T : \A y \in T : x <= y
<1>1. PICK R : IsWellFoundedOn(R, Nat) /\ \A x, y \in Nat : y < x => <<y, x>> \in R
  <2> DEFINE R == OpToRel(<, Nat)
  <2>1. IsWellFoundedOn(R, Nat)
    BY NatLessThanWellFounded
  <2>2. \A x, y \in Nat : y < x => <<y, x>> \in R
    BY DEF OpToRel
  <2> QED BY <2>1, <2>2
<1>2. PICK x \in T : \A y \in T : ~ (<<y, x>> \in R)
  BY <1>1, WFMin
<1>3. \A y \in T : ~(y < x) /\ y \in Nat /\ x \in Nat
  BY <1>1, <1>2
<1> QED BY <1>3

\* The edges of an accepted batch lead, as visit() went through them, from a
\* child to one that was finished before it: no set of its children waits on
\* itself.
LEMMA BatchAcyclic ==
  ASSUME NEW b \in Batch, Accepted(b.asked), NEW T \in SUBSET Children(b), T # {}
  PROVE  \E x \in T : \A d \in b.asked.needs : Child(b, d[1]) = x => Child(b, d[2]) \notin T
<1> DEFINE n == b.asked.size
           indices == 0..(n - 1)
<1>1. n \in Nat /\ n > 0 /\ b.first \in Int
  BY TodoAssumption DEF Batch, Accepted, Ids
<1>2. b.asked.needs \subseteq indices \X indices
  BY DEF Accepted
<1>3. PICK visited \in [indices -> indices] : \A d \in b.asked.needs : visited[d[2]] < visited[d[1]]
  BY DEF Accepted
<1>4. T \subseteq b.first..(b.first + n - 1)
  BY DEF Children
<1> HIDE DEF n
<1>5. \A x \in T : x - b.first \in indices /\ x \in Int
  BY <1>1, <1>4
<1> DEFINE ranks == {visited[x - b.first] : x \in T}
<1>6. ranks \in SUBSET Nat /\ ranks # {}
  BY <1>3, <1>5
<1>7. PICK r \in ranks : \A q \in ranks : r <= q
  <2> HIDE DEF ranks
  <2> QED BY <1>6, LeastNumber
<1>8. PICK x \in T : r = visited[x - b.first]
  OBVIOUS
<1>9. ASSUME NEW d \in b.asked.needs, Child(b, d[1]) = x, Child(b, d[2]) \in T
      PROVE  FALSE
  <2>1. d[1] \in indices /\ d[2] \in indices
    BY <1>2
  <2>2. d[1] = x - b.first /\ d[2] = Child(b, d[2]) - b.first
    <3>1. d[1] \in Int /\ d[2] \in Int
      BY <1>1, <2>1
    <3>2. x = b.first + d[1] /\ Child(b, d[2]) = b.first + d[2]
      BY <1>9 DEF Child
    <3> HIDE DEF indices
    <3> QED BY <1>1, <3>1, <3>2
  <2>3. visited[d[2]] \in ranks
    BY <1>9, <2>2
  <2>4. visited[d[2]] < visited[d[1]] /\ visited[d[1]] = r
    BY <1>3, <1>8, <2>2
  <2>5. r <= visited[d[2]] /\ r \in Nat /\ visited[d[2]] \in Nat
    <3> HIDE DEF ranks
    <3> QED BY <1>6, <1>7, <2>3
  <2> QED BY <2>4, <2>5
<1> QED BY <1>9

\* A batch of children, with its record and its edges.
LEMMA InsertBatchKeeps ==
  ASSUME Inv, NEW b \in Batch, Accepted(b.asked), \A known \in batches : known.key # b.key,
         InsertBatch(b)
  PROVE  Inv'
<1> DEFINE xs == Children(b)
           new == {[todo |-> Child(b, d[1]), needs |-> Child(b, d[2]), ok |-> Terminal] :
                     d \in b.asked.needs}
<1>1. /\ b.key \in Keys /\ b.parent \in Ids /\ b.first \in Ids /\ b.asked.size \in Nat
      /\ b.key # None
  BY TodoAssumption DEF Batch
<1>2. /\ status[b.first] = "absent" /\ \A y \in 1..(b.first - 1) : status[y] # "absent"
      /\ xs \in SUBSET Ids /\ ParentOk(b.parent)
      /\ InsertRows(xs, b.parent, b.key) /\ edges' = edges \cup new
      /\ batches' = batches \cup {b} /\ answers' \subseteq answers \cup {b}
  BY <1>1 DEF InsertBatch, NextId, ParentOk
<1>3. \A z \in xs : z \in Int /\ b.first <= z
  BY <1>1 DEF Children, Ids
<1>4. \A z \in xs : status[z] = "absent"
  <2> SUFFICES ASSUME NEW z \in xs, status[z] # "absent" PROVE FALSE
    OBVIOUS
  <2>1. z \in Ids /\ b.first \in 1..z
    BY <1>1, <1>2, <1>3, TodoAssumption DEF Ids
  <2> QED BY <2>1, <1>2 DEF Inv, Forest
<1>5. \A z \in xs : \A y \in 1..(z - 1) : status[y] # "absent" \/ y \in xs
  <2> SUFFICES ASSUME NEW z \in xs, NEW y \in 1..(z - 1)
               PROVE  y \in 1..(b.first - 1) \/ y \in xs
    BY <1>2
  <2> QED BY <1>1, TodoAssumption DEF Ids, Children
<1>6. \A d \in b.asked.needs : Child(b, d[1]) \in xs /\ Child(b, d[2]) \in xs
  <2> SUFFICES ASSUME NEW d \in b.asked.needs
               PROVE  Child(b, d[1]) \in xs /\ Child(b, d[2]) \in xs
    OBVIOUS
  <2>1. d[1] \in 0..(b.asked.size - 1) /\ d[2] \in 0..(b.asked.size - 1)
    BY DEF Accepted
  <2> QED BY <1>1, <2>1, TodoAssumption DEF Child, Children, Ids
<1>7. new \subseteq Edge /\ \A e \in new : e.todo \in xs /\ e.needs \in xs
  <2>1. Terminal \in SUBSET Terminal
    OBVIOUS
  <2> HIDE DEF xs
  <2> QED BY <1>2, <1>6, <2>1 DEF Edge
<1>8. \A T \in SUBSET xs : T # {} => \E z \in T : \A e \in new : e.todo = z => e.needs \notin T
  <2> SUFFICES ASSUME NEW T \in SUBSET xs, T # {}
               PROVE  \E z \in T : \A e \in new : e.todo = z => e.needs \notin T
    OBVIOUS
  <2>1. PICK z \in T : \A d \in b.asked.needs : Child(b, d[1]) = z => Child(b, d[2]) \notin T
    BY BatchAcyclic
  <2> QED BY <2>1
<1>9. ASSUME NEW d \in b.asked.needs
      PROVE  \E e \in new : e.todo = Child(b, d[1]) /\ e.needs = Child(b, d[2])
  <2> DEFINE e == [todo |-> Child(b, d[1]), needs |-> Child(b, d[2]), ok |-> Terminal]
  <2>1. e \in new /\ e.todo = Child(b, d[1]) /\ e.needs = Child(b, d[2])
    OBVIOUS
  <2> QED BY <2>1
<1> HIDE DEF xs, new
<1>10. /\ status' \in [Ids -> Status] /\ parent' \in [Ids -> Int]
       /\ version' \in [Ids -> Nat] /\ origin' \in [Ids -> Keys \cup {None}]
       /\ edits' = edits /\ agent' = agent
       /\ \A z \in Ids : status[z] # "absent" => status'[z] = status[z]
       /\ \A z \in xs : status'[z] = "open"
       /\ \A z \in Ids : status'[z] = "absent" => z \notin xs /\ status[z] = "absent"
       /\ \A z \in Ids : /\ origin'[z] = IF z \in xs THEN b.key ELSE origin[z]
                         /\ parent'[z] = IF z \in xs THEN b.parent ELSE parent[z]
       /\ Forest' /\ AgentKnows' /\ NoParentLeftBehind'
  <2>1. b.key \in Keys \cup {None}
    BY <1>1
  <2> QED BY <1>2, <1>4, <1>5, <2>1, InsertKeeps
<1>11. TypeOK'
  BY <1>2, <1>7, <1>10 DEF Inv, TypeOK
<1>12. \A e \in edges : e.todo \in Ids /\ e.needs \in Ids /\ e.todo \notin xs /\ e.needs \notin xs
  BY <1>4 DEF Inv, TypeOK, Edge, Present
<1>13. Present'
  <2>1. ASSUME NEW e \in edges' PROVE status'[e.todo] # "absent" /\ status'[e.needs] # "absent"
    <3>1. CASE e \in edges
      BY <3>1, <1>10, <1>12 DEF Inv, Present
    <3>2. CASE e \in new
      BY <3>2, <1>7, <1>10
    <3> QED BY <2>1, <3>1, <3>2, <1>2
  <2>2. \A z \in Ids : status'[z] = "absent" => origin'[z] = None
    BY <1>10 DEF Inv, Present
  <2> QED BY <2>1, <2>2 DEF Present
<1>14. PrerequisitesAcyclic'
  <2> SUFFICES ASSUME NEW S \in SUBSET Ids, S # {},
                      \A z \in S : \E e \in edges' : e.todo = z /\ e.needs \in S
               PROVE  FALSE
    BY DEF PrerequisitesAcyclic
  <2> DEFINE T == S \cap xs
  <2>1. T = {}
    <3> SUFFICES ASSUME T # {} PROVE FALSE
      OBVIOUS
    <3>1. PICK z \in T : \A e \in new : e.todo = z => e.needs \notin T
      BY <1>8
    <3>2. PICK e \in edges' : e.todo = z /\ e.needs \in S
      OBVIOUS
    <3>3. e \in new
      BY <3>1, <3>2, <1>2, <1>12
    <3> QED BY <3>1, <3>2, <3>3, <1>7
  <2>2. \A z \in S : \E e \in edges : e.todo = z /\ e.needs \in S
    BY <2>1, <1>2, <1>7
  <2> QED BY <2>2 DEF Inv, PrerequisitesAcyclic
<1>15. Recorded'
  <2>1. \A z \in Ids : origin[z] # b.key
    BY <1>1 DEF Inv, Recorded
  <2>2. \A z \in xs : origin[z] = None
    BY <1>2, <1>4 DEF Inv, Present
  <2>3. ASSUME NEW c \in batches
        PROVE  /\ {x \in Ids : origin'[x] = c.key} = Children(c)
               /\ \A x \in Children(c) : parent'[x] = c.parent
               /\ \A d \in c.asked.needs : \E e \in edges' :
                     e.todo = Child(c, d[1]) /\ e.needs = Child(c, d[2])
    <3>1. c.key # b.key /\ c.key # None
      BY TodoAssumption DEF Inv, TypeOK, Batch
    <3>2. /\ {x \in Ids : origin[x] = c.key} = Children(c)
          /\ \A x \in Children(c) : parent[x] = c.parent
          /\ \A d \in c.asked.needs : \E e \in edges :
                e.todo = Child(c, d[1]) /\ e.needs = Child(c, d[2])
      BY DEF Inv, Recorded
    <3>3. \A x \in Ids : origin'[x] = c.key <=> origin[x] = c.key
      BY <2>2, <3>1, <1>10
    <3>4. \A x \in Children(c) : x \in Ids /\ x \notin xs
      BY <2>2, <3>1, <3>2
    <3> QED BY <3>2, <3>3, <3>4, <1>2, <1>10
  <2>4. /\ {x \in Ids : origin'[x] = b.key} = Children(b)
        /\ \A x \in Children(b) : parent'[x] = b.parent
        /\ \A d \in b.asked.needs : \E e \in edges' :
              e.todo = Child(b, d[1]) /\ e.needs = Child(b, d[2])
    <3>1. xs = Children(b)
      BY DEF xs
    <3>2. {x \in Ids : origin'[x] = b.key} = xs /\ \A x \in xs : parent'[x] = b.parent
      BY <2>1, <1>2, <1>10
    <3>3. \A d \in b.asked.needs : \E e \in edges' :
             e.todo = Child(b, d[1]) /\ e.needs = Child(b, d[2])
      BY <1>2, <1>9
    <3> QED BY <3>1, <3>2, <3>3
  <2>5. \A c, d \in batches' : c.key = d.key => c = d
    BY <1>2 DEF Inv, Recorded
  <2>6. \A x \in Ids : origin'[x] # None => \E c \in batches' : c.key = origin'[x]
    BY <1>2, <1>10 DEF Inv, Recorded
  <2>7. answers' \subseteq batches'
    BY <1>2 DEF Inv, Recorded
  <2> QED BY <2>3, <2>4, <2>5, <2>6, <2>7, <1>2 DEF Recorded
<1> QED BY <1>10, <1>11, <1>13, <1>14, <1>15 DEF Inv

\* A batch, or the answer to a batch that is recorded.
LEMMA BatchKeeps ==
  ASSUME Inv, NEW b \in Batch, CreateChildrenBatch(b) PROVE Inv'
<1>1. CASE (\A known \in batches : known.key # b.key) /\ InsertBatch(b)
  BY <1>1, InsertBatchKeeps DEF CreateChildrenBatch
<1>2. ASSUME NEW known \in batches, known.key = b.key, known.parent = b.parent,
             known.asked = b.asked, answers' = answers \cup {[b EXCEPT !.first = known.first]},
             UNCHANGED <<status, parent, version, edits, edges, batches, origin, agent>>
      PROVE  Inv'
  <2>0. [b EXCEPT !.first = known.first] = known
    BY <1>2 DEF Inv, TypeOK, Batch
  <2>1. TypeOK' /\ Recorded'
    BY <1>2, <2>0 DEF Inv, TypeOK, Recorded
  <2>2. Forest' /\ Present' /\ AgentKnows' /\ NoParentLeftBehind' /\ PrerequisitesAcyclic'
    BY <1>2 DEF Inv, Forest, Present, AgentKnows, NoParentLeftBehind, PrerequisitesAcyclic
  <2> QED BY <2>1, <2>2 DEF Inv
<1> QED BY <1>1, <1>2 DEF CreateChildrenBatch

\* An edit moves the version on, past whatever the agent has seen of the row.
LEMMA EditKeeps ==
  ASSUME Inv, NEW x \in Ids, Edit(x), status[x] # "absent",
         agent' = agent \/ agent' = Idle
  PROVE  Inv'
<1>1. /\ edits' = [edits EXCEPT ![x] = @ + 1]
      /\ version' = [version EXCEPT ![x] = @ + 1]
      /\ UNCHANGED <<status, parent, edges, batches, answers, origin>>
  BY DEF Edit
<1>2. TypeOK'
  BY <1>1 DEF Inv, TypeOK, Idle
<1>3. AgentKnows'
  <2>1. CASE agent' = Idle
    BY <2>1 DEF AgentKnows, Idle
  <2>2. CASE agent' = agent
    <3>1. /\ version \in [Ids -> Nat] /\ edits \in [Ids -> Nat] /\ agent.version \in Nat
      BY DEF Inv, TypeOK
    <3> QED BY <2>2, <3>1, <1>1 DEF Inv, AgentKnows
  <2> QED BY <2>1, <2>2
<1>4. Forest' /\ Present' /\ NoParentLeftBehind' /\ PrerequisitesAcyclic' /\ Recorded'
  BY <1>1 DEF Inv, Forest, Present, NoParentLeftBehind, PrerequisitesAcyclic, Recorded
<1> QED BY <1>2, <1>3, <1>4 DEF Inv

\* A step of the agent that only reads, or gives up.
LEMMA AgentKeeps ==
  ASSUME Inv, UNCHANGED <<status, parent, version, edits, edges, batches, answers, origin>>,
         \/ \E x \in Ids : /\ status[x] # "absent"
                           /\ agent' = [at |-> "read", id |-> x,
                                        version |-> version[x], edits |-> edits[x]]
         \/ agent.at # "idle" /\ agent' = [agent EXCEPT !.at = "checked"]
         \/ agent' = Idle
         \/ agent' = agent
  PROVE  Inv'
<1>1. TypeOK' /\ AgentKnows'
  <2>1. CASE \E x \in Ids : /\ status[x] # "absent"
                            /\ agent' = [at |-> "read", id |-> x,
                                         version |-> version[x], edits |-> edits[x]]
    <3>1. PICK x \in Ids : /\ status[x] # "absent"
                           /\ agent' = [at |-> "read", id |-> x,
                                        version |-> version[x], edits |-> edits[x]]
      BY <2>1
    <3>2. version[x] \in Nat /\ edits[x] \in Nat
      BY DEF Inv, TypeOK
    <3> QED BY <3>1, <3>2 DEF Inv, TypeOK, AgentKnows
  <2>2. CASE agent.at # "idle" /\ agent' = [agent EXCEPT !.at = "checked"]
    BY <2>2 DEF Inv, TypeOK, AgentKnows
  <2>3. CASE agent' = Idle
    BY <2>3 DEF Inv, TypeOK, AgentKnows, Idle
  <2>4. CASE agent' = agent
    BY <2>4 DEF Inv, TypeOK, AgentKnows
  <2> QED BY <2>1, <2>2, <2>3, <2>4
<1>2. Forest' /\ Present' /\ NoParentLeftBehind' /\ PrerequisitesAcyclic' /\ Recorded'
  BY DEF Inv, Forest, Present, NoParentLeftBehind, PrerequisitesAcyclic, Recorded
<1> QED BY <1>1, <1>2 DEF Inv

\* Closing a tree, with or without the version of its root.
LEMMA CloseKeeps ==
  ASSUME Inv, NEW x \in Ids, status[x] = "open", NEW how \in Finished, CloseTree(x, how),
         \/ version' = version /\ agent' = agent
         \/ version' = [version EXCEPT ![x] = @ + 1] /\ agent' = Idle
  PROVE  Inv'
<1>1. status' \in [Ids -> Status]
  BY CloseEffect DEF Inv
<1>2. /\ parent' = parent /\ edits' = edits /\ edges' = edges
      /\ batches' = batches /\ answers' = answers /\ origin' = origin
  BY CloseEffect DEF Inv
<1>3. TypeOK'
  BY <1>1, <1>2 DEF Inv, TypeOK, Idle
<1>4. \A y \in Ids : (status'[y] = "absent") <=> (status[y] = "absent")
  <2> SUFFICES ASSUME NEW y \in Ids
               PROVE  (status'[y] = "absent") <=> (status[y] = "absent")
    OBVIOUS
  <2>1. CASE y \in OpenIn(Subtree(x)) \/ y \in OpenIn(Walked(x))
    <3>1. status'[y] \in Finished
      BY <2>1, CloseEffect DEF Inv
    <3>2. status[y] = "open"
      BY <2>1 DEF OpenIn
    <3> QED BY <3>1, <3>2 DEF Finished
  <2>2. CASE y \notin Changed(x)
    BY <2>2, CloseEffect DEF Inv
  <2> QED BY <2>1, <2>2 DEF Changed
<1>5. Forest' /\ PrerequisitesAcyclic' /\ Recorded'
  <2>1. Forest'
    <3> SUFFICES ASSUME NEW y \in Ids
                 PROVE  /\ parent[y] \in Int /\ 0 <= parent[y] /\ parent[y] < y
                        /\ status'[y] # "absent" => \A z \in 1..y : status'[z] # "absent"
                        /\ status'[y] = "absent" => parent[y] = 0
      BY <1>2 DEF Forest
    <3>1. 1..y \subseteq Ids
      BY TodoAssumption DEF Ids
    <3> QED BY <3>1, <1>4 DEF Inv, Forest
  <2> QED BY <2>1, <1>2 DEF Inv, PrerequisitesAcyclic, Recorded
<1>6. Present'
  <2>1. \A e \in edges : e.todo \in Ids /\ e.needs \in Ids
    BY DEF Inv, TypeOK, Edge
  <2> QED BY <2>1, <1>2, <1>4 DEF Inv, Present
<1>7. AgentKnows'
  BY <1>2, <1>4 DEF Inv, AgentKnows, Idle
<1>8. NoParentLeftBehind'
  BY CloseKeepsParents DEF Inv
<1> QED BY <1>3, <1>5, <1>6, <1>7, <1>8 DEF Inv

\* The rows needed by a row include it and what they require themselves.
LEMMA NeededClosed ==
  ASSUME TypeOK, NEW x \in Ids
  PROVE  /\ x \in Needed(x)
         /\ \A e \in edges : e.todo \in Needed(x) => e.needs \in Needed(x)
<1>1. \A e \in edges : e.needs \in Ids
  BY DEF TypeOK, Edge
<1> QED BY <1>1 DEF Needed

\* A new edge closes no cycle: a cycle through it would lead from the required
\* row back to the row that requires it.
LEMMA LinkKeeps ==
  ASSUME Inv, NEW e \in Links, LinkPrerequisite(e) PROVE Inv'
<1>1. e \in Edge /\ e.todo \in Ids /\ e.needs \in Ids
  BY TodoAssumption DEF Edge
<1>2. /\ edges' = edges \cup {e}
      /\ UNCHANGED <<status, parent, version, edits, batches, answers, origin, agent>>
      /\ status[e.todo] # "absent" /\ status[e.needs] # "absent"
      /\ e.todo \notin Needed(e.needs)
  BY DEF LinkPrerequisite
<1>3. TypeOK'
  BY <1>1, <1>2 DEF Inv, TypeOK
<1>4. Forest' /\ Present' /\ AgentKnows' /\ NoParentLeftBehind'
  BY <1>2 DEF Inv, Forest, Present, AgentKnows, NoParentLeftBehind
<1>6. Recorded'
  BY <1>2, RecordedKeeps
<1>5. PrerequisitesAcyclic'
  <2> SUFFICES ASSUME NEW S \in SUBSET Ids, S # {},
                      \A z \in S : \E f \in edges \cup {e} : f.todo = z /\ f.needs \in S
               PROVE  FALSE
    BY <1>2 DEF PrerequisitesAcyclic
  <2> DEFINE N == Needed(e.needs)
             T == S \cap N
  <2>1. /\ e.needs \in N
        /\ \A f \in edges : f.todo \in N => f.needs \in N
    BY <1>1, NeededClosed DEF Inv
  <2>2. CASE e.needs \in S
    <3>1. T # {} /\ T \in SUBSET Ids
      BY <2>1, <2>2
    <3>2. \A z \in T : \E f \in edges : f.todo = z /\ f.needs \in T
      BY <2>1, <1>2
    <3> QED BY <3>1, <3>2 DEF Inv, PrerequisitesAcyclic
  <2>3. CASE e.needs \notin S
    <3>1. \A z \in S : \E f \in edges : f.todo = z /\ f.needs \in S
      BY <2>3
    <3> QED BY <3>1 DEF Inv, PrerequisitesAcyclic
  <2> QED BY <2>2, <2>3
<1> QED BY <1>3, <1>4, <1>5, <1>6 DEF Inv

\* Every step keeps the invariant.
LEMMA NextInv == Inv /\ [Next]_vars => Inv'
<1> SUFFICES ASSUME Inv, [Next]_vars PROVE Inv'
  OBVIOUS
<1>1. "completed" \in Finished /\ "cancelled" \in Finished
  BY DEF Finished
<1>2. ASSUME NEW p \in Ids \cup {0}, AddTodo(p) PROVE Inv'
  BY <1>2, AddTodoKeeps
<1>3. ASSUME NEW b \in Batch, CreateChildrenBatch(b) PROVE Inv'
  BY <1>3, BatchKeeps
<1>4. ASSUME NEW x \in Ids, UpdatePriority(x) PROVE Inv'
  BY <1>4, EditKeeps DEF UpdatePriority
<1>5. ASSUME NEW x \in Ids, ReadTodo(x) PROVE Inv'
  BY <1>5, AgentKeeps DEF ReadTodo
<1>6. ASSUME NEW x \in Ids, MarkDone(x) PROVE Inv'
  BY <1>1, <1>6, CloseKeeps DEF MarkDone
<1>7. ASSUME NEW x \in Ids, CancelTodo(x) PROVE Inv'
  BY <1>1, <1>7, CloseKeeps DEF CancelTodo
<1>8. ASSUME NEW e \in Links, LinkPrerequisite(e) PROVE Inv'
  BY <1>8, LinkKeeps
<1>9. CASE UpdateTodo
  <2>1. agent.id \in Ids /\ status[agent.id] # "absent"
    BY <1>9 DEF UpdateTodo, Inv, AgentKnows
  <2> QED BY <1>9, <2>1, EditKeeps DEF UpdateTodo
<1>10. CASE CompleteCheck
  BY <1>10, AgentKeeps DEF CompleteCheck
<1>11. CASE CompleteTodo
  <2>1. agent.id \in Ids
    BY <1>11 DEF CompleteTodo, Inv, AgentKnows
  <2> QED BY <1>1, <1>11, <2>1, CloseKeeps DEF CompleteTodo
<1>12. CASE GiveUp
  BY <1>12, AgentKeeps DEF GiveUp
<1>13. CASE UNCHANGED vars
  BY <1>13, AgentKeeps DEF vars
<1> QED BY <1>2, <1>3, <1>4, <1>5, <1>6, <1>7, <1>8, <1>9, <1>10, <1>11, <1>12, <1>13
        DEF Next

\* The invariant holds in every reachable state.
LEMMA Invariant == Spec => []Inv
BY InitInv, NextInv, PTL DEF Spec

-----------------------------------------------------------------------------
(* The theorems.                                                           *)

\* Every variable keeps its shape, whatever tables the database starts from.
THEOREM TodoTypeCorrect == Spec => []TypeOK
<1>1. Inv => TypeOK
  BY DEF Inv
<1> QED BY <1>1, Invariant, PTL

\* No todo stays open once all its children are completed or cancelled.
THEOREM ParentsFollow == Spec => []NoParentLeftBehind
<1>1. Inv => NoParentLeftBehind
  BY DEF Inv
<1> QED BY <1>1, Invariant, PTL

\* No todos wait for each other through prerequisite edges.
THEOREM Acyclic == Spec => []PrerequisitesAcyclic
<1>1. Inv => PrerequisitesAcyclic
  BY DEF Inv
<1> QED BY <1>1, Invariant, PTL

\* An idempotency key creates its children once, and whoever is answered under
\* it is answered the children he asked for, for batches of every size and every
\* order of prerequisites the code accepts (create_children_batch).
THEOREM BatchesOnce == Spec => []BatchOnce
<1>1. Inv => BatchOnce
  BY DEF Inv, Recorded, BatchOnce
<1> QED BY <1>1, Invariant, PTL

\* A step that closes anything is a closing of one tree.
LEMMA ClosingStep ==
  ASSUME Inv, [Next]_vars, NEW y \in Ids, NewlyClosed(y)
  PROVE  \E x \in Ids, how \in Finished :
           /\ status[x] = "open" /\ CloseTree(x, how)
           /\ MarkDone(x) \/ TreeReady(x, how)
<1>1. "completed" \in Finished /\ "cancelled" \in Finished
  BY DEF Finished
<1>2. status[y] = "open" /\ status'[y] # status[y]
  BY DEF NewlyClosed, Terminal
<1>3. ASSUME NEW xs, NEW p, NEW k, InsertRows(xs, p, k) PROVE FALSE
  BY <1>2, <1>3 DEF InsertRows
<1>4. \A p : ~AddTodo(p)
  BY <1>3 DEF AddTodo
<1>5. \A b : ~CreateChildrenBatch(b)
  BY <1>2, <1>3 DEF CreateChildrenBatch, InsertBatch
<1>6. status' # status
  BY <1>2
<1>7. /\ \A x : ~UpdatePriority(x) /\ ~ReadTodo(x)
      /\ \A e : ~LinkPrerequisite(e)
      /\ ~UpdateTodo /\ ~CompleteCheck /\ ~GiveUp /\ ~UNCHANGED vars
  BY <1>6 DEF UpdatePriority, ReadTodo, LinkPrerequisite, UpdateTodo, CompleteCheck,
              GiveUp, Edit, vars
<1>8. (\E x \in Ids : MarkDone(x) \/ CancelTodo(x)) \/ CompleteTodo
  BY <1>4, <1>5, <1>7 DEF Next
<1>9. CASE CompleteTodo
  <2>1. agent.id \in Ids
    BY <1>9 DEF CompleteTodo, Inv, AgentKnows
  <2> QED BY <2>1, <1>1, <1>9 DEF CompleteTodo
<1>10. CASE \E x \in Ids : MarkDone(x) \/ CancelTodo(x)
  BY <1>1, <1>10 DEF MarkDone, CancelTodo
<1> QED BY <1>8, <1>9, <1>10

\* Without Tyler's force, nothing is closed before its prerequisites.
THEOREM ReadyWhenClosed == Spec => ClosesOnlyReady
<1>1. Inv /\ [Next]_vars =>
        [(\E y \in Ids : NewlyClosed(y) /\ ~Ready(y, status')) =>
           \E x \in Ids : MarkDone(x)]_vars
  <2> SUFFICES ASSUME Inv, [Next]_vars, NEW y \in Ids, NewlyClosed(y), ~Ready(y, status')
               PROVE  \E x \in Ids : MarkDone(x)
    OBVIOUS
  <2>1. PICK x \in Ids, how \in Finished :
           /\ status[x] = "open" /\ CloseTree(x, how)
           /\ MarkDone(x) \/ TreeReady(x, how)
    BY ClosingStep
  <2>2. status'[y] # status[y]
    BY DEF NewlyClosed, Terminal
  <2> QED BY <2>1, <2>2, CloseReady DEF Inv
<1> QED BY <1>1, Invariant, PTL DEF Spec, ClosesOnlyReady

\* A versioned write is applied to the columns its author read.
THEOREM WritesWhatWasRead == Spec => NoLostUpdate
<1>1. Inv /\ [Next]_vars =>
        [UpdateTodo \/ CompleteTodo => edits[agent.id] = agent.edits]_vars
  BY DEF Inv, AgentKnows, UpdateTodo, CompleteTodo, VersionMatches
<1> QED BY <1>1, Invariant, PTL DEF Spec, NoLostUpdate

-----------------------------------------------------------------------------
(* The table implements TodoForest.                                        *)

\* The two closures of the closing transaction are the tree and the walk that
\* TodoForest describes by their members' parents.
LEMMA CloseRefines ==
  ASSUME Inv, NEW x \in Ids, status[x] = "open", NEW how \in Finished, CloseTree(x, how)
  PROVE  Promise!Next
<1> DEFINE tree == Subtree(x)
           walk == Walked(x)
<1>1. tree \in SUBSET Ids /\ walk \in SUBSET Ids
  BY DEF Subtree, Walked
<1>2. Promise!IsTree(x, tree)
  BY SubtreeRoot, SubtreeChild, SubtreeParent DEF Promise!IsTree
<1>3. Promise!IsWalk(x, walk)
  BY WalkAbove DEF Inv, Promise!IsWalk
<1>4. Promise!Close(how, tree, walk)
  <2>1. status' = [y \in Ids |-> IF status[y] # "open" THEN status[y]
                                 ELSE IF y \in tree THEN how
                                 ELSE IF y \in walk THEN "completed" ELSE "open"]
    <3>1. \A y \in Ids : y > 0
      BY TodoAssumption DEF Ids
    <3> QED BY <3>1 DEF CloseTree, ClosedUpTo, OpenIn
  <2>2. \A a \in walk, c \in Ids : parent[c] = a => status'[c] \in Finished
    BY WalkEmpties DEF Inv
  <2>3. parent' = parent
    BY DEF CloseTree
  <2>4. NoParentLeftBehind'
    BY CloseKeepsParents DEF Inv
  <2>5. Promise!NobodyLeftBehind(status', parent)
    BY <2>3, <2>4 DEF NoParentLeftBehind, LeftBehind, Promise!NobodyLeftBehind,
                      Promise!LeftBehind, Finished, Promise!Finished
  <2> HIDE DEF tree, walk
  <2> QED BY <2>1, <2>2, <2>3, <2>5 DEF Promise!Close, Finished, Promise!Finished
<1> HIDE DEF tree, walk
<1> QED BY <1>1, <1>2, <1>3, <1>4 DEF Promise!Next, Finished, Promise!Finished

\* An insertion adds todos to the forest: new ids are larger than the parent's.
LEMMA InsertRefines ==
  ASSUME Inv, NEW p \in Ids \cup {0}, NEW k, NEW x \in Ids, NEW n \in Nat, NextId(x),
         x..(x + n - 1) \in SUBSET Ids, ParentOk(p), InsertRows(x..(x + n - 1), p, k)
  PROVE  Promise!Next
<1> DEFINE S == x..(x + n - 1)
<1>1. S \in SUBSET Ids
  BY TodoAssumption DEF Ids
<1>2. \A y \in S : status[y] = "absent"
  <2> SUFFICES ASSUME NEW y \in S, status[y] # "absent"
               PROVE  FALSE
    OBVIOUS
  <2>1. y \in Ids /\ x \in 1..y
    BY <1>1, TodoAssumption DEF Ids
  <2> QED BY <2>1 DEF Inv, Forest, NextId
<1>3. \A y \in S : p < y
  <2>1. p < x
    <3>1. CASE p = 0
      BY <3>1, TodoAssumption DEF Ids
    <3>2. CASE p \in Ids /\ status[p] # "absent"
      <4> SUFFICES ASSUME p >= x
                   PROVE  FALSE
        BY <3>2, TodoAssumption DEF Ids
      <4>1. x \in 1..p
        BY <3>2, TodoAssumption DEF Ids
      <4> QED BY <4>1, <3>2 DEF Inv, Forest, NextId
    <3> QED BY <3>1, <3>2 DEF ParentOk
  <2> QED BY <2>1, <1>1, TodoAssumption DEF Ids
<1>4. Promise!Add(S, p)
  <2>1. /\ status' = [y \in Ids |-> IF y \in S THEN "open" ELSE status[y]]
        /\ parent' = [y \in Ids |-> IF y \in S THEN p ELSE parent[y]]
    BY DEF InsertRows
  <2>2. p = 0 \/ status[p] # "absent"
    BY DEF ParentOk
  <2> HIDE DEF S
  <2> QED BY <1>2, <1>3, <2>1, <2>2 DEF Promise!Add
<1> HIDE DEF S
<1> QED BY <1>1, <1>4 DEF Promise!Next

\* The tables a database may start from are forests nobody is left behind in.
LEMMA InitRefines == Init => Promise!Init
<1> SUFFICES ASSUME Init
             PROVE  Promise!Init
  OBVIOUS
<1>1. Inv
  BY InitInv
<1>2. status \in [Ids -> {"absent", "open", "stale"} \cup Promise!Finished]
  BY <1>1 DEF Inv, TypeOK, Status, Terminal, Promise!Finished
<1>3. parent \in [Ids -> Ids \cup {0}] /\ \A x \in Ids : parent[x] < x
  BY <1>1, TodoAssumption DEF Inv, TypeOK, Forest, Ids
<1>4. Promise!NobodyLeftBehind(status, parent)
  BY <1>1 DEF Inv, NoParentLeftBehind, LeftBehind, Promise!NobodyLeftBehind,
              Promise!LeftBehind, Finished, Promise!Finished
<1> QED BY <1>2, <1>3, <1>4 DEF Promise!Init

\* Every step adds todos, closes one, or leaves the forest as it is.
LEMMA StepRefines ==
  ASSUME Inv, [Next]_vars
  PROVE  [Promise!Next]_(Promise!vars)
<1>1. "completed" \in Finished /\ "cancelled" \in Finished
  BY DEF Finished
<1>2. ASSUME NEW p \in Ids \cup {0}, AddTodo(p) PROVE Promise!Next
  <2>1. PICK x \in Ids : NextId(x) /\ InsertRows({x}, p, None)
    BY <1>2 DEF AddTodo
  <2>2. {x} = x..(x + 1 - 1) /\ x + 1 - 1 = x
    BY TodoAssumption DEF Ids
  <2>3. InsertRows(x..(x + 1 - 1), p, None)
    BY <2>1, <2>2, Zenon
  <2>4. x..(x + 1 - 1) \in SUBSET Ids /\ 1 \in Nat
    BY <2>2
  <2> QED BY <1>2, <2>1, <2>3, <2>4, InsertRefines DEF AddTodo
<1>3. ASSUME NEW b \in Batch, CreateChildrenBatch(b)
      PROVE  Promise!Next \/ UNCHANGED Promise!vars
  <2>1. CASE InsertBatch(b)
    <3>1. /\ b.parent \in Ids /\ b.first \in Ids /\ b.key \in Keys /\ b.asked.size \in Nat
      BY TodoAssumption DEF Batch
    <3>2. /\ NextId(b.first) /\ ParentOk(b.parent)
          /\ b.first..(b.first + b.asked.size - 1) \in SUBSET Ids
          /\ InsertRows(b.first..(b.first + b.asked.size - 1), b.parent, b.key)
      BY <2>1, <3>1 DEF InsertBatch, ParentOk, Children
    <3> QED BY <3>1, <3>2, InsertRefines
  <2>2. CASE UNCHANGED <<status, parent>>
    BY <2>2 DEF Promise!vars
  <2> QED BY <1>3, <2>1, <2>2 DEF CreateChildrenBatch
<1>4. ASSUME NEW x \in Ids, MarkDone(x) \/ CancelTodo(x) PROVE Promise!Next
  BY <1>1, <1>4, CloseRefines DEF MarkDone, CancelTodo
<1>5. CASE CompleteTodo
  <2>1. agent.id \in Ids
    BY <1>5 DEF CompleteTodo, Inv, AgentKnows
  <2> QED BY <2>1, <1>1, <1>5, CloseRefines DEF CompleteTodo
<1>6. ASSUME \/ \E x \in Ids : UpdatePriority(x) \/ ReadTodo(x)
             \/ \E e \in Links : LinkPrerequisite(e)
             \/ UpdateTodo \/ CompleteCheck \/ GiveUp \/ UNCHANGED vars
      PROVE  UNCHANGED Promise!vars
  BY <1>6 DEF UpdatePriority, ReadTodo, LinkPrerequisite, UpdateTodo, CompleteCheck,
              GiveUp, Edit, vars, Promise!vars
<1> QED BY <1>2, <1>3, <1>4, <1>5, <1>6 DEF Next

\* Whatever the agent, Tyler and the scripts do at once, in tables of every
\* size, a closing takes all that is open in one tree and exactly the ancestors
\* it leaves without unfinished work, and closed todos keep their reason
\* (_close_todo_tree_transaction, insert_todo, create_children_batch).
THEOREM TodosImplementForest == Spec => ImplementsForest
<1>1. Inv /\ [Next]_vars => [Promise!Next]_(Promise!vars)
  BY StepRefines
<1> QED BY <1>1, InitRefines, Invariant, PTL DEF Spec, ImplementsForest, Promise!Spec

=============================================================================
