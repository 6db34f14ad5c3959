----------------------------- MODULE TodoForest -----------------------------
(***************************************************************************)
(* What the todo graph promises the people who work with it, without       *)
(* prerequisites, versions, batches or walks through the table: todos are  *)
(* added to a forest, and whoever closes one closes all that is open below *)
(* it and those of its ancestors that this leaves without unfinished work, *)
(* no more and no fewer.  What is closed stays closed, for the reason it   *)
(* was closed for; nothing moves to another parent and nothing vanishes.   *)
(***************************************************************************)
EXTENDS Integers

CONSTANT Ids

VARIABLES
  status,  \* "absent" before a todo is added
  parent   \* 0 for the root of a tree

vars == <<status, parent>>

Finished == {"completed", "cancelled"}

\* x has nothing left to wait for but is still open.
LeftBehind(st, pa, x) ==
  /\ st[x] = "open"
  /\ \E c \in Ids : pa[c] = x
  /\ \A c \in Ids : pa[c] = x => st[c] \in Finished

NobodyLeftBehind(st, pa) == \A x \in Ids : ~LeftBehind(st, pa, x)

Init ==
  /\ status \in [Ids -> {"absent", "open", "stale"} \cup Finished]
  /\ parent \in [Ids -> Ids \cup {0}]
  /\ \A x \in Ids : parent[x] < x
  /\ NobodyLeftBehind(status, parent)

\* The todos of S are added under p, or as new trees.
Add(S, p) ==
  /\ p = 0 \/ status[p] # "absent"
  /\ \A x \in S : status[x] = "absent" /\ p < x
  /\ status' = [x \in Ids |-> IF x \in S THEN "open" ELSE status[x]]
  /\ parent' = [x \in Ids |-> IF x \in S THEN p ELSE parent[x]]

\* tree is r and everything below it.
IsTree(r, tree) == \A y \in Ids : y \in tree <=> (y = r \/ parent[y] \in tree)

\* walk is a chain of ancestors of r without gaps, nearest first.
IsWalk(r, walk) == \A a \in walk : \E z \in walk \cup {r} : parent[z] = a

\* The todos of the tree are closed, and the walk goes as far as it can through
\* ancestors whose children are all finished then.
Close(how, tree, walk) ==
  /\ status' = [y \in Ids |-> IF status[y] # "open" THEN status[y]
                              ELSE IF y \in tree THEN how
                              ELSE IF y \in walk THEN "completed" ELSE "open"]
  /\ \A a \in walk, c \in Ids : parent[c] = a => status'[c] \in Finished
  /\ NobodyLeftBehind(status', parent)
  /\ UNCHANGED parent

Next ==
  \/ \E p \in Ids \cup {0}, S \in SUBSET Ids : Add(S, p)
  \/ \E r \in Ids, tree \in SUBSET Ids, walk \in SUBSET Ids :
       /\ status[r] = "open" /\ IsTree(r, tree) /\ IsWalk(r, walk)
       /\ \E how \in Finished : Close(how, tree, walk)

Spec == Init /\ [][Next]_vars

=============================================================================
