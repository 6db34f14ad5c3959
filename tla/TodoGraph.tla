------------------------------ MODULE TodoGraph ------------------------------
(***************************************************************************)
(* The todo graph (src/src/utils/todos_db.py) and the programs that write  *)
(* to it: an agent session behind the coordination MCP server, Tyler at    *)
(* the brief portal, and the scripts that score, discover and decompose.   *)
(* Every store operation is one BEGIN IMMEDIATE transaction and is one     *)
(* action here; an operation that raises rolls back and changes nothing.   *)
(*                                                                         *)
(* Abstractions.  updated_at is a number that grows with every write of    *)
(* the row: the clock is assumed to advance between writes of one row, and *)
(* a row inserted without it has its created_at, which init_db fills in    *)
(* before the row is read through the MCP server.  The editable columns    *)
(* (text, priority, context) are one number counting their changes.  The   *)
(* (project, source, text) index only refuses inserts and is left out.     *)
(***************************************************************************)
EXTENDS Integers, FiniteSets

CONSTANTS
  MaxId,     \* bound: rows the AUTOINCREMENT key hands out
  Seeds,     \* tables an existing database may hold: [status, parent] records
  Keys,      \* idempotency keys of child batches
  Watched,   \* bound: rows the agent works on and others edit
  MaxEdits,  \* bound: edits of one row
  Links,     \* bound: prerequisite edges somebody may ask for
  Batches,   \* bound: child batches somebody may ask for, [size, needs] records
  None

Ids == 1..MaxId
Terminal == {"completed", "cancelled", "stale"}
Finished == {"completed", "cancelled"}
Status == {"absent", "open"} \cup Terminal
Edge == [todo : Ids, needs : Ids, ok : SUBSET Terminal]

\* The children of a batch have consecutive ids: <<i, j>> of its payload says
\* that its child i requires its child j, both counted from 0.
Batch == [key : Keys, parent : Ids, asked : Batches, first : Ids]
Child(b, i) == b.first + i
Children(b) == b.first..(b.first + b.asked.size - 1)

VARIABLES
  status,   \* done and closure_reason
  parent,   \* parent_id, 0 for NULL
  version,  \* updated_at, 0 for a row that does not exist
  edits,    \* the editable columns
  edges,    \* todo_prerequisites, the edge's policy in ok
  batches,  \* todo_batch_operations: key, parent, payload and children of each batch
  answers,  \* history: the records whose children were answered to a caller
  origin,   \* history: the key whose batch inserted the row
  agent     \* what the agent session knows, and where it is

vars == <<status, parent, version, edits, edges, batches, answers, origin, agent>>

\* x is an open row whose children have all been dealt with.
LeftBehind(st, pa, x) ==
  /\ st[x] = "open"
  /\ \E c \in Ids : pa[c] = x
  /\ \A c \in Ids : pa[c] = x => st[c] \in Finished

\* What a database kept by this code looks like: ids are handed out upwards,
\* so a parent is older than its children.
WellFormed(st, pa) ==
  /\ st \in [Ids -> Status]
  /\ pa \in [Ids -> Int]
  /\ \A x \in Ids : /\ 0 <= pa[x] /\ pa[x] < x
                    /\ st[x] # "absent" => \A y \in 1..x : st[y] # "absent"
                    /\ st[x] = "absent" => pa[x] = 0
                    /\ ~LeftBehind(st, pa, x)

ASSUME TodoAssumption ==
  /\ MaxId \in Nat
  /\ MaxEdits \in Nat
  /\ Links \subseteq Edge
  /\ Batches \subseteq [size : Nat, needs : SUBSET (Int \X Int)]
  /\ Watched \subseteq Ids
  /\ None \notin Keys
  /\ \A s \in Seeds : WellFormed(s.status, s.parent)

Idle == [at |-> "idle", id |-> 0, version |-> 0, edits |-> 0]

Init ==
  /\ \E s \in Seeds : status = s.status /\ parent = s.parent
  /\ version = [x \in Ids |-> IF status[x] = "absent" THEN 0 ELSE 1]
  /\ edits = [x \in Ids |-> 0]
  /\ edges = {}
  /\ batches = {} /\ answers = {}
  /\ origin = [x \in Ids |-> None]
  /\ agent = Idle

-----------------------------------------------------------------------------
(* Trees and prerequisites.                                                *)

\* The recursive query of the closing transaction: x and everything below
\* it, through rows that are already closed as well.
Subtree(x) ==
  {y \in Ids : \A S \in SUBSET Ids :
     x \in S /\ (\A c \in Ids : parent[c] \in S => c \in S) => y \in S}

\* The upward walk goes from x to its parent when x was the parent's last
\* unfinished child and the parent was not closed as stale.
Climbs(x) ==
  /\ parent[x] # 0
  /\ status[parent[x]] # "stale"
  /\ \A c \in Ids \ {x} : parent[c] = parent[x] => status[c] \in Finished

\* Variant: the walk looks at the direct parent only.
Walked_OneLevel(x) == IF Climbs(x) THEN {parent[x]} ELSE {}

Walked(x) ==
  {y \in Ids : \A S \in SUBSET Ids :
     (\A z \in S \cup {x} : Climbs(z) => parent[z] \in S) => y \in S}

OpenIn(S) == {y \in S : status[y] = "open"}

Ready(x, st) == \A e \in edges : e.todo = x => st[e.needs] \in e.ok

\* The rows while the walk stands at ancestor a; a = 0 once it is done.
\* Ancestors nearer the root of the closing have the larger ids.
ClosedUpTo(x, how, a) ==
  LET tree == OpenIn(Subtree(x))
      walk == OpenIn(Walked(x))
  IN  [y \in Ids |-> IF y \in tree THEN how
                    ELSE IF y \in walk /\ y > a THEN "completed"
                    ELSE status[y]]

\* Variant: only the named todo is checked.
TreeReady_RootOnly(x, how) == Ready(x, status)

\* Every row of the tree is checked before the first is closed, every
\* ancestor when the walk reaches it.
TreeReady(x, how) ==
  /\ \A y \in OpenIn(Subtree(x)) : Ready(y, status)
  /\ \A a \in OpenIn(Walked(x)) : Ready(a, ClosedUpTo(x, how, a))

\* Variant: only the todo and its direct children are closed.
CloseTree_Direct(x, how) ==
  /\ status' = [y \in Ids |-> IF y = x \/ (parent[y] = x /\ status[y] = "open")
                             THEN how ELSE status[y]]
  /\ UNCHANGED <<parent, edits, edges, batches, answers, origin>>

CloseTree(x, how) ==
  /\ status' = ClosedUpTo(x, how, 0)
  /\ UNCHANGED <<parent, edits, edges, batches, answers, origin>>

\* Variant: only direct prerequisites are looked at.
Needed_Direct(x) == {x} \cup {e.needs : e \in {f \in edges : f.todo = x}}

\* Rows a chain of prerequisites leads to from x, x included.
Needed(x) ==
  {y \in Ids : \A S \in SUBSET Ids :
     x \in S /\ (\A e \in edges : e.todo \in S => e.needs \in S) => y \in S}

-----------------------------------------------------------------------------
(* Inserting rows.                                                         *)

NextId(x) == status[x] = "absent" /\ \A y \in 1..(x - 1) : status[y] # "absent"

ParentOk(p) == p = 0 \/ (p \in Ids /\ status[p] # "absent")

\* The rows of xs become open children of p; k is the batch they
\* belong to.
InsertRows(xs, p, k) ==
  /\ status' = [x \in Ids |-> IF x \in xs THEN "open" ELSE status[x]]
  /\ parent' = [x \in Ids |-> IF x \in xs THEN p ELSE parent[x]]
  /\ version' = [x \in Ids |-> IF x \in xs THEN 1 ELSE version[x]]
  /\ origin' = [x \in Ids |-> IF x \in xs THEN k ELSE origin[x]]
  /\ UNCHANGED <<edits, agent>>

\* todo.create, todo.decompose, the portal's form, discovery.  The parent only
\* has to exist: it may be closed already.
AddTodo(p) ==
  /\ ParentOk(p)
  /\ \E x \in Ids : NextId(x) /\ InsertRows({x}, p, None)
  /\ UNCHANGED <<edges, batches, answers>>

\* A batch is refused when it is empty, when an index is out of range or a child
\* requires itself, and when visit() comes back to a child it has not finished:
\* otherwise it finishes every child after the children that one requires.
Accepted(asked) ==
  LET indices == 0..(asked.size - 1)
  IN  /\ asked.size > 0
      /\ asked.needs \subseteq indices \X indices
      /\ \E visited \in [indices -> indices] :
            \A d \in asked.needs : visited[d[2]] < visited[d[1]]

\* The rows of b, their edges and the record, in one transaction; the answer may
\* be lost after it.
InsertBatch(b) ==
  /\ NextId(b.first)
  /\ Children(b) \subseteq Ids
  /\ status[b.parent] # "absent"
  /\ InsertRows(Children(b), b.parent, b.key)
  /\ edges' = edges \cup {[todo |-> Child(b, d[1]), needs |-> Child(b, d[2]), ok |-> Terminal] :
                           d \in b.asked.needs}
  /\ batches' = batches \cup {b}
  /\ answers' \in {answers, answers \cup {b}}

\* Variant: a retried call is not recognised by its key.
CreateChildrenBatch_NoReplay(b) == Accepted(b.asked) /\ InsertBatch(b)

\* A key that is known already is answered the recorded children, when parent and
\* payload are the recorded ones, or is refused: neither writes anything.
CreateChildrenBatch(b) ==
  /\ Accepted(b.asked)
  /\ \/ /\ \A known \in batches : known.key # b.key
        /\ InsertBatch(b)
     \/ /\ \E known \in batches :
             /\ known.key = b.key /\ known.parent = b.parent /\ known.asked = b.asked
             /\ answers' = answers \cup {[b EXCEPT !.first = known.first]}
        /\ UNCHANGED <<status, parent, version, edits, edges, batches, origin, agent>>

-----------------------------------------------------------------------------
(* Edits and links.                                                        *)

\* Variant: the write leaves updated_at alone.
Edit_KeepsVersion(x) ==
  /\ x \in Watched /\ edits[x] < MaxEdits
  /\ edits' = [edits EXCEPT ![x] = @ + 1]
  /\ UNCHANGED <<version, status, parent, edges, batches, answers, origin>>

Edit(x) ==
  /\ x \in Watched /\ edits[x] < MaxEdits
  /\ edits' = [edits EXCEPT ![x] = @ + 1]
  /\ version' = [version EXCEPT ![x] = @ + 1]
  /\ UNCHANGED <<status, parent, edges, batches, answers, origin>>

\* A priority set without a version: by Tyler at the portal, by a rescoring
\* script that read the table some time ago, or by todo.set_priority.
UpdatePriority(x) == status[x] # "absent" /\ Edit(x) /\ UNCHANGED agent

\* A prerequisite edge e, unless it would close a cycle of such edges.  One
\* between rows that are linked already is ignored, whatever its policy.
LinkPrerequisite(e) ==
  /\ status[e.todo] # "absent" /\ status[e.needs] # "absent"
  /\ e.todo \notin Needed(e.needs)
  /\ \A f \in edges : f.todo = e.todo => f.needs # e.needs
  /\ edges' = edges \cup {e}
  /\ UNCHANGED <<status, parent, version, edits, batches, answers, origin, agent>>

-----------------------------------------------------------------------------
(* The agent session: todo.read, then a write that quotes the version.     *)

ReadTodo(x) ==
  /\ agent.at = "idle"
  /\ x \in Watched /\ status[x] # "absent"
  /\ agent' = [at |-> "read", id |-> x, version |-> version[x], edits |-> edits[x]]
  /\ UNCHANGED <<status, parent, version, edits, edges, batches, answers, origin>>

\* WHERE updated_at=? finds no row under a stale version.
VersionMatches == version[agent.id] = agent.version

\* todo.update, and todo.set_priority with a version.  A row closed in the
\* meantime can still be edited: closing a tree does not touch its version.
UpdateTodo ==
  /\ agent.at = "read"
  /\ VersionMatches
  /\ Edit(agent.id)
  /\ agent' = Idle

\* todo.complete refuses a parent.  The children are read before, and outside
\* of, the transaction that closes the todo.
CompleteCheck ==
  /\ agent.at = "read"
  /\ \A c \in Ids : parent[c] # agent.id
  /\ agent' = [agent EXCEPT !.at = "checked"]
  /\ UNCHANGED <<status, parent, version, edits, edges, batches, answers, origin>>

CompleteTodo ==
  /\ agent.at = "checked"
  /\ VersionMatches
  /\ status[agent.id] = "open"
  /\ TreeReady(agent.id, "completed")
  /\ CloseTree(agent.id, "completed")
  /\ version' = [version EXCEPT ![agent.id] = @ + 1]
  /\ agent' = Idle

\* The write was refused (a stale version, a closed or blocked todo, an edit
\* not allowed), or the session dropped it.
GiveUp ==
  /\ agent.at # "idle"
  /\ agent' = Idle
  /\ UNCHANGED <<status, parent, version, edits, edges, batches, answers, origin>>

-----------------------------------------------------------------------------
(* Tyler at the portal.                                                    *)

\* The done button forces the closing through every readiness check
\* (close_todo_tree with force).
MarkDone(x) ==
  /\ status[x] = "open"
  /\ CloseTree(x, "completed")
  /\ UNCHANGED <<version, agent>>

\* Variant: a reason the closure_reason column does not allow.
CancelTodo_OtherReason(x) ==
  /\ status[x] = "open"
  /\ CloseTree(x, "dropped")
  /\ UNCHANGED <<version, agent>>

\* The cancel button calls close_todo_tree without force.
CancelTodo(x) ==
  /\ status[x] = "open"
  /\ TreeReady(x, "cancelled")
  /\ CloseTree(x, "cancelled")
  /\ UNCHANGED <<version, agent>>

Next ==
  \/ \E p \in Ids \cup {0} : AddTodo(p)
  \/ \E b \in Batch : CreateChildrenBatch(b)
  \/ \E x \in Ids : UpdatePriority(x) \/ ReadTodo(x) \/ MarkDone(x) \/ CancelTodo(x)
  \/ \E e \in Links : LinkPrerequisite(e)
  \/ UpdateTodo \/ CompleteCheck \/ CompleteTodo \/ GiveUp

Spec == Init /\ [][Next]_vars

-----------------------------------------------------------------------------
(* Properties.                                                             *)

\* Every variable keeps its shape.
TypeOK ==
  /\ status \in [Ids -> Status]
  /\ parent \in [Ids -> Int]
  /\ version \in [Ids -> Nat]
  /\ edits \in [Ids -> Nat]
  /\ edges \subseteq Edge
  /\ batches \subseteq Batch /\ answers \subseteq Batch
  /\ origin \in [Ids -> Keys \cup {None}]
  /\ agent \in [at : {"idle", "read", "checked"}, id : Ids \cup {0},
                version : Nat, edits : Nat]

\* No todo is left open once all its children are completed or cancelled: the
\* upward walk of the closing transaction finds it, whoever closed the last
\* child, at whatever depth and through ancestors closed before.
NoParentLeftBehind == \A x \in Ids : ~LeftBehind(status, parent, x)

\* No set of todos waits on itself: each member of it requires another member.
PrerequisitesAcyclic ==
  \A S \in SUBSET Ids : S # {} =>
     \E x \in S : \A e \in edges : e.todo = x => e.needs \notin S

NewlyClosed(x) == status[x] = "open" /\ status'[x] \in Terminal

\* Whoever closes a todo without Tyler's force, directly, as part of a tree or
\* as an ancestor, closes it with all its prerequisites in a state its edges
\* accept.
ClosesOnlyReady ==
  [][(\E y \in Ids : NewlyClosed(y) /\ ~Ready(y, status')) =>
       \E x \in Ids : MarkDone(x)]_vars

\* Through versions, batches, readiness checks, force and the walks of the
\* closing transaction the table does what TodoForest promises: one closing
\* closes everything that was open under one todo, also below rows closed before,
\* and above it exactly the ancestors that are left without unfinished work;
\* nothing is stranded, nobody's unfinished work is swept along, nothing that was
\* closed is opened again or closed for another reason.
Promise == INSTANCE TodoForest
ImplementsForest == Promise!Spec

\* A write that quotes a version is applied to the columns its author read.
NoLostUpdate ==
  [][UpdateTodo \/ CompleteTodo => edits[agent.id] = agent.edits]_vars

\* A key creates its children once, however often the call is retried with the
\* same or another parent or payload and whichever answers are lost: a caller is
\* answered all rows inserted under his key, and they are the children he asked
\* for, under the parent and with the edges he asked for.
BatchOnce ==
  /\ \A a \in answers :
       /\ {x \in Ids : origin[x] = a.key} = Children(a)
       /\ \A x \in Children(a) : parent[x] = a.parent
       /\ \A d \in a.asked.needs : \E e \in edges :
             e.todo = Child(a, d[1]) /\ e.needs = Child(a, d[2])
  /\ \A a, b \in answers : a.key = b.key => a = b

\* mcp_server.py:139: "parent todos require Tyler to complete them manually".
ParentsCompletedByTyler ==
  [][CompleteTodo => \A c \in Ids : parent[c] # agent.id]_vars

=============================================================================
