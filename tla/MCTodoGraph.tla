----------------------------- MODULE MCTodoGraph -----------------------------
(***************************************************************************)
(* Instances of TodoGraph for TLC.                                         *)
(***************************************************************************)
EXTENDS TodoGraph

\* A child that needs its parent, and a parent that needs a later todo: a circle
\* once that one needs the child.
MCLinks ==
  [todo : {2}, needs : {1}, ok : {{"completed"}}]
    \cup [todo : {1}, needs : {3}, ok : {{"completed"}}]

\* A single child, three in a chain out of order, and two that are refused
\* because each requires the other.
MCBatches ==
  {[size |-> 1, needs |-> {}],
   [size |-> 3, needs |-> {<<0, 2>>, <<1, 0>>}],
   [size |-> 2, needs |-> {<<0, 1>>, <<1, 0>>}]}

Table(st, pa) == [status |-> st, parent |-> pa]

\* A new todo, two todos of one parent, and a table in which a todo was added
\* under a closed one, beside a stale child from before closing reasons.
MCSeeds ==
  {Table(<<"open", "absent", "absent", "absent">>, <<0, 0, 0, 0>>),
   Table(<<"open", "open", "open", "absent">>, <<0, 1, 1, 0>>),
   Table(<<"open", "completed", "open", "stale">>, <<0, 1, 2, 1>>),
   Table(<<"completed", "completed", "open", "open">>, <<0, 1, 2, 0>>),
   Table(<<"open", "stale", "open", "open">>, <<0, 1, 2, 3>>)}

\* One todo nobody has decomposed yet.
NewTodo == {Table(<<"open", "absent">>, <<0, 0>>)}

=============================================================================
