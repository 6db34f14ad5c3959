----------------------------- MODULE MCTtsQueue -----------------------------
(***************************************************************************)
(* Instances of TtsQueue for TLC.                                          *)
(***************************************************************************)
EXTENDS TtsQueue, TLC

\* The later submission is the more urgent one, so that claim order and id
\* order disagree.
MCPriority == [j \in Jobs |-> 0 - j]

\* Worker threads are interchangeable.
WorkerSymmetry == Permutations(Workers)

=============================================================================
