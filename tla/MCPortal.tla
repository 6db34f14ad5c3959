------------------------------ MODULE MCPortal ------------------------------
(***************************************************************************)
(* The two parts with something that must happen in the end, for TLC: the  *)
(* portal's page and the threads of a worker pool.  They share nothing, so *)
(* only one of them is busy in a behaviour.                                *)
(***************************************************************************)
EXTENDS BriefPortal, WorkerPool, TLC

\* A parent with one child, and a row of its own.
MCTree == 1 :> {1, 2} @@ 2 :> {2} @@ 3 :> {3}

VARIABLE busy

vars == <<busy, portalVars, poolVars>>

OnPage(A) == busy = "page" /\ A /\ UNCHANGED <<busy, poolVars>>
OnPool(A) == busy = "pool" /\ A /\ UNCHANGED <<busy, portalVars>>

\* The page of an empty project while main() builds its brief, or one with an
\* open tree when it is built.
Init ==
    /\ busy \in {"page", "pool"}
    /\ PortalInit /\ PoolInit
    /\ \/ open = {} /\ starting = "building"
       \/ busy = "page" /\ open = {1, 2} /\ audio = "startup"

\* The fairness of the two modules, for behaviours in which they are busy.
Fairness ==
    /\ WF_vars(OnPage(\E q \in Requests : Tick(q))) /\ WF_vars(OnPage(EndOfAudio))
    /\ WF_vars(OnPage(AnswerClick \/ ClickAnswered))
    /\ \A q \in Requests : WF_vars(OnPage(ServerStep(q) \/ Delivery(q)))
    /\ WF_vars(OnPool(Sentinel)) /\ WF_vars(OnPool(Joined))
    /\ \A n \in 1..MaxStarts, s \in 0..Workers : WF_vars(OnPool(ThreadStep(n, s)))

Next == OnPage(PortalNext) \/ OnPool(PoolNext)

FairSpec == Init /\ [][Next]_vars /\ Fairness
=============================================================================
