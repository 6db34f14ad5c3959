--------------------------- MODULE TtsJobLifecycle ---------------------------
(***************************************************************************)
(* What the durable queue promises a submitter, one job at a time and      *)
(* without threads, leases or retries: a job is claimed, its outcome is    *)
(* recorded once, a definite outcome is final, an unknown one stays        *)
(* AMBIGUOUS until somebody reconciles it, and the audio of a DONE job is  *)
(* never replaced.  (The promises are those of docs/tts_queue_operations.md *)
(* and of the status column of src/src/utils/tts_queue_db.py.)             *)
(***************************************************************************)
CONSTANTS Jobs, Renders, None

VARIABLES
  status,  \* status of each job, "ABSENT" before it is submitted
  audio    \* what a listener of a DONE job hears, None otherwise

vars == <<status, audio>>

Init ==
  /\ status = [j \in Jobs |-> "ABSENT"]
  /\ audio = [j \in Jobs |-> None]

Become(S, s) == status' = [j \in Jobs |-> IF j \in S THEN s ELSE status[j]]

Submit(j) ==
  /\ status[j] = "ABSENT"
  /\ Become({j}, "PENDING")
  /\ UNCHANGED audio

Claim(S) ==
  /\ \A j \in S : status[j] = "PENDING"
  /\ Become(S, "IN_PROGRESS")
  /\ UNCHANGED audio

\* A claim that was not used is given back.
GiveBack(j) ==
  /\ status[j] = "IN_PROGRESS"
  /\ Become({j}, "PENDING")
  /\ UNCHANGED audio

\* The render is published, by the claim holder or by reconciliation.
Finish(j) ==
  /\ status[j] \in {"IN_PROGRESS", "AMBIGUOUS"}
  /\ Become({j}, "DONE")
  /\ \E bytes \in Renders : audio' = [audio EXCEPT ![j] = bytes]

Fail(j) ==
  /\ status[j] = "IN_PROGRESS"
  /\ Become({j}, "FAILED")
  /\ UNCHANGED audio

LoseTrack(S) ==
  /\ \A j \in S : status[j] = "IN_PROGRESS"
  /\ Become(S, "AMBIGUOUS")
  /\ UNCHANGED audio

Next ==
  \/ \E j \in Jobs : Submit(j) \/ GiveBack(j) \/ Finish(j) \/ Fail(j)
  \/ \E S \in SUBSET Jobs : Claim(S) \/ LoseTrack(S)

Spec == Init /\ [][Next]_vars

=============================================================================
