---------------------------- MODULE TtsQueueStore ----------------------------
(***************************************************************************)
(* The SQLite tables of the durable text-to-speech queue and the           *)
(* transactions that change them (src/src/utils/tts_queue_db.py), together *)
(* with the directory of published artifacts.  Each operator below is ONE  *)
(* committed transaction: what the code reads before the transaction opens *)
(* is a parameter, read by the caller in an earlier step.                  *)
(*                                                                         *)
(* Abstractions.  A job row keeps its control columns only.  The attempt   *)
(* rows of a job are reduced to how many are still STARTED and to the      *)
(* status of the newest one; the recovery rows to the set of jobs that     *)
(* have one.  An artifact is the render (the bytes) stored under the job's *)
(* path, and the persisted SHA-256 digest is that render: distinct renders *)
(* have distinct digests.                                                  *)
(***************************************************************************)
EXTENDS Integers, FiniteSets

CONSTANTS
  Jobs,        \* row ids the AUTOINCREMENT key hands out, in submission order
  Renders,     \* byte strings the provider may return for one request
  Priority,    \* Priority[j]: the priority column the submitter gave row j
  MaxRetries,  \* the max_retries column
  None         \* SQL NULL

ASSUME StoreAssumption ==
  /\ Jobs \subseteq Nat
  /\ IsFiniteSet(Jobs)
  /\ Priority \in [Jobs -> Int]
  /\ MaxRetries \in Nat \ {0}
  /\ None \notin Renders

VARIABLES
  row,         \* tts_queue
  attempts,    \* tts_queue_attempts
  recoveries,  \* jobs with a row in tts_queue_recoveries
  file         \* output/tts/<job-id>.mp3

store == <<row, attempts, recoveries, file>>

JobStatus == {"PENDING", "IN_PROGRESS", "DONE", "FAILED", "AMBIGUOUS"}
AttemptStatus == {"STARTED", "SUCCEEDED", "FAILED", "AMBIGUOUS"}

\* started_at: NULL, within the lease, or older than the lease timeout.
Lease == {"none", "fresh", "expired"}

Row == [status  : JobStatus \cup {"ABSENT"},
        retries : Nat,
        lease   : Lease,
        pub     : {"UNPUBLISHED", "WRITING", "VERIFIED"},
        digest  : Renders \cup {None}]

NoRow == [status |-> "ABSENT", retries |-> 0, lease |-> "none",
          pub |-> "UNPUBLISHED", digest |-> None]

Attempts == [open : Nat, newest : AttemptStatus \cup {"NONE"}]

StoreInit ==
  /\ row = [j \in Jobs |-> NoRow]
  /\ attempts = [j \in Jobs |-> [open |-> 0, newest |-> "NONE"]]
  /\ recoveries = {}
  /\ file = [j \in Jobs |-> None]

StoreTypeOK ==
  /\ row \in [Jobs -> Row]
  /\ attempts \in [Jobs -> Attempts]
  /\ recoveries \subseteq Jobs
  /\ file \in [Jobs -> Renders \cup {None}]

InStatus(s) == {j \in Jobs : row[j].status = s}

-----------------------------------------------------------------------------
(* Attempt rows.                                                           *)

Opened(a) == [open |-> a.open + 1, newest |-> "STARTED"]

\* UPDATE ... WHERE id = (SELECT id ... status='STARTED' ORDER BY id DESC LIMIT 1):
\* the newest STARTED row, if there is one.
ClosedNewest(a, s) ==
  [open   |-> IF a.open = 0 THEN 0 ELSE a.open - 1,
   newest |-> IF a.newest = "STARTED" THEN s ELSE a.newest]

\* UPDATE ... WHERE job_id=? AND status='STARTED': every STARTED row.
ClosedAll(a) ==
  [open   |-> 0,
   newest |-> IF a.newest = "STARTED" THEN "AMBIGUOUS" ELSE a.newest]

CloseNewestAttempt(j, s) ==
  attempts' = [attempts EXCEPT ![j] = ClosedNewest(@, s)]

-----------------------------------------------------------------------------
(* Transactions.                                                           *)

\* enqueue_on_connection_status: the INSERT that is not ignored.
Insert(j) ==
  /\ row' = [row EXCEPT ![j].status = "PENDING"]
  /\ UNCHANGED <<attempts, recoveries, file>>

\* SELECT ... WHERE status='PENDING' ORDER BY priority ASC, id ASC LIMIT limit.
Before(i, j) ==
  \/ Priority[i] < Priority[j]
  \/ Priority[i] = Priority[j] /\ i < j

Claimable == InStatus("PENDING")

IsBatch(B, limit) ==
  /\ B \subseteq Claimable
  /\ Cardinality(B) =
       IF Cardinality(Claimable) < limit THEN Cardinality(Claimable) ELSE limit
  /\ \A i \in B, j \in Claimable \ B : Before(i, j)

\* Mutant: the claim opens the attempts and forgets to move the rows.
Claim_LeavesPending(B) ==
  /\ row' = [j \in Jobs |-> IF j \in B THEN [row[j] EXCEPT !.lease = "fresh"] ELSE row[j]]
  /\ attempts' = [j \in Jobs |-> IF j \in B THEN Opened(attempts[j]) ELSE attempts[j]]
  /\ UNCHANGED <<recoveries, file>>

\* dequeue_pending: the batch turns IN_PROGRESS and each row opens an attempt.
Claim(B) ==
  /\ row' = [j \in Jobs |->
               IF j \in B
               THEN [row[j] EXCEPT !.status = "IN_PROGRESS",
                                   !.lease = "fresh",
                                   !.pub = "UNPUBLISHED"]
               ELSE row[j]]
  /\ attempts' = [j \in Jobs |-> IF j \in B THEN Opened(attempts[j]) ELSE attempts[j]]
  /\ UNCHANGED <<recoveries, file>>

\* The worker's own UPDATE before it publishes: not conditional on the status.
MarkWriting(j) ==
  /\ row' = [row EXCEPT ![j].pub = "WRITING"]
  /\ UNCHANGED <<attempts, recoveries, file>>

\* atomic_write_bytes: temporary file, then rename over <job-id>.mp3.
WriteArtifact(j, bytes) ==
  /\ file' = [file EXCEPT ![j] = bytes]
  /\ UNCHANGED <<row, attempts, recoveries>>

\* The check mark_done makes of the published artifact before its UPDATE.
ArtifactMatches(j, bytes) == file[j] = bytes

\* The UPDATE of mark_done: not conditional on the status.
MarkDone(j, bytes) ==
  /\ row' = [row EXCEPT ![j].status = "DONE", ![j].digest = bytes, ![j].pub = "VERIFIED"]
  /\ CloseNewestAttempt(j, "SUCCEEDED")
  /\ UNCHANGED <<recoveries, file>>

MarkFailed(j) ==
  /\ row' = [row EXCEPT ![j].status = "FAILED"]
  /\ CloseNewestAttempt(j, "FAILED")
  /\ UNCHANGED <<recoveries, file>>

\* _handle_ambiguous_error: not conditional on the status.
MarkAmbiguous(j) ==
  /\ row' = [row EXCEPT ![j].status = "AMBIGUOUS"]
  /\ attempts' = [attempts EXCEPT ![j] = ClosedAll(@)]
  /\ UNCHANGED <<recoveries, file>>

\* Mutant: one retry too many.
CommitRetry_OneMore(j, seen) ==
  /\ row' = [row EXCEPT ![j].retries = seen + 1,
                        ![j].status = IF seen < MaxRetries THEN "PENDING" ELSE "FAILED"]
  /\ CloseNewestAttempt(j, "FAILED")
  /\ UNCHANGED <<recoveries, file>>

\* The UPDATEs of increment_retry, from the retry_count read before them.
CommitRetry(j, seen) ==
  /\ row' = [row EXCEPT ![j].retries = seen + 1,
                        ![j].status = IF seen + 1 < MaxRetries THEN "PENDING" ELSE "FAILED"]
  /\ CloseNewestAttempt(j, "FAILED")
  /\ UNCHANGED <<recoveries, file>>

\* Mutant: the row is given back and its attempt stays STARTED.
RequeueAfterLocalFailure_LeavesAttempt(j) ==
  /\ row' = IF row[j].status = "IN_PROGRESS"
            THEN [row EXCEPT ![j].status = "PENDING", ![j].lease = "none"]
            ELSE row
  /\ UNCHANGED <<attempts, recoveries, file>>

\* Mutant: the row is given back without asking whether it is still claimed.
RequeueAfterLocalFailure_Unguarded(j) ==
  /\ CloseNewestAttempt(j, "FAILED")
  /\ row' = [row EXCEPT ![j].status = "PENDING", ![j].lease = "none"]
  /\ UNCHANGED <<recoveries, file>>

RequeueAfterLocalFailure(j) ==
  /\ CloseNewestAttempt(j, "FAILED")
  /\ row' = IF row[j].status = "IN_PROGRESS"
            THEN [row EXCEPT ![j].status = "PENDING", ![j].lease = "none"]
            ELSE row
  /\ UNCHANGED <<recoveries, file>>

\* What the SELECT of recover_stale_jobs and its cutoff test return.
Stale == {j \in InStatus("IN_PROGRESS") : row[j].lease = "expired"}

\* The transaction of recover_stale_jobs over the rows S selected earlier: only
\* the status update repeats the IN_PROGRESS condition.
RecoverStale(S) ==
  /\ row' = [j \in Jobs |->
               IF j \in S /\ row[j].status = "IN_PROGRESS"
               THEN [row[j] EXCEPT !.status = "AMBIGUOUS", !.lease = "none"]
               ELSE row[j]]
  /\ recoveries' = recoveries \cup S
  /\ attempts' = [j \in Jobs |-> IF j \in S THEN ClosedAll(attempts[j]) ELSE attempts[j]]
  /\ UNCHANGED file

\* Five minutes pass since started_at.
ExpireLease(j) ==
  /\ row[j].status = "IN_PROGRESS"
  /\ row[j].lease = "fresh"
  /\ row' = [row EXCEPT ![j].lease = "expired"]
  /\ UNCHANGED <<attempts, recoveries, file>>

=============================================================================
