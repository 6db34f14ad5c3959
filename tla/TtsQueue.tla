------------------------------ MODULE TtsQueue ------------------------------
(***************************************************************************)
(* The durable text-to-speech queue at work: one process running a         *)
(* TtsQueueWorker (a poll thread, a bounded internal queue and a pool of   *)
(* worker threads; src/src/services/tts_queue_worker.py) over the tables   *)
(* of TtsQueueStore, together with submitters, operator sessions of the    *)
(* queue CLI (src/tools/tts_queue.py) and crashes of the worker process.   *)
(*                                                                         *)
(* Every action is one step that other threads can interleave with: one    *)
(* committed transaction, one read outside a transaction, one operation on *)
(* the internal queue or on the artifact directory.                        *)
(***************************************************************************)
EXTENDS TtsQueueStore, Sequences

CONSTANTS
  Workers,     \* worker threads
  Operators,   \* operator sessions: CLI recover-stale, reconcile_existing_artifact
  QueueCap,    \* maxsize of the internal queue (workers * 4 in the code)
  Spoken,      \* rows that carry a decision_id and are played when DONE
  Outcomes,    \* how provider calls may end, see OutcomeKinds
  Prompt,      \* TRUE: no lease runs out while a thread still holds the job
  MaxCrashes   \* bound on the crashes of the worker process

\* ok: audio; transient: 408, 429; uncertain: a status >= 500 or a RequestError;
\* rejected: any other error, a refused quota reservation included.
OutcomeKinds == {"ok", "transient", "uncertain", "rejected"}

ASSUME QueueAssumption ==
  /\ IsFiniteSet(Workers)
  /\ QueueCap \in Nat \ {0}
  /\ Spoken \subseteq Jobs
  /\ Outcomes \subseteq OutcomeKinds
  /\ Prompt \in BOOLEAN
  /\ MaxCrashes \in Nat
  /\ None \notin Jobs

VARIABLES
  queue,     \* the internal queue.Queue of job dicts, by id
  worker,    \* worker[w]: where _process_job of thread w stands
  poller,    \* where _poll_loop stands, and the ids it holds
  operator,  \* operator[o]: where an operator session stands
  crashes    \* crashes so far

vars == <<store, queue, worker, poller, operator, crashes>>

WorkerPC == {"idle", "call", "publish", "verify", "commit", "play",
             "retry", "backoff", "resubmit"}

Worker == [pc : WorkerPC, job : Jobs \cup {None}, seen : Nat, out : Renders \cup {None}]
Idle == [pc |-> "idle", job |-> None, seen |-> 0, out |-> None]

PollerPC == {"scan", "recover", "claim", "put", "full"}
Poller == [pc : PollerPC, jobs : SUBSET Jobs]
Scanning == [pc |-> "scan", jobs |-> {}]

OperatorPC == {"idle", "recover", "verify", "reconcile"}
Operator == [pc : OperatorPC, jobs : SUBSET Jobs, out : Renders \cup {None}]
Away == [pc |-> "idle", jobs |-> {}, out |-> None]

Init ==
  /\ StoreInit
  /\ queue = <<>>
  /\ worker = [w \in Workers |-> Idle]
  /\ poller = Scanning
  /\ operator = [o \in Operators |-> Away]
  /\ crashes = 0

TypeOK ==
  /\ StoreTypeOK
  /\ queue \in Seq(Jobs) /\ Len(queue) <= QueueCap
  /\ worker \in [Workers -> Worker]
  /\ poller \in Poller
  /\ operator \in [Operators -> Operator]
  /\ crashes \in Nat

-----------------------------------------------------------------------------
(* Submitters and time.                                                    *)

Enqueue(j) ==
  /\ row[j].status = "ABSENT"
  /\ \A i \in Jobs : i < j => row[i].status # "ABSENT"
  /\ Insert(j)
  /\ UNCHANGED <<queue, worker, poller, operator, crashes>>

\* Thread w still has the outcome of its copy of the job to record.
WorksOn(w, j) == worker[w].job = j /\ worker[w].pc # "play"

\* A thread or the internal queue holds the job and will still act on it.
Held(j) ==
  \/ \E i \in DOMAIN queue : queue[i] = j
  \/ \E w \in Workers : WorksOn(w, j)
  \/ poller.pc \in {"put", "full"} /\ j \in poller.jobs

LeaseExpires(j) ==
  /\ Prompt => ~Held(j)
  /\ ExpireLease(j)
  /\ UNCHANGED <<queue, worker, poller, operator, crashes>>

-----------------------------------------------------------------------------
(* _poll_loop.                                                             *)

\* Mutant: the poll thread leaves recovery to the operators.
PollScan_NoRecovery ==
  /\ poller.pc = "scan"
  /\ poller' = [pc |-> "claim", jobs |-> {}]
  /\ UNCHANGED <<store, queue, worker, operator, crashes>>

PollScan ==
  /\ poller.pc = "scan"
  /\ poller' = IF Stale = {} THEN [pc |-> "claim", jobs |-> {}]
                             ELSE [pc |-> "recover", jobs |-> Stale]
  /\ UNCHANGED <<store, queue, worker, operator, crashes>>

PollRecover ==
  /\ poller.pc = "recover"
  /\ RecoverStale(poller.jobs)
  /\ poller' = [pc |-> "claim", jobs |-> {}]
  /\ UNCHANGED <<queue, worker, operator, crashes>>

PollClaim ==
  /\ poller.pc = "claim"
  /\ \E B \in SUBSET Claimable :
       /\ IsBatch(B, Cardinality(Workers))
       /\ Claim(B)
       /\ poller' = IF B = {} THEN Scanning ELSE [pc |-> "put", jobs |-> B]
  /\ UNCHANGED <<queue, worker, operator, crashes>>

\* The claimed rows come back in id order, whatever their priority.
NextClaimed(j) == j \in poller.jobs /\ \A i \in poller.jobs : j <= i

Dispatched(j) ==
  IF poller.jobs = {j} THEN Scanning ELSE [pc |-> "put", jobs |-> poller.jobs \ {j}]

PollPut(j) ==
  /\ poller.pc = "put"
  /\ NextClaimed(j)
  /\ Len(queue) < QueueCap
  /\ queue' = Append(queue, j)
  /\ poller' = Dispatched(j)
  /\ UNCHANGED <<store, worker, operator, crashes>>

\* put(timeout=poll_interval) raised queue.Full.
PollFull ==
  /\ poller.pc = "put"
  /\ Len(queue) = QueueCap
  /\ poller' = [poller EXCEPT !.pc = "full"]
  /\ UNCHANGED <<store, queue, worker, operator, crashes>>

\* Mutant: the claim is given back, but the row stays in the dispatched batch.
PollRequeue_KeepsBatch(j) ==
  /\ poller.pc = "full"
  /\ NextClaimed(j)
  /\ RequeueAfterLocalFailure(j)
  /\ poller' = [poller EXCEPT !.pc = "put"]
  /\ UNCHANGED <<queue, worker, operator, crashes>>

PollRequeue(j) ==
  /\ poller.pc = "full"
  /\ NextClaimed(j)
  /\ RequeueAfterLocalFailure(j)
  /\ poller' = Dispatched(j)
  /\ UNCHANGED <<queue, worker, operator, crashes>>

\* A database call of the poll thread raises (the database stays locked): the
\* cycle ends there, and what it had claimed and not dispatched is forgotten.
PollAbort ==
  /\ poller.pc \in {"recover", "claim", "full"}
  /\ poller' = Scanning
  /\ UNCHANGED <<store, queue, worker, operator, crashes>>

-----------------------------------------------------------------------------
(* _worker_loop and _process_job.                                          *)

Goto(w, pc) == worker' = [worker EXCEPT ![w].pc = pc]
Release(w) == worker' = [worker EXCEPT ![w] = Idle]

Take(w) ==
  /\ worker[w].pc = "idle"
  /\ queue # <<>>
  /\ worker' = [worker EXCEPT ![w] = [Idle EXCEPT !.pc = "call", !.job = Head(queue)]]
  /\ queue' = Tail(queue)
  /\ UNCHANGED <<store, poller, operator, crashes>>

\* Mutant: the row is completed without publishing and reading back the bytes.
Synthesize_SkipsPublication(w) ==
  /\ worker[w].pc = "call"
  /\ "ok" \in Outcomes
  /\ MarkWriting(worker[w].job)
  /\ \E bytes \in Renders :
       worker' = [worker EXCEPT ![w].pc = "commit", ![w].out = bytes]
  /\ UNCHANGED <<queue, poller, operator, crashes>>

\* The provider returned audio: publication_state turns WRITING.
Synthesize(w) ==
  /\ worker[w].pc = "call"
  /\ "ok" \in Outcomes
  /\ MarkWriting(worker[w].job)
  /\ \E bytes \in Renders :
       worker' = [worker EXCEPT ![w].pc = "publish", ![w].out = bytes]
  /\ UNCHANGED <<queue, poller, operator, crashes>>

Publish(w) ==
  /\ worker[w].pc = "publish"
  /\ WriteArtifact(worker[w].job, worker[w].out)
  /\ Goto(w, "verify")
  /\ UNCHANGED <<queue, poller, operator, crashes>>

\* mark_done reads the artifact back; a mismatch raises and the row stays as it is.
Verify(w) ==
  /\ worker[w].pc = "verify"
  /\ IF ArtifactMatches(worker[w].job, worker[w].out) THEN Goto(w, "commit") ELSE Release(w)
  /\ UNCHANGED <<store, queue, poller, operator, crashes>>

Complete(w) ==
  /\ worker[w].pc = "commit"
  /\ MarkDone(worker[w].job, worker[w].out)
  /\ IF worker[w].job \in Spoken THEN Goto(w, "play") ELSE Release(w)
  /\ UNCHANGED <<queue, poller, operator, crashes>>

\* Mutant: a playback that does not succeed fails the job, as a rejected
\* synthesis does.
EndPlayback_FailsJob(w) ==
  /\ worker[w].pc = "play"
  /\ MarkFailed(worker[w].job)
  /\ Release(w)
  /\ UNCHANGED <<queue, poller, operator, crashes>>

\* Playback ended, failed, timed out or was cancelled: the row keeps its status.
EndPlayback(w) ==
  /\ worker[w].pc = "play"
  /\ Release(w)
  /\ UNCHANGED <<store, queue, poller, operator, crashes>>

Reject(w) ==
  /\ worker[w].pc = "call"
  /\ "rejected" \in Outcomes
  /\ MarkFailed(worker[w].job)
  /\ Release(w)
  /\ UNCHANGED <<queue, poller, operator, crashes>>

LoseOutcome(w) ==
  /\ worker[w].pc = "call"
  /\ "uncertain" \in Outcomes
  /\ MarkAmbiguous(worker[w].job)
  /\ Release(w)
  /\ UNCHANGED <<queue, poller, operator, crashes>>

\* increment_retry: the SELECT, then the transaction.
ReadRetryCount(w) ==
  /\ worker[w].pc = "call"
  /\ "transient" \in Outcomes
  /\ worker' = [worker EXCEPT ![w].pc = "retry", ![w].seen = row[worker[w].job].retries]
  /\ UNCHANGED <<store, queue, poller, operator, crashes>>

IncrementRetry(w) ==
  /\ worker[w].pc = "retry"
  /\ CommitRetry(worker[w].job, worker[w].seen)
  /\ worker' = [worker EXCEPT ![w].pc = "backoff", ![w].seen = 0]
  /\ UNCHANGED <<queue, poller, operator, crashes>>

\* After the sleep: get_job decides whether this copy goes back on the queue.
Reread(w) ==
  /\ worker[w].pc = "backoff"
  /\ IF row[worker[w].job].status = "PENDING" THEN Goto(w, "resubmit") ELSE Release(w)
  /\ UNCHANGED <<store, queue, poller, operator, crashes>>

\* Mutant: the resubmission does not respect the capacity of the queue.
Resubmit_Unbounded(w) ==
  /\ worker[w].pc = "resubmit"
  /\ queue' = Append(queue, worker[w].job)
  /\ Release(w)
  /\ UNCHANGED <<store, poller, operator, crashes>>

\* The copy goes back on the queue, or is dropped when the queue stays full.
Resubmit(w) ==
  /\ worker[w].pc = "resubmit"
  /\ queue' = IF Len(queue) < QueueCap THEN Append(queue, worker[w].job) ELSE queue
  /\ Release(w)
  /\ UNCHANGED <<store, poller, operator, crashes>>

\* A database or file call raises: _worker_loop logs it and goes on.
Abandon(w) ==
  /\ worker[w].pc \in WorkerPC \ {"idle", "play", "resubmit"}
  /\ Release(w)
  /\ UNCHANGED <<store, queue, poller, operator, crashes>>

-----------------------------------------------------------------------------
(* Operator sessions: another process on the same database.                *)

OperatorScan(o) ==
  /\ operator[o].pc = "idle"
  /\ Stale # {}
  /\ operator' = [operator EXCEPT ![o] = [Away EXCEPT !.pc = "recover", !.jobs = Stale]]
  /\ UNCHANGED <<store, queue, worker, poller, crashes>>

OperatorRecover(o) ==
  /\ operator[o].pc = "recover"
  /\ RecoverStale(operator[o].jobs)
  /\ operator' = [operator EXCEPT ![o] = Away]
  /\ UNCHANGED <<queue, worker, poller, crashes>>

\* reconcile_existing_artifact: the status test, mark_done's check of the
\* artifact against the digest the operator gives, and its UPDATE.
OperatorInspect(o, j) ==
  /\ operator[o].pc = "idle"
  /\ row[j].status = "AMBIGUOUS"
  /\ operator' = [operator EXCEPT ![o] = [Away EXCEPT !.pc = "verify", !.jobs = {j}]]
  /\ UNCHANGED <<store, queue, worker, poller, crashes>>

OperatorVerify(o, j) ==
  /\ operator[o].pc = "verify"
  /\ operator[o].jobs = {j}
  /\ \/ /\ file[j] # None
        /\ operator' = [operator EXCEPT ![o].pc = "reconcile", ![o].out = file[j]]
     \/ operator' = [operator EXCEPT ![o] = Away]
  /\ UNCHANGED <<store, queue, worker, poller, crashes>>

OperatorReconcile(o, j) ==
  /\ operator[o].pc = "reconcile"
  /\ operator[o].jobs = {j}
  /\ MarkDone(j, operator[o].out)
  /\ operator' = [operator EXCEPT ![o] = Away]
  /\ UNCHANGED <<queue, worker, poller, crashes>>

-----------------------------------------------------------------------------
\* The worker process dies and is started again: its memory is gone, the
\* tables and the artifacts stay.
Crash ==
  /\ crashes < MaxCrashes
  /\ crashes' = crashes + 1
  /\ queue' = <<>>
  /\ worker' = [w \in Workers |-> Idle]
  /\ poller' = Scanning
  /\ UNCHANGED <<store, operator>>

PollStep ==
  \/ PollScan \/ PollRecover \/ PollClaim \/ PollFull
  \/ \E j \in Jobs : PollPut(j) \/ PollRequeue(j)

WorkerStep(w) ==
  \/ Take(w) \/ Synthesize(w) \/ Publish(w) \/ Verify(w) \/ Complete(w)
  \/ EndPlayback(w) \/ Reject(w) \/ LoseOutcome(w) \/ ReadRetryCount(w)
  \/ IncrementRetry(w) \/ Reread(w) \/ Resubmit(w)

OperatorStep(o) ==
  \/ OperatorScan(o) \/ OperatorRecover(o)
  \/ \E j \in Jobs : OperatorInspect(o, j) \/ OperatorVerify(o, j) \/ OperatorReconcile(o, j)

Next ==
  \/ \E j \in Jobs : Enqueue(j) \/ LeaseExpires(j)
  \/ PollStep
  \/ PollAbort
  \/ \E w \in Workers : WorkerStep(w) \/ Abandon(w)
  \/ \E o \in Operators : OperatorStep(o)
  \/ Crash

Spec == Init /\ [][Next]_vars

-----------------------------------------------------------------------------
(* Invariants that hold whatever the provider, the leases and the          *)
(* operators do.                                                           *)

\* The attempt ledger agrees with the job table: an attempt is STARTED exactly
\* while its job is IN_PROGRESS, and there is never a second one.  Every UPDATE
\* of tts_queue_attempts relies on it when it picks "the" open attempt.
OneOpenAttempt ==
  \A j \in Jobs : attempts[j].open = IF row[j].status = "IN_PROGRESS" THEN 1 ELSE 0

\* A job that can still reach the provider has retries left, although
\* increment_retry decides from a count it read outside its transaction.
RetryBudget ==
  \A j \in Jobs :
    row[j].status \in {"PENDING", "IN_PROGRESS"} => row[j].retries < MaxRetries

-----------------------------------------------------------------------------
(* Invariants and action properties of particular regimes: which run       *)
(* checks each, under which Outcomes and Prompt, is what matters.          *)

\* The places that hold job j for processing, counted with multiplicity.
Copies(j) ==
  Cardinality({i \in DOMAIN queue : queue[i] = j})
  + Cardinality({w \in Workers : WorksOn(w, j)})
  + (IF poller.pc \in {"put", "full"} /\ j \in poller.jobs THEN 1 ELSE 0)

\* A claim hands out one copy of the job, and no second one comes to life while
\* that copy is queued or processed.
SoleHolder == \A j \in Jobs : Copies(j) <= 1

\* Whoever holds a job holds the claim on it: the row is IN_PROGRESS, so the
\* provider call is the one the open attempt stands for.
HolderOwnsClaim == \A j \in Jobs : Held(j) => row[j].status = "IN_PROGRESS"

\* "DONE is impossible unless the existing file's bytes match the persisted
\* lowercase SHA-256 digest" (docs/tts_queue_operations.md): true of every
\* state, not only of the moment mark_done looks.
DigestMatchesArtifact ==
  \A j \in Jobs :
    row[j].status = "DONE" => row[j].digest # None /\ row[j].digest = file[j]

\* "An ambiguous provider outcome is never automatically replayed": no step
\* makes an AMBIGUOUS job claimable again.
AmbiguousNotReplayed ==
  [][\A j \in Jobs : row[j].status = "AMBIGUOUS" => row'[j].status # "PENDING"]_vars

-----------------------------------------------------------------------------
(* What the queue promises, seen through the job table and the artifacts.  *)
Lifecycle == INSTANCE TtsJobLifecycle WITH
  status <- [j \in Jobs |-> row[j].status],
  audio  <- [j \in Jobs |-> IF row[j].status = "DONE" THEN file[j] ELSE None]

\* Threads, leases, recovery, crashes and operators together do nothing to a
\* job that its lifecycle does not allow.
ImplementsLifecycle == Lifecycle!Spec

-----------------------------------------------------------------------------
(* Liveness.  The threads keep running (they catch every exception), time  *)
(* passes, and a provider call ends: its client has a timeout.  A database *)
(* call may raise, and a poll cycle then starts over, but a transaction    *)
(* that is tried again and again commits at last.  Nothing obliges         *)
(* submitters, operators or crashes.                                       *)
Fairness ==
  /\ WF_vars(PollStep)
  /\ SF_vars(PollRecover)
  /\ SF_vars(PollClaim)
  /\ \A w \in Workers : WF_vars(WorkerStep(w))
  /\ \A j \in Jobs : WF_vars(LeaseExpires(j))

FairSpec == Spec /\ Fairness

Settled(j) == row[j].status \in {"DONE", "FAILED", "AMBIGUOUS"}

\* No job is stranded: what was submitted reaches a settled status, through
\* retries, a full queue, lost claims and crashes.
Settles == \A j \in Jobs : row[j].status = "PENDING" ~> Settled(j)

=============================================================================
