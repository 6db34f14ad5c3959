--------------------------- MODULE TtsQueueProofs ---------------------------
(***************************************************************************)
(* Theorems about TtsQueue for every set of jobs, workers and operators,   *)
(* every provider and every capacity.  IInv holds without conditions and   *)
(* carries the first three.  SoleInv adds where the copies of a job are    *)
(* when no provider call ends in a transient error (NoTransient), and      *)
(* OrderlyInv what holders, operators and recovery can rely on when no     *)
(* lease runs out under a holder either (Prompt).                          *)
(***************************************************************************)
EXTENDS TtsQueue, FiniteSetTheorems, TLAPS

\* A job row and its ledger entry agree.  The last conjunct, that a row never
\* submitted has used no retry, is what makes the retry budget inductive.
Agree(r, a) ==
  /\ a.open = IF r.status = "IN_PROGRESS" THEN 1 ELSE 0
  /\ r.status \in {"PENDING", "IN_PROGRESS"} => r.retries < MaxRetries
  /\ r.status = "ABSENT" => r.retries = 0

LedgerInv == StoreTypeOK /\ \A j \in Jobs : Agree(row[j], attempts[j])

\* A thread that is not idle works on some job.
BusyHasJob == \A w \in Workers : worker[w].pc # "idle" => worker[w].job \in Jobs

IInv == TypeOK /\ BusyHasJob /\ LedgerInv

-----------------------------------------------------------------------------
(* The transactions of tts_queue_db.py keep the ledger in step with the    *)
(* table whatever row they are applied to and whatever was read before.    *)

\* What closing attempts does to a well-formed ledger entry.
LEMMA ClosingAttempts ==
  ASSUME NEW a \in Attempts, NEW s \in AttemptStatus
  PROVE  /\ ClosedNewest(a, s) \in Attempts
         /\ ClosedNewest(a, s).open = IF a.open = 0 THEN 0 ELSE a.open - 1
         /\ ClosedAll(a) \in Attempts
         /\ ClosedAll(a).open = 0
BY DEF ClosedNewest, ClosedAll, Attempts, AttemptStatus

\* A transaction that rewrites one row and its ledger entry.
LEMMA OneRowTransaction ==
  ASSUME LedgerInv, NEW j \in Jobs, NEW r \in Row, NEW a \in Attempts, Agree(r, a),
         row' = [row EXCEPT ![j] = r], attempts' = [attempts EXCEPT ![j] = a],
         UNCHANGED <<recoveries, file>>
  PROVE  LedgerInv'
<1>1. row' \in [Jobs -> Row] /\ attempts' \in [Jobs -> Attempts]
  BY DEF LedgerInv, StoreTypeOK
<1>2. \A i \in Jobs : Agree(row'[i], attempts'[i])
  BY DEF LedgerInv, StoreTypeOK
<1> QED
  BY <1>1, <1>2 DEF LedgerInv, StoreTypeOK, Agree

\* enqueue_on_connection_status inserts a PENDING row without an attempt.
LEMMA InsertKeepsLedger ==
  ASSUME LedgerInv, NEW j \in Jobs, row[j].status = "ABSENT", Insert(j)
  PROVE  LedgerInv'
<1> DEFINE r == [row[j] EXCEPT !.status = "PENDING"]
<1>1. row[j] \in Row /\ attempts[j] \in Attempts /\ Agree(row[j], attempts[j])
  BY DEF LedgerInv, StoreTypeOK
<1>2. r \in Row /\ Agree(r, attempts[j])
  BY <1>1, StoreAssumption DEF Row, JobStatus, Agree
<1>3. row' = [row EXCEPT ![j] = r] /\ attempts' = [attempts EXCEPT ![j] = attempts[j]]
  BY DEF Insert, LedgerInv, StoreTypeOK
<1> QED
  BY <1>1, <1>2, <1>3, OneRowTransaction DEF Insert

\* mark_done, mark_failed, the ambiguous outcome, increment_retry and the requeue
\* close what is open of one job, whatever its status was, and leave no row
\* IN_PROGRESS without its attempt.
LEMMA SettleKeepsLedger ==
  ASSUME LedgerInv, NEW j \in Jobs, NEW bytes \in Renders \cup {None}, NEW seen \in Nat,
         \/ MarkDone(j, bytes) \/ MarkFailed(j) \/ MarkAmbiguous(j)
         \/ CommitRetry(j, seen) \/ RequeueAfterLocalFailure(j)
  PROVE  LedgerInv'
<1> USE DEF CloseNewestAttempt
<1>1. row[j] \in Row /\ attempts[j] \in Attempts /\ Agree(row[j], attempts[j])
      /\ row \in [Jobs -> Row]
  BY DEF LedgerInv, StoreTypeOK
<1>2. \A s \in {"SUCCEEDED", "FAILED"} :
        /\ ClosedNewest(attempts[j], s) \in Attempts
        /\ ClosedNewest(attempts[j], s).open = 0
  <2>1. attempts[j].open \in {0, 1}
    BY <1>1 DEF Agree
  <2> TAKE s \in {"SUCCEEDED", "FAILED"}
  <2>2. s \in AttemptStatus
    BY DEF AttemptStatus
  <2>3. /\ ClosedNewest(attempts[j], s) \in Attempts
        /\ ClosedNewest(attempts[j], s).open
             = IF attempts[j].open = 0 THEN 0 ELSE attempts[j].open - 1
    BY <1>1, <2>2, ClosingAttempts
  <2> QED
    BY <2>1, <2>3
<1>3. ClosedAll(attempts[j]) \in Attempts /\ ClosedAll(attempts[j]).open = 0
  BY <1>1, ClosingAttempts DEF AttemptStatus
<1>4. CASE MarkDone(j, bytes)
  <2> DEFINE r == [row[j] EXCEPT !.status = "DONE", !.digest = bytes, !.pub = "VERIFIED"]
  <2>1. r \in Row /\ r.status = "DONE"
    BY <1>1 DEF Row, JobStatus
  <2>2. Agree(r, ClosedNewest(attempts[j], "SUCCEEDED"))
    BY <2>1, <1>2 DEF Agree
  <2>3. row' = [row EXCEPT ![j] = r]
    BY <1>4, <1>1 DEF MarkDone
  <2> QED
    BY <2>1, <2>2, <2>3, <1>2, <1>4, OneRowTransaction DEF MarkDone
<1>5. CASE MarkFailed(j)
  <2> DEFINE r == [row[j] EXCEPT !.status = "FAILED"]
  <2>1. r \in Row /\ r.status = "FAILED"
    BY <1>1 DEF Row, JobStatus
  <2>2. Agree(r, ClosedNewest(attempts[j], "FAILED"))
    BY <2>1, <1>2 DEF Agree
  <2>3. row' = [row EXCEPT ![j] = r]
    BY <1>5, <1>1 DEF MarkFailed
  <2> QED
    BY <2>1, <2>2, <2>3, <1>2, <1>5, OneRowTransaction DEF MarkFailed
<1>6. CASE MarkAmbiguous(j)
  <2> DEFINE r == [row[j] EXCEPT !.status = "AMBIGUOUS"]
  <2>1. r \in Row /\ r.status = "AMBIGUOUS"
    BY <1>1 DEF Row, JobStatus
  <2>2. Agree(r, ClosedAll(attempts[j]))
    BY <2>1, <1>3 DEF Agree
  <2>3. row' = [row EXCEPT ![j] = r]
    BY <1>6, <1>1 DEF MarkAmbiguous
  <2> QED
    BY <2>1, <2>2, <2>3, <1>3, <1>6, OneRowTransaction DEF MarkAmbiguous
<1>7. CASE CommitRetry(j, seen)
  <2> DEFINE s == IF seen + 1 < MaxRetries THEN "PENDING" ELSE "FAILED"
             r == [row[j] EXCEPT !.retries = seen + 1, !.status = s]
  <2>0. /\ s \in {"PENDING", "FAILED"}
        /\ s = "PENDING" => seen + 1 < MaxRetries
        /\ seen + 1 \in Nat
    OBVIOUS
  <2>3. row' = [row EXCEPT ![j] = r]
    BY <1>7, <1>1 DEF CommitRetry
  <2> HIDE DEF s
  <2>1. r \in Row /\ r.status = s /\ r.retries = seen + 1
    BY <1>1, <2>0 DEF Row, JobStatus
  <2>2. Agree(r, ClosedNewest(attempts[j], "FAILED"))
    BY <2>0, <2>1, <1>2 DEF Agree
  <2> QED
    BY <2>1, <2>2, <2>3, <1>2, <1>7, OneRowTransaction DEF CommitRetry
<1>8. CASE RequeueAfterLocalFailure(j)
  <2> DEFINE r == IF row[j].status = "IN_PROGRESS"
                  THEN [row[j] EXCEPT !.status = "PENDING", !.lease = "none"]
                  ELSE row[j]
  <2>1. r \in Row
    BY <1>1 DEF Row, JobStatus, Lease
  <2>2. r.retries = row[j].retries /\ r.status # "IN_PROGRESS"
        /\ r.status = IF row[j].status = "IN_PROGRESS" THEN "PENDING" ELSE row[j].status
    <3>1. CASE row[j].status = "IN_PROGRESS"
      <4>1. r = [row[j] EXCEPT !.status = "PENDING", !.lease = "none"]
        BY <3>1
      <4> QED
        BY <4>1, <3>1, <1>1 DEF Row
    <3>2. CASE row[j].status # "IN_PROGRESS"
      BY <3>2
    <3> QED
      BY <3>1, <3>2
  <2>3. Agree(r, ClosedNewest(attempts[j], "FAILED"))
    BY <1>1, <1>2, <2>2 DEF Agree
  <2>4. row' = [row EXCEPT ![j] = r]
    BY <1>8, <1>1 DEF RequeueAfterLocalFailure
  <2> QED
    BY <2>1, <2>3, <2>4, <1>2, <1>8, OneRowTransaction DEF RequeueAfterLocalFailure
<1> QED
  BY <1>4, <1>5, <1>6, <1>7, <1>8

\* dequeue_pending opens one attempt for each row it moves: no PENDING row has one.
LEMMA ClaimKeepsLedger ==
  ASSUME LedgerInv, NEW B \in SUBSET Claimable, Claim(B)
  PROVE  LedgerInv'
<1>1. ASSUME NEW j \in Jobs
      PROVE  row'[j] \in Row /\ attempts'[j] \in Attempts /\ Agree(row'[j], attempts'[j])
  <2>1. row[j] \in Row /\ attempts[j] \in Attempts /\ Agree(row[j], attempts[j])
    BY DEF LedgerInv, StoreTypeOK
  <2>2. CASE j \in B
    <3>1. row[j].status = "PENDING"
      BY <2>2 DEF Claimable, InStatus
    <3>2. row'[j] = [row[j] EXCEPT !.status = "IN_PROGRESS", !.lease = "fresh",
                                   !.pub = "UNPUBLISHED"]
          /\ attempts'[j] = Opened(attempts[j])
      BY <2>2 DEF Claim
    <3>3. row'[j] \in Row /\ row'[j].status = "IN_PROGRESS" /\ row'[j].retries = row[j].retries
      BY <3>2, <2>1 DEF Row, JobStatus, Lease
    <3>4. attempts'[j] \in Attempts /\ attempts'[j].open = attempts[j].open + 1
      BY <3>2, <2>1 DEF Opened, Attempts, AttemptStatus
    <3>5. attempts[j].open = 0 /\ row[j].retries < MaxRetries
      BY <3>1, <2>1 DEF Agree
    <3> QED
      BY <3>3, <3>4, <3>5 DEF Agree
  <2>3. CASE j \notin B
    BY <2>1, <2>3 DEF Claim
  <2> QED
    BY <2>2, <2>3
<1>2. row' \in [Jobs -> Row] /\ attempts' \in [Jobs -> Attempts]
  BY <1>1 DEF Claim
<1> QED
  BY <1>1, <1>2 DEF LedgerInv, StoreTypeOK, Agree, Claim

\* recover_stale_jobs closes every attempt of the rows it selected; those that
\* are no longer IN_PROGRESS have none to close.
LEMMA RecoverKeepsLedger ==
  ASSUME LedgerInv, NEW S \in SUBSET Jobs, RecoverStale(S)
  PROVE  LedgerInv'
<1>1. ASSUME NEW j \in Jobs
      PROVE  row'[j] \in Row /\ attempts'[j] \in Attempts /\ Agree(row'[j], attempts'[j])
  <2>1. row[j] \in Row /\ attempts[j] \in Attempts /\ Agree(row[j], attempts[j])
    BY DEF LedgerInv, StoreTypeOK
  <2>2. ClosedAll(attempts[j]) \in Attempts /\ ClosedAll(attempts[j]).open = 0
    BY <2>1, ClosingAttempts DEF AttemptStatus
  <2>3. CASE j \in S /\ row[j].status = "IN_PROGRESS"
    <3>1. row'[j] = [row[j] EXCEPT !.status = "AMBIGUOUS", !.lease = "none"]
          /\ attempts'[j] = ClosedAll(attempts[j])
      BY <2>3 DEF RecoverStale
    <3>2. row'[j] \in Row /\ row'[j].status = "AMBIGUOUS"
      BY <3>1, <2>1 DEF Row, JobStatus, Lease
    <3> QED
      BY <3>1, <3>2, <2>2 DEF Agree
  <2>4. CASE j \in S /\ row[j].status # "IN_PROGRESS"
    <3>1. row'[j] = row[j] /\ attempts'[j] = ClosedAll(attempts[j])
      BY <2>4 DEF RecoverStale
    <3> QED
      BY <3>1, <2>1, <2>2, <2>4 DEF Agree
  <2>5. CASE j \notin S
    BY <2>1, <2>5 DEF RecoverStale
  <2> QED
    BY <2>3, <2>4, <2>5
<1>2. row' \in [Jobs -> Row] /\ attempts' \in [Jobs -> Attempts]
  BY <1>1 DEF RecoverStale
<1>3. recoveries' \subseteq Jobs /\ UNCHANGED file
  BY DEF RecoverStale, LedgerInv, StoreTypeOK
<1> QED
  BY <1>1, <1>2, <1>3 DEF LedgerInv, StoreTypeOK, Agree

\* Statements that touch neither status, retry_count nor the attempts.
LEMMA SideStepKeepsLedger ==
  ASSUME LedgerInv, NEW j \in Jobs, NEW bytes \in Renders \cup {None},
         MarkWriting(j) \/ WriteArtifact(j, bytes) \/ ExpireLease(j)
  PROVE  LedgerInv'
<1>1. row[j] \in Row /\ attempts[j] \in Attempts /\ Agree(row[j], attempts[j])
      /\ row \in [Jobs -> Row] /\ attempts \in [Jobs -> Attempts]
  BY DEF LedgerInv, StoreTypeOK
<1>2. CASE MarkWriting(j)
  <2> DEFINE r == [row[j] EXCEPT !.pub = "WRITING"]
  <2>1. r \in Row /\ Agree(r, attempts[j])
    BY <1>1 DEF Row, Agree
  <2>2. row' = [row EXCEPT ![j] = r] /\ attempts' = [attempts EXCEPT ![j] = attempts[j]]
    BY <1>1, <1>2 DEF MarkWriting
  <2> QED
    BY <1>1, <1>2, <2>1, <2>2, OneRowTransaction DEF MarkWriting
<1>3. CASE WriteArtifact(j, bytes)
  BY <1>3 DEF WriteArtifact, LedgerInv, StoreTypeOK, Agree
<1>4. CASE ExpireLease(j)
  <2> DEFINE r == [row[j] EXCEPT !.lease = "expired"]
  <2>1. r \in Row /\ Agree(r, attempts[j])
    BY <1>1 DEF Row, Lease, Agree
  <2>2. row' = [row EXCEPT ![j] = r] /\ attempts' = [attempts EXCEPT ![j] = attempts[j]]
    BY <1>1, <1>4 DEF ExpireLease
  <2> QED
    BY <1>1, <1>4, <2>1, <2>2, OneRowTransaction DEF ExpireLease
<1> QED
  BY <1>2, <1>3, <1>4

-----------------------------------------------------------------------------
(* The invariant and the theorems.                                         *)

\* LedgerInv depends on the tables alone.
LEMMA QuietStore ==
  ASSUME LedgerInv, UNCHANGED store
  PROVE  LedgerInv'
BY DEF LedgerInv, StoreTypeOK, Agree, store

\* The empty tables and idle threads satisfy the invariant.
LEMMA InitEstablishes == Init => IInv
<1> SUFFICES ASSUME Init PROVE IInv
  OBVIOUS
<1> USE DEF Init, StoreInit
<1>1. NoRow \in Row
  BY StoreAssumption DEF NoRow, Row, JobStatus, Lease
<1>2. [open |-> 0, newest |-> "NONE"] \in Attempts
  BY DEF Attempts
<1>3. StoreTypeOK
  BY <1>1, <1>2 DEF StoreTypeOK
<1>4. \A j \in Jobs : Agree(row[j], attempts[j])
  BY DEF Agree, NoRow
<1>5. worker \in [Workers -> Worker] /\ poller \in Poller /\ operator \in [Operators -> Operator]
  BY DEF Worker, WorkerPC, Idle, Poller, PollerPC, Scanning, Operator, OperatorPC, Away
<1>6. queue \in Seq(Jobs) /\ Len(queue) <= QueueCap /\ crashes \in Nat
  BY QueueAssumption
<1>7. BusyHasJob
  BY DEF BusyHasJob, Idle
<1> QED
  BY <1>3, <1>4, <1>5, <1>6, <1>7 DEF IInv, LedgerInv, TypeOK

\* Submitters, time and the poll thread.
LEMMA SubmitAndPollKeep ==
  ASSUME IInv,
         \/ \E j \in Jobs : Enqueue(j) \/ LeaseExpires(j)
         \/ PollStep
         \/ PollAbort
  PROVE  IInv'
<1> USE DEF IInv, TypeOK
<1>1. ASSUME NEW j \in Jobs, Enqueue(j) PROVE IInv'
  <2>1. LedgerInv'
    BY <1>1, InsertKeepsLedger DEF Enqueue
  <2> QED
    BY <2>1, <1>1 DEF Enqueue, LedgerInv, BusyHasJob
<1>2. ASSUME NEW j \in Jobs, LeaseExpires(j) PROVE IInv'
  <2>1. LedgerInv'
    BY <1>2, SideStepKeepsLedger, StoreAssumption DEF LeaseExpires
  <2> QED
    BY <2>1, <1>2 DEF LeaseExpires, LedgerInv, BusyHasJob
<1>3. CASE PollScan
  <2>1. LedgerInv'
    BY <1>3, QuietStore DEF PollScan
  <2>2. poller' \in Poller
    BY <1>3 DEF PollScan, Poller, PollerPC, Stale, InStatus
  <2> QED
    BY <2>1, <2>2, <1>3 DEF PollScan, LedgerInv, BusyHasJob
<1>4. CASE PollRecover
  <2>1. LedgerInv'
    BY <1>4, RecoverKeepsLedger DEF PollRecover, Poller
  <2>2. poller' \in Poller
    BY <1>4 DEF PollRecover, Poller, PollerPC
  <2> QED
    BY <2>1, <2>2, <1>4 DEF PollRecover, LedgerInv, BusyHasJob
<1>5. CASE PollClaim
  <2>1. PICK B \in SUBSET Claimable :
          /\ Claim(B)
          /\ poller' = IF B = {} THEN Scanning ELSE [pc |-> "put", jobs |-> B]
    BY <1>5 DEF PollClaim
  <2>2. LedgerInv'
    BY <2>1, ClaimKeepsLedger
  <2>3. poller' \in Poller
    BY <2>1 DEF Poller, PollerPC, Scanning, Claimable, InStatus
  <2> QED
    BY <2>2, <2>3, <1>5 DEF PollClaim, LedgerInv, BusyHasJob
<1>6. CASE PollFull
  <2>1. LedgerInv'
    BY <1>6, QuietStore DEF PollFull
  <2>2. poller' \in Poller
    BY <1>6 DEF PollFull, Poller, PollerPC
  <2> QED
    BY <2>1, <2>2, <1>6 DEF PollFull, LedgerInv, BusyHasJob
<1>7. ASSUME NEW j \in Jobs, Dispatched(j) = poller' PROVE poller' \in Poller
  BY <1>7 DEF Dispatched, Poller, PollerPC, Scanning
<1>8. ASSUME NEW j \in Jobs, PollPut(j) PROVE IInv'
  <2>1. LedgerInv'
    BY <1>8, QuietStore DEF PollPut
  <2>2. queue' \in Seq(Jobs) /\ Len(queue') <= QueueCap
    BY <1>8, QueueAssumption DEF PollPut
  <2>3. poller' \in Poller
    BY <1>7, <1>8 DEF PollPut
  <2> QED
    BY <2>1, <2>2, <2>3, <1>8 DEF PollPut, LedgerInv, BusyHasJob
<1>9. ASSUME NEW j \in Jobs, PollRequeue(j) PROVE IInv'
  <2>1. LedgerInv'
    BY <1>9, SettleKeepsLedger DEF PollRequeue
  <2>2. poller' \in Poller
    BY <1>7, <1>9 DEF PollRequeue
  <2> QED
    BY <2>1, <2>2, <1>9 DEF PollRequeue, LedgerInv, BusyHasJob
<1>10. CASE PollAbort
  <2>1. LedgerInv'
    BY <1>10, QuietStore DEF PollAbort
  <2>2. poller' \in Poller
    BY <1>10 DEF PollAbort, Poller, PollerPC, Scanning
  <2> QED
    BY <2>1, <2>2, <1>10 DEF PollAbort, LedgerInv, BusyHasJob
<1> QED
  BY <1>1, <1>2, <1>3, <1>4, <1>5, <1>6, <1>8, <1>9, <1>10 DEF PollStep

\* A worker thread that changes only its own record, the tables and the queue.
LEMMA OneWorkerMoves ==
  ASSUME IInv, LedgerInv', NEW w \in Workers, NEW r \in Worker,
         r.pc # "idle" => r.job \in Jobs,
         worker' = [worker EXCEPT ![w] = r],
         queue' \in Seq(Jobs), Len(queue') <= QueueCap,
         UNCHANGED <<poller, operator, crashes>>
  PROVE  IInv'
<1>1. worker' \in [Workers -> Worker]
  BY DEF IInv, TypeOK
<1>2. BusyHasJob'
  BY DEF IInv, TypeOK, BusyHasJob
<1> QED
  BY <1>1, <1>2 DEF IInv, TypeOK, LedgerInv

\* Every step of _worker_loop and _process_job keeps the invariant.
LEMMA WorkerKeeps ==
  ASSUME IInv, NEW w \in Workers, WorkerStep(w) \/ Abandon(w)
  PROVE  IInv'
<1> DEFINE me == worker[w]
<1>1. /\ me \in Worker
      /\ worker \in [Workers -> Worker]
      /\ me.pc # "idle" => me.job \in Jobs
      /\ queue \in Seq(Jobs) /\ Len(queue) <= QueueCap
      /\ LedgerInv
  BY DEF IInv, TypeOK, BusyHasJob
<1>2. Idle \in Worker /\ Idle.pc = "idle"
  BY DEF Idle, Worker, WorkerPC
<1>3. ASSUME me.pc # "idle", Release(w), LedgerInv', UNCHANGED <<poller, operator, crashes>>,
             queue' \in Seq(Jobs), Len(queue') <= QueueCap
      PROVE  IInv'
  <2>1. worker' = [worker EXCEPT ![w] = Idle]
    BY <1>3 DEF Release
  <2> QED
    BY <1>2, <1>3, <2>1, OneWorkerMoves
<1>4. ASSUME me.pc # "idle", NEW pc \in WorkerPC, Goto(w, pc), LedgerInv',
             UNCHANGED <<queue, poller, operator, crashes>>
      PROVE  IInv'
  <2> DEFINE r == [me EXCEPT !.pc = pc]
  <2>1. r \in Worker /\ r.job \in Jobs
    BY <1>1, <1>4 DEF Worker
  <2>2. worker' = [worker EXCEPT ![w] = r]
    BY <1>1, <1>4 DEF Goto
  <2> QED
    BY <1>1, <1>4, <2>1, <2>2, OneWorkerMoves
<1>5. CASE Take(w)
  <2> DEFINE r == [Idle EXCEPT !.pc = "call", !.job = Head(queue)]
  <2>1. Head(queue) \in Jobs /\ queue' \in Seq(Jobs) /\ Len(queue') <= QueueCap
    BY <1>1, <1>5, QueueAssumption DEF Take
  <2>2. r \in Worker /\ r.job \in Jobs
    BY <1>2, <2>1 DEF Worker, WorkerPC, Idle
  <2>3. LedgerInv'
    BY <1>1, <1>5, QuietStore DEF Take
  <2> QED
    BY <1>5, <2>1, <2>2, <2>3, OneWorkerMoves DEF Take
<1>6. CASE Synthesize(w)
  <2>1. PICK bytes \in Renders :
          worker' = [worker EXCEPT ![w].pc = "publish", ![w].out = bytes]
    BY <1>6 DEF Synthesize
  <2> DEFINE r == [me EXCEPT !.pc = "publish", !.out = bytes]
  <2>2. me.job \in Jobs
    BY <1>1, <1>6 DEF Synthesize
  <2>3. r \in Worker /\ r.job \in Jobs
    BY <1>1, <2>2 DEF Worker, WorkerPC
  <2>4. worker' = [worker EXCEPT ![w] = r]
    BY <1>1, <2>1
  <2>5. LedgerInv'
    BY <1>1, <1>6, <2>2, SideStepKeepsLedger DEF Synthesize
  <2> QED
    BY <1>1, <1>6, <2>3, <2>4, <2>5, OneWorkerMoves DEF Synthesize
<1>7. CASE Publish(w)
  <2>1. me.job \in Jobs /\ me.out \in Renders \cup {None}
    BY <1>1, <1>7 DEF Publish, Worker
  <2>2. LedgerInv'
    BY <1>1, <1>7, <2>1, SideStepKeepsLedger DEF Publish
  <2> QED
    BY <1>4, <1>7, <2>2 DEF Publish, WorkerPC
<1>8. CASE Verify(w)
  <2>1. LedgerInv'
    BY <1>1, <1>8, QuietStore DEF Verify
  <2>2. CASE Goto(w, "commit")
    BY <1>4, <1>8, <2>1, <2>2 DEF Verify, WorkerPC
  <2>3. CASE Release(w)
    BY <1>1, <1>3, <1>8, <2>1, <2>3 DEF Verify
  <2> QED
    BY <1>8, <2>2, <2>3 DEF Verify
<1>9. CASE Complete(w)
  <2>1. me.job \in Jobs /\ me.out \in Renders \cup {None}
    BY <1>1, <1>9 DEF Complete, Worker
  <2>2. LedgerInv'
    BY <1>1, <1>9, <2>1, SettleKeepsLedger DEF Complete
  <2>3. CASE Goto(w, "play")
    BY <1>4, <1>9, <2>2, <2>3 DEF Complete, WorkerPC
  <2>4. CASE Release(w)
    BY <1>1, <1>3, <1>9, <2>2, <2>4 DEF Complete
  <2> QED
    BY <1>9, <2>3, <2>4 DEF Complete
<1>10. CASE EndPlayback(w)
  <2>1. LedgerInv'
    BY <1>1, <1>10, QuietStore DEF EndPlayback
  <2> QED
    BY <1>1, <1>3, <1>10, <2>1 DEF EndPlayback
<1>11. CASE Reject(w) \/ LoseOutcome(w)
  <2>1. me.job \in Jobs
    BY <1>1, <1>11 DEF Reject, LoseOutcome
  <2>2. MarkFailed(me.job) \/ MarkAmbiguous(me.job)
    BY <1>11 DEF Reject, LoseOutcome
  <2>3. LedgerInv'
    BY <1>1, <2>1, <2>2, SettleKeepsLedger
  <2> QED
    BY <1>1, <1>3, <1>11, <2>3 DEF Reject, LoseOutcome
<1>12. CASE ReadRetryCount(w)
  <2> DEFINE r == [me EXCEPT !.pc = "retry", !.seen = row[me.job].retries]
  <2>1. me.job \in Jobs
    BY <1>1, <1>12 DEF ReadRetryCount
  <2>2. row[me.job].retries \in Nat
    BY <1>1, <2>1 DEF LedgerInv, StoreTypeOK, Row
  <2>3. r \in Worker /\ r.job \in Jobs
    BY <1>1, <2>1, <2>2 DEF Worker, WorkerPC
  <2>4. worker' = [worker EXCEPT ![w] = r]
    BY <1>1, <1>12 DEF ReadRetryCount
  <2>5. LedgerInv'
    BY <1>1, <1>12, QuietStore DEF ReadRetryCount
  <2> QED
    BY <1>1, <1>12, <2>3, <2>4, <2>5, OneWorkerMoves DEF ReadRetryCount
<1>13. CASE IncrementRetry(w)
  <2> DEFINE r == [me EXCEPT !.pc = "backoff", !.seen = 0]
  <2>1. me.job \in Jobs /\ me.seen \in Nat
    BY <1>1, <1>13 DEF IncrementRetry, Worker
  <2>2. r \in Worker /\ r.job \in Jobs
    BY <1>1, <2>1 DEF Worker, WorkerPC
  <2>3. worker' = [worker EXCEPT ![w] = r]
    BY <1>1, <1>13 DEF IncrementRetry
  <2>4. LedgerInv'
    BY <1>1, <1>13, <2>1, SettleKeepsLedger, StoreAssumption DEF IncrementRetry
  <2> QED
    BY <1>1, <1>13, <2>2, <2>3, <2>4, OneWorkerMoves DEF IncrementRetry
<1>14. CASE Reread(w)
  <2>1. LedgerInv'
    BY <1>1, <1>14, QuietStore DEF Reread
  <2>2. CASE Goto(w, "resubmit")
    BY <1>4, <1>14, <2>1, <2>2 DEF Reread, WorkerPC
  <2>3. CASE Release(w)
    BY <1>1, <1>3, <1>14, <2>1, <2>3 DEF Reread
  <2> QED
    BY <1>14, <2>2, <2>3 DEF Reread
<1>15. CASE Resubmit(w)
  <2>1. me.job \in Jobs
    BY <1>1, <1>15 DEF Resubmit
  <2>2. queue' \in Seq(Jobs) /\ Len(queue') <= QueueCap
    BY <1>1, <1>15, <2>1, QueueAssumption DEF Resubmit
  <2>3. LedgerInv'
    BY <1>1, <1>15, QuietStore DEF Resubmit
  <2> QED
    BY <1>3, <1>15, <2>2, <2>3 DEF Resubmit
<1>16. CASE Abandon(w)
  <2>1. LedgerInv'
    BY <1>1, <1>16, QuietStore DEF Abandon
  <2> QED
    BY <1>1, <1>3, <1>16, <2>1 DEF Abandon
<1> QED
  BY <1>5, <1>6, <1>7, <1>8, <1>9, <1>10, <1>11, <1>12, <1>13, <1>14, <1>15, <1>16
     DEF WorkerStep

\* Operator sessions and crashes of the worker process.
LEMMA OperatorAndCrashKeep ==
  ASSUME IInv, (\E o \in Operators : OperatorStep(o)) \/ Crash
  PROVE  IInv'
<1>1. /\ LedgerInv
      /\ operator \in [Operators -> Operator]
      /\ file \in [Jobs -> Renders \cup {None}]
  BY DEF IInv, TypeOK, StoreTypeOK
<1>2. Away \in Operator
  BY DEF Away, Operator, OperatorPC
<1>3. ASSUME NEW o \in Operators, NEW r \in Operator, operator' = [operator EXCEPT ![o] = r],
             LedgerInv', UNCHANGED <<queue, worker, poller, crashes>>
      PROVE  IInv'
  BY <1>1, <1>3 DEF IInv, TypeOK, LedgerInv, BusyHasJob
<1>4. ASSUME NEW o \in Operators, OperatorScan(o) PROVE IInv'
  <2> DEFINE r == [Away EXCEPT !.pc = "recover", !.jobs = Stale]
  <2>1. r \in Operator
    BY DEF Away, Operator, OperatorPC, Stale, InStatus
  <2>2. LedgerInv'
    BY <1>1, <1>4, QuietStore DEF OperatorScan
  <2> QED
    BY <1>3, <1>4, <2>1, <2>2 DEF OperatorScan
<1>5. ASSUME NEW o \in Operators, OperatorRecover(o) PROVE IInv'
  <2>1. LedgerInv'
    BY <1>1, <1>5, RecoverKeepsLedger DEF OperatorRecover, Operator
  <2> QED
    BY <1>2, <1>3, <1>5, <2>1 DEF OperatorRecover
<1>6. ASSUME NEW o \in Operators, NEW j \in Jobs,
             OperatorInspect(o, j) \/ OperatorVerify(o, j)
      PROVE  IInv'
  <2>1. LedgerInv'
    BY <1>1, <1>6, QuietStore DEF OperatorInspect, OperatorVerify
  <2>2. \/ operator' = [operator EXCEPT ![o] = [Away EXCEPT !.pc = "verify", !.jobs = {j}]]
        \/ operator' = [operator EXCEPT ![o] = [operator[o] EXCEPT !.pc = "reconcile",
                                                                   !.out = file[j]]]
        \/ operator' = [operator EXCEPT ![o] = Away]
    BY <1>1, <1>6 DEF OperatorInspect, OperatorVerify
  <2>3. /\ [Away EXCEPT !.pc = "verify", !.jobs = {j}] \in Operator
        /\ [operator[o] EXCEPT !.pc = "reconcile", !.out = file[j]] \in Operator
    BY <1>1 DEF Away, Operator, OperatorPC
  <2> QED
    BY <1>2, <1>3, <1>6, <2>1, <2>2, <2>3 DEF OperatorInspect, OperatorVerify
<1>7. ASSUME NEW o \in Operators, NEW j \in Jobs, OperatorReconcile(o, j) PROVE IInv'
  <2>1. LedgerInv'
    BY <1>1, <1>7, SettleKeepsLedger, StoreAssumption DEF OperatorReconcile, Operator
  <2> QED
    BY <1>2, <1>3, <1>7, <2>1 DEF OperatorReconcile
<1>8. CASE Crash
  <2>1. LedgerInv'
    BY <1>1, <1>8, QuietStore DEF Crash
  <2>2. /\ worker' \in [Workers -> Worker]
        /\ poller' \in Poller
        /\ queue' \in Seq(Jobs) /\ Len(queue') <= QueueCap
        /\ crashes' \in Nat
        /\ BusyHasJob'
    BY <1>8, QueueAssumption
       DEF Crash, IInv, TypeOK, Worker, WorkerPC, Idle, Poller, PollerPC, Scanning, BusyHasJob
  <2> QED
    BY <2>1, <2>2, <1>1, <1>8 DEF Crash, IInv, TypeOK, LedgerInv
<1> QED
  BY <1>4, <1>5, <1>6, <1>7, <1>8 DEF OperatorStep

\* The invariant is inductive.
LEMMA StepKeeps == IInv /\ [Next]_vars => IInv'
<1> SUFFICES ASSUME IInv, [Next]_vars PROVE IInv'
  OBVIOUS
<1>1. CASE UNCHANGED vars
  <2>1. LedgerInv'
    BY <1>1, QuietStore DEF IInv, vars
  <2> QED
    BY <1>1, <2>1 DEF IInv, vars, TypeOK, LedgerInv, BusyHasJob
<1>2. CASE Next
  BY <1>2, SubmitAndPollKeep, WorkerKeeps, OperatorAndCrashKeep DEF Next
<1> QED
  BY <1>1, <1>2

\* Hence it holds of every reachable state.
LEMMA InvariantHolds == Spec => []IInv
<1> QED
  BY InitEstablishes, StepKeeps, PTL DEF Spec

\* Every variable keeps its type, and the internal queue never outgrows its
\* capacity although both the poll thread and returning workers append to it.
THEOREM TypeCorrect == Spec => []TypeOK
<1>1. IInv => TypeOK
  BY DEF IInv
<1> QED
  BY <1>1, InvariantHolds, PTL

\* However claims, retries, recovery, reconciliation and crashes interleave, a
\* job has one STARTED attempt while it is IN_PROGRESS and none otherwise: the
\* transactions of tts_queue_db.py never leave the ledger and the table apart.
THEOREM LedgerConsistent == Spec => []OneOpenAttempt
<1>1. IInv => OneOpenAttempt
  BY DEF IInv, LedgerInv, Agree, OneOpenAttempt
<1> QED
  BY <1>1, InvariantHolds, PTL

\* No interleaving of increment_retry's outside read with other transactions
\* leaves a claimable or claimed job without a retry to spend.
THEOREM BudgetHolds == Spec => []RetryBudget
<1>1. IInv => RetryBudget
  BY DEF IInv, LedgerInv, Agree, RetryBudget
<1> QED
  BY <1>1, InvariantHolds, PTL

-----------------------------------------------------------------------------
(* What each transaction does to status, lease and digest, row by row.     *)

\* The transactions of one row leave the others alone.
LEMMA OneRowWritten ==
  ASSUME StoreTypeOK, NEW j \in Jobs, NEW bytes
  PROVE  /\ Insert(j) => row'[j].status = "PENDING"
         /\ MarkWriting(j) => /\ row'[j].status = row[j].status
                              /\ row'[j].lease = row[j].lease
                              /\ row'[j].digest = row[j].digest
         /\ MarkDone(j, bytes) => row'[j].status = "DONE" /\ row'[j].digest = bytes
         /\ MarkFailed(j) => row'[j].status = "FAILED"
         /\ MarkAmbiguous(j) => row'[j].status = "AMBIGUOUS"
         /\ ExpireLease(j) => /\ row'[j].status = "IN_PROGRESS"
                              /\ row[j].status = "IN_PROGRESS"
         /\ RequeueAfterLocalFailure(j) =>
              /\ row[j].status = "IN_PROGRESS" => row'[j].status = "PENDING"
              /\ row[j].status # "IN_PROGRESS" => row'[j] = row[j]
         /\ (\/ Insert(j) \/ MarkWriting(j) \/ MarkDone(j, bytes) \/ MarkFailed(j)
             \/ MarkAmbiguous(j) \/ ExpireLease(j) \/ RequeueAfterLocalFailure(j)) =>
              /\ \A i \in Jobs : i # j => row'[i] = row[i]
              /\ file' = file
<1>1. row \in [Jobs -> Row] /\ row[j] \in Row
  BY DEF StoreTypeOK
<1>2. Insert(j) => row'[j].status = "PENDING" /\ \A i \in Jobs : i # j => row'[i] = row[i]
  BY <1>1 DEF Insert, Row
<1>3. MarkWriting(j) => /\ row'[j].status = row[j].status
                        /\ row'[j].lease = row[j].lease
                        /\ row'[j].digest = row[j].digest
                        /\ \A i \in Jobs : i # j => row'[i] = row[i]
  BY <1>1 DEF MarkWriting, Row
<1>4. MarkDone(j, bytes) => /\ row'[j].status = "DONE" /\ row'[j].digest = bytes
                            /\ \A i \in Jobs : i # j => row'[i] = row[i]
  BY <1>1 DEF MarkDone, Row
<1>5. MarkFailed(j) => row'[j].status = "FAILED" /\ \A i \in Jobs : i # j => row'[i] = row[i]
  BY <1>1 DEF MarkFailed, Row
<1>6. MarkAmbiguous(j) =>
        row'[j].status = "AMBIGUOUS" /\ \A i \in Jobs : i # j => row'[i] = row[i]
  BY <1>1 DEF MarkAmbiguous, Row
<1>7. ExpireLease(j) => /\ row[j].status = "IN_PROGRESS" /\ row'[j].status = "IN_PROGRESS"
                        /\ \A i \in Jobs : i # j => row'[i] = row[i]
  BY <1>1 DEF ExpireLease, Row
<1>8. RequeueAfterLocalFailure(j) =>
        /\ row[j].status = "IN_PROGRESS" => row'[j].status = "PENDING"
        /\ row[j].status # "IN_PROGRESS" => row'[j] = row[j]
        /\ \A i \in Jobs : i # j => row'[i] = row[i]
  BY <1>1 DEF RequeueAfterLocalFailure, Row
<1>9. (\/ Insert(j) \/ MarkWriting(j) \/ MarkDone(j, bytes) \/ MarkFailed(j)
       \/ MarkAmbiguous(j) \/ ExpireLease(j) \/ RequeueAfterLocalFailure(j)) => file' = file
  BY DEF Insert, MarkWriting, MarkDone, MarkFailed, MarkAmbiguous, ExpireLease,
         RequeueAfterLocalFailure
<1> QED
  BY <1>2, <1>3, <1>4, <1>5, <1>6, <1>7, <1>8, <1>9

\* So do those of several rows.
LEMMA RowsWritten ==
  ASSUME StoreTypeOK, NEW S \in SUBSET Jobs, NEW j \in Jobs
  PROVE  /\ Claim(S) => /\ j \in S => /\ row'[j].status = "IN_PROGRESS"
                                      /\ row'[j].lease = "fresh"
                        /\ j \notin S => row'[j] = row[j]
                        /\ file' = file
         /\ RecoverStale(S) =>
              /\ j \in S /\ row[j].status = "IN_PROGRESS" => row'[j].status = "AMBIGUOUS"
              /\ ~(j \in S /\ row[j].status = "IN_PROGRESS") => row'[j] = row[j]
              /\ file' = file
<1>1. row[j] \in Row
  BY DEF StoreTypeOK
<1>2. ASSUME Claim(S)
      PROVE  /\ j \in S => row'[j].status = "IN_PROGRESS" /\ row'[j].lease = "fresh"
             /\ j \notin S => row'[j] = row[j]
             /\ file' = file
  <2>1. j \in S => row'[j] = [row[j] EXCEPT !.status = "IN_PROGRESS", !.lease = "fresh",
                                            !.pub = "UNPUBLISHED"]
    BY <1>2 DEF Claim
  <2>2. j \notin S => row'[j] = row[j]
    BY <1>2 DEF Claim
  <2>3. file' = file
    BY <1>2 DEF Claim
  <2> QED
    BY <1>1, <1>2, <2>1, <2>2, <2>3 DEF Row
<1>3. RecoverStale(S) =>
        /\ j \in S /\ row[j].status = "IN_PROGRESS" => row'[j].status = "AMBIGUOUS"
        /\ ~(j \in S /\ row[j].status = "IN_PROGRESS") => row'[j] = row[j]
        /\ file' = file
  <2> SUFFICES ASSUME RecoverStale(S)
               PROVE  /\ j \in S /\ row[j].status = "IN_PROGRESS" =>
                           row'[j].status = "AMBIGUOUS"
                      /\ ~(j \in S /\ row[j].status = "IN_PROGRESS") => row'[j] = row[j]
                      /\ file' = file
    OBVIOUS
  <2>1. row'[j] = IF j \in S /\ row[j].status = "IN_PROGRESS"
                  THEN [row[j] EXCEPT !.status = "AMBIGUOUS", !.lease = "none"]
                  ELSE row[j]
    BY DEF RecoverStale
  <2>2. file' = file
    BY DEF RecoverStale
  <2> QED
    BY <1>1, <2>1, <2>2 DEF Row
<1> QED
  BY <1>2, <1>3

-----------------------------------------------------------------------------
(* Without transient errors no copy of a job goes back on the queue, and   *)
(* whoever holds a job is the only one to.                                 *)

\* No provider call ends in a way that the worker retries by itself.
NoTransient == "transient" \notin Outcomes

NeverRetries == \A w \in Workers : worker[w].pc \notin {"retry", "backoff", "resubmit"}

\* The poll thread has claimed j and not dispatched it yet.
Polled(j) == poller.pc \in {"put", "full"} /\ j \in poller.jobs

OneHolder ==
  /\ \A i, k \in DOMAIN queue : queue[i] = queue[k] => i = k
  /\ \A v, w \in Workers, j \in Jobs : WorksOn(v, j) /\ WorksOn(w, j) => v = w
  /\ \A i \in DOMAIN queue, w \in Workers : ~WorksOn(w, queue[i])
  /\ \A j \in Jobs : Polled(j) => /\ \A i \in DOMAIN queue : queue[i] # j
                                  /\ \A w \in Workers : ~WorksOn(w, j)

\* What can be claimed, now or after its submission, is held by nobody.
Unclaimed(j) == row[j].status \in {"ABSENT", "PENDING"}
UnclaimedFree == \A j \in Jobs : Unclaimed(j) => ~Held(j)

SoleInv == NeverRetries /\ OneHolder /\ UnclaimedFree

\* The copies of each job are no more after a step that hands out none.
LEMMA HoldersShrink ==
  ASSUME SoleInv, queue \in Seq(Jobs), NeverRetries', UNCHANGED queue,
         \A w \in Workers, j \in Jobs : WorksOn(w, j)' => WorksOn(w, j),
         \A j \in Jobs : Polled(j)' => Polled(j),
         \A j \in Jobs : Unclaimed(j)' => Unclaimed(j) \/ ~Held(j)'
  PROVE  SoleInv'
<1>1. \A j \in Jobs : Held(j)' => Held(j)
  BY DEF Held, Polled
<1>2. UnclaimedFree'
  BY <1>1 DEF SoleInv, UnclaimedFree
<1>3. \A i \in DOMAIN queue : queue[i] \in Jobs
  OBVIOUS
<1>4. \A i \in DOMAIN queue, w \in Workers : ~WorksOn(w, queue[i])'
  BY <1>3 DEF SoleInv, OneHolder
<1>5. \A v, w \in Workers, j \in Jobs : WorksOn(v, j)' /\ WorksOn(w, j)' => v = w
  BY DEF SoleInv, OneHolder
<1>6. \A j \in Jobs : Polled(j)' => /\ \A i \in DOMAIN queue : queue[i] # j
                                   /\ \A w \in Workers : ~WorksOn(w, j)'
  BY DEF SoleInv, OneHolder
<1>7. OneHolder'
  BY <1>4, <1>5, <1>6 DEF SoleInv, OneHolder
<1> QED
  BY <1>2, <1>7 DEF SoleInv

\* A step of worker w that takes nothing from the queue ends its work or goes on
\* with the same job, and makes no row claimable.
LEMMA WorkerGoesOn ==
  ASSUME IInv, NoTransient, NeverRetries, NEW w \in Workers, WorkerStep(w) \/ Abandon(w)
  PROVE  \/ Take(w)
         \/ /\ UNCHANGED <<queue, poller, operator>>
            /\ NeverRetries'
            /\ \A v \in Workers, j \in Jobs : WorksOn(v, j)' => WorksOn(v, j)
            /\ \A j \in Jobs : Unclaimed(j)' => Unclaimed(j)
<1> DEFINE me == worker[w]
           Smooth == /\ NeverRetries'
                     /\ \A v \in Workers, j \in Jobs : WorksOn(v, j)' => WorksOn(v, j)
           Settling == \A j \in Jobs : Unclaimed(j)' => Unclaimed(j)
<1>1. /\ me \in Worker
      /\ worker \in [Workers -> Worker]
      /\ me.pc # "idle" => me.job \in Jobs
      /\ StoreTypeOK
      /\ None \notin Jobs
  BY QueueAssumption DEF IInv, TypeOK, BusyHasJob
<1>2. ASSUME Release(w) PROVE Smooth
  BY <1>1, <1>2 DEF Release, Idle, NeverRetries, WorksOn
<1>3. ASSUME me.pc # "play", NEW r \in Worker, r.pc \notin {"retry", "backoff", "resubmit"},
             r.job = me.job, worker' = [worker EXCEPT ![w] = r]
      PROVE  Smooth
  BY <1>1, <1>3 DEF NeverRetries, WorksOn
<1>4. ASSUME me.pc # "play", NEW pc \in WorkerPC \ {"retry", "backoff", "resubmit"}, Goto(w, pc)
      PROVE  Smooth
  <2>1. worker' = [worker EXCEPT ![w] = [me EXCEPT !.pc = pc]]
    BY <1>1, <1>4 DEF Goto
  <2>2. [me EXCEPT !.pc = pc] \in Worker /\ [me EXCEPT !.pc = pc].job = me.job
        /\ [me EXCEPT !.pc = pc].pc = pc
    BY <1>1 DEF Worker
  <2> QED
    BY <1>3, <1>4, <2>1, <2>2
<1>5. ASSUME UNCHANGED row PROVE Settling
  BY <1>5 DEF Unclaimed
<1>6. ASSUME me.job \in Jobs, NEW bytes,
             \/ MarkWriting(me.job) \/ MarkDone(me.job, bytes) \/ MarkFailed(me.job)
             \/ MarkAmbiguous(me.job)
      PROVE  Settling
  BY <1>1, <1>6, OneRowWritten DEF Unclaimed
<1> HIDE DEF Smooth, Settling
<1>7. CASE Synthesize(w)
  <2>1. PICK bytes \in Renders :
          worker' = [worker EXCEPT ![w].pc = "publish", ![w].out = bytes]
    BY <1>7 DEF Synthesize
  <2> DEFINE r == [me EXCEPT !.pc = "publish", !.out = bytes]
  <2>2. worker' = [worker EXCEPT ![w] = r]
    BY <1>1, <2>1
  <2>3. r \in Worker /\ r.job = me.job /\ r.pc = "publish"
    BY <1>1 DEF Worker, WorkerPC
  <2>4. Smooth
    BY <1>3, <1>7, <2>2, <2>3 DEF Synthesize
  <2>5. Settling
    BY <1>1, <1>6, <1>7 DEF Synthesize
  <2> QED
    BY <1>7, <2>4, <2>5 DEF Synthesize, Smooth, Settling
<1>8. CASE Publish(w)
  <2>1. Smooth
    BY <1>4, <1>8 DEF Publish, WorkerPC
  <2>2. Settling
    BY <1>5, <1>8 DEF Publish, WriteArtifact
  <2> QED
    BY <1>8, <2>1, <2>2 DEF Publish, Smooth, Settling
<1>9. CASE Verify(w)
  <2>1. Smooth
    BY <1>2, <1>4, <1>9 DEF Verify, WorkerPC
  <2>2. Settling
    BY <1>5, <1>9 DEF Verify, store
  <2> QED
    BY <1>9, <2>1, <2>2 DEF Verify, Smooth, Settling
<1>10. CASE Complete(w)
  <2>1. Smooth
    BY <1>2, <1>4, <1>10 DEF Complete, WorkerPC
  <2>2. Settling
    BY <1>1, <1>6, <1>10 DEF Complete
  <2> QED
    BY <1>10, <2>1, <2>2 DEF Complete, Smooth, Settling
<1>11. CASE EndPlayback(w) \/ Abandon(w)
  <2>1. Smooth
    BY <1>2, <1>11 DEF EndPlayback, Abandon
  <2>2. Settling
    BY <1>5, <1>11 DEF EndPlayback, Abandon, store
  <2> QED
    BY <1>11, <2>1, <2>2 DEF EndPlayback, Abandon, Smooth, Settling
<1>12. CASE Reject(w) \/ LoseOutcome(w)
  <2>1. Smooth
    BY <1>2, <1>12 DEF Reject, LoseOutcome
  <2>2. Settling
    BY <1>1, <1>6, <1>12 DEF Reject, LoseOutcome
  <2> QED
    BY <1>12, <2>1, <2>2 DEF Reject, LoseOutcome, Smooth, Settling
<1>13. ~ReadRetryCount(w) /\ ~IncrementRetry(w) /\ ~Reread(w) /\ ~Resubmit(w)
  BY DEF ReadRetryCount, IncrementRetry, Reread, Resubmit, NoTransient, NeverRetries
<1> QED
  BY <1>7, <1>8, <1>9, <1>10, <1>11, <1>12, <1>13 DEF WorkerStep

\* A job that leaves the queue for a thread was held before.
LEMMA TakenWasHeld ==
  ASSUME IInv, NEW w \in Workers, Take(w), NEW j \in Jobs, Held(j)'
  PROVE  Held(j)
<1> DEFINE r == [Idle EXCEPT !.pc = "call", !.job = Head(queue)]
<1>1. /\ queue \in Seq(Jobs) /\ queue # <<>>
      /\ worker \in [Workers -> Worker]
      /\ UNCHANGED poller
  BY DEF IInv, TypeOK, Take
<1>2. /\ Head(queue) = queue[1]
      /\ 1 \in DOMAIN queue
      /\ \A i \in DOMAIN queue' : i + 1 \in DOMAIN queue /\ queue'[i] = queue[i + 1]
  BY <1>1 DEF Take
<1>3. r.job = Head(queue)
  BY DEF Idle
<1>4. worker' = [worker EXCEPT ![w] = r]
  BY DEF Take
<1> HIDE DEF r
<1>5. CASE \E i \in DOMAIN queue' : queue'[i] = j
  BY <1>2, <1>5 DEF Held
<1>6. CASE \E v \in Workers : WorksOn(v, j)'
  BY <1>1, <1>2, <1>3, <1>4, <1>6 DEF Held, WorksOn
<1>7. CASE Polled(j)'
  BY <1>1, <1>7 DEF Held, Polled
<1> QED
  BY <1>5, <1>6, <1>7 DEF Held, Polled

\* A worker takes the one copy at the head of the queue.
LEMMA TakeKeepsSole ==
  ASSUME IInv, SoleInv, NEW w \in Workers, Take(w)
  PROVE  SoleInv'
<1> DEFINE h == Head(queue)
           r == [Idle EXCEPT !.pc = "call", !.job = h]
<1>1. /\ queue \in Seq(Jobs) /\ queue # <<>>
      /\ worker \in [Workers -> Worker]
      /\ StoreTypeOK
  BY DEF IInv, TypeOK, Take
<1>2. /\ h = queue[1] /\ h \in Jobs
      /\ 1 \in DOMAIN queue
      /\ \A i \in DOMAIN queue' : i + 1 \in DOMAIN queue /\ i + 1 # 1 /\ queue'[i] = queue[i + 1]
      /\ \A i, k \in DOMAIN queue' : i + 1 = k + 1 => i = k
      /\ \A i \in DOMAIN queue : queue[i] \in Jobs
  BY <1>1 DEF Take
<1>3. r.pc = "call" /\ r.job = h
  BY DEF Idle
<1>4. worker' = [worker EXCEPT ![w] = r] /\ worker[w].pc = "idle" /\ UNCHANGED <<row, poller>>
  BY DEF Take, store
<1> HIDE DEF h, r
<1>5. /\ worker'[w] = r
      /\ \A v \in Workers : v # w => worker'[v] = worker[v]
  BY <1>1, <1>4
<1>6. \A v \in Workers, j \in Jobs : WorksOn(v, j)' => (v # w /\ WorksOn(v, j)) \/ (v = w /\ j = h)
  BY <1>3, <1>5 DEF WorksOn
<1>7. \A v \in Workers : ~WorksOn(v, h)
  BY <1>2 DEF SoleInv, OneHolder
<1>8. \A i \in DOMAIN queue' : queue'[i] # h
  BY <1>2 DEF SoleInv, OneHolder
<1>9. \A j \in Jobs : Held(j)' => Held(j)
  BY TakenWasHeld
<1>10. UnclaimedFree'
  BY <1>4, <1>9 DEF SoleInv, UnclaimedFree, Unclaimed
<1>11. NeverRetries'
  BY <1>3, <1>5 DEF SoleInv, NeverRetries
<1>12. \A i, k \in DOMAIN queue' : queue'[i] = queue'[k] => i = k
  BY <1>2 DEF SoleInv, OneHolder
<1>13. \A u, v \in Workers, j \in Jobs : WorksOn(u, j)' /\ WorksOn(v, j)' => u = v
  BY <1>6, <1>7 DEF SoleInv, OneHolder
<1>14. \A i \in DOMAIN queue', v \in Workers : ~(worker'[v].job = queue'[i] /\ worker'[v].pc # "play")
  BY <1>2, <1>6, <1>8 DEF SoleInv, OneHolder, WorksOn
<1>16. \A j \in Jobs : Polled(j)' => /\ \A i \in DOMAIN queue' : queue'[i] # j
                                    /\ \A v \in Workers : ~WorksOn(v, j)'
  BY <1>2, <1>4, <1>6 DEF SoleInv, OneHolder, Polled
<1> QED
  BY <1>2, <1>10, <1>11, <1>12, <1>13, <1>14, <1>16 DEF SoleInv, OneHolder, WorksOn

\* A claim hands out the copies of rows that nobody held.
LEMMA ClaimKeepsSole ==
  ASSUME IInv, SoleInv, PollClaim
  PROVE  SoleInv'
<1>1. PICK B \in SUBSET Claimable :
        /\ Claim(B)
        /\ poller' = IF B = {} THEN Scanning ELSE [pc |-> "put", jobs |-> B]
  BY DEF PollClaim
<1>2. /\ B \in SUBSET Jobs
      /\ \A j \in B : row[j].status = "PENDING"
      /\ StoreTypeOK
      /\ UNCHANGED <<queue, worker>>
      /\ ~\E j \in Jobs : Polled(j)
      /\ \A i \in DOMAIN queue : queue[i] \in Jobs
  BY DEF Claimable, InStatus, IInv, TypeOK, PollClaim, Polled
<1>3. \A j \in B : ~Held(j)
  BY <1>2 DEF SoleInv, UnclaimedFree, Unclaimed
<1>4. \A j \in Jobs : Polled(j)' => j \in B
  BY <1>1 DEF Polled, Scanning
<1>5. \A j \in Jobs : /\ j \in B => row'[j].status = "IN_PROGRESS"
                      /\ j \notin B => row'[j] = row[j]
  BY <1>1, <1>2, RowsWritten
<1>6. \A j \in Jobs : Held(j)' => Held(j) \/ j \in B
  BY <1>2, <1>4 DEF Held, Polled, WorksOn
<1>7. UnclaimedFree'
  BY <1>5, <1>6 DEF SoleInv, UnclaimedFree, Unclaimed
<1>8. \A j \in Jobs : Polled(j)' => /\ \A i \in DOMAIN queue : queue[i] # j
                                    /\ \A w \in Workers : ~WorksOn(w, j)
  BY <1>3, <1>4 DEF Held
<1>9. OneHolder'
  BY <1>2, <1>8 DEF SoleInv, OneHolder, WorksOn
<1> QED
  BY <1>2, <1>7, <1>9 DEF SoleInv, NeverRetries

\* Dispatching or giving back a claim takes it out of the poll thread's hands.
LEMMA DispatchedDrops ==
  ASSUME poller \in Poller, NEW j \in Jobs, poller.pc \in {"put", "full"}, NextClaimed(j),
         poller' = Dispatched(j)
  PROVE  /\ Polled(j)
         /\ ~Polled(j)'
         /\ \A i \in Jobs : Polled(i)' => Polled(i)
BY DEF Poller, NextClaimed, Dispatched, Polled, Scanning

\* Queueing a claim makes nobody hold what was not held.
LEMMA PutWasHeld ==
  ASSUME IInv, NEW k \in Jobs, PollPut(k), NEW j \in Jobs, Held(j)'
  PROVE  Held(j)
<1>1. /\ queue \in Seq(Jobs)
      /\ queue' = Append(queue, k)
      /\ UNCHANGED worker
      /\ poller \in Poller
  BY DEF IInv, TypeOK, PollPut
<1>2. Polled(k) /\ \A i \in Jobs : Polled(i)' => Polled(i)
  BY <1>1, DispatchedDrops DEF PollPut
<1>3. /\ DOMAIN queue' = DOMAIN queue \cup {Len(queue) + 1}
      /\ queue'[Len(queue) + 1] = k
      /\ \A i \in DOMAIN queue : queue'[i] = queue[i]
  BY <1>1
<1>4. CASE \E i \in DOMAIN queue' : queue'[i] = j
  BY <1>2, <1>3, <1>4 DEF Held, Polled
<1>5. CASE \E v \in Workers : WorksOn(v, j)'
  BY <1>1, <1>5 DEF Held, WorksOn
<1>6. CASE Polled(j)'
  BY <1>2, <1>6 DEF Held, Polled
<1> QED
  BY <1>4, <1>5, <1>6 DEF Held, Polled

\* The copy that the poll thread held goes to the end of the queue.
LEMMA PutKeepsSole ==
  ASSUME IInv, SoleInv, NEW j \in Jobs, PollPut(j)
  PROVE  SoleInv'
<1>1. /\ queue \in Seq(Jobs)
      /\ queue' = Append(queue, j)
      /\ UNCHANGED <<row, worker>>
      /\ poller \in Poller
  BY DEF IInv, TypeOK, PollPut, store
<1>2. /\ Polled(j)
      /\ ~Polled(j)'
      /\ \A i \in Jobs : Polled(i)' => Polled(i)
  BY <1>1, DispatchedDrops DEF PollPut
<1>3. /\ DOMAIN queue' = DOMAIN queue \cup {Len(queue) + 1}
      /\ queue'[Len(queue) + 1] = j
      /\ \A i \in DOMAIN queue : queue'[i] = queue[i]
      /\ \A i \in DOMAIN queue : queue[i] \in Jobs
  BY <1>1
<1>4. /\ \A i \in DOMAIN queue : queue[i] # j
      /\ \A w \in Workers : ~WorksOn(w, j)
  BY <1>2 DEF SoleInv, OneHolder
<1>5. \A i \in Jobs : Held(i)' => Held(i)
  BY PutWasHeld
<1>6. UnclaimedFree'
  BY <1>1, <1>5 DEF SoleInv, UnclaimedFree, Unclaimed
<1>7. \A i, k \in DOMAIN queue' : queue'[i] = queue'[k] => i = k
  BY <1>3, <1>4 DEF SoleInv, OneHolder
<1>8. \A i \in DOMAIN queue', w \in Workers : ~WorksOn(w, queue'[i])
  BY <1>3, <1>4 DEF SoleInv, OneHolder
<1>9. \A i \in Jobs : Polled(i)' => /\ \A k \in DOMAIN queue' : queue'[k] # i
                                    /\ \A w \in Workers : ~WorksOn(w, i)
  BY <1>2, <1>3 DEF SoleInv, OneHolder
<1>10. \A w \in Workers : \A x : WorksOn(w, x)' <=> WorksOn(w, x)
  BY <1>1 DEF WorksOn
<1>11. OneHolder'
  BY <1>7, <1>8, <1>9, <1>10 DEF SoleInv, OneHolder, WorksOn
<1> QED
  BY <1>1, <1>6, <1>11 DEF SoleInv, NeverRetries

\* A claim that is given back was the only copy.
LEMMA RequeueKeepsSole ==
  ASSUME IInv, SoleInv, NEW j \in Jobs, PollRequeue(j)
  PROVE  SoleInv'
<1>1. /\ queue \in Seq(Jobs)
      /\ UNCHANGED <<queue, worker>>
      /\ poller \in Poller
      /\ StoreTypeOK
  BY DEF IInv, TypeOK, PollRequeue
<1>2. /\ Polled(j)
      /\ ~Polled(j)'
      /\ \A i \in Jobs : Polled(i)' => Polled(i)
  BY <1>1, DispatchedDrops DEF PollRequeue
<1>3. ~Held(j)'
  BY <1>1, <1>2 DEF SoleInv, OneHolder, Held, Polled, WorksOn
<1>4. \A i \in Jobs : i # j => row'[i] = row[i]
  BY <1>1, OneRowWritten DEF PollRequeue
<1>5. \A i \in Jobs : Unclaimed(i)' => Unclaimed(i) \/ ~Held(i)'
  BY <1>3, <1>4 DEF Unclaimed
<1>6. NeverRetries'
  BY <1>1 DEF SoleInv, NeverRetries
<1>7. \A w \in Workers, i \in Jobs : WorksOn(w, i)' => WorksOn(w, i)
  BY <1>1 DEF WorksOn
<1> QED
  BY <1>1, <1>2, <1>5, <1>6, <1>7, HoldersShrink

\* Steps that move no copy of any job.
LEMMA NoCopyMoves ==
  ASSUME IInv, SoleInv, UNCHANGED <<queue, worker>>,
         \A j \in Jobs : Polled(j)' => Polled(j),
         \A j \in Jobs : Unclaimed(j)' => Unclaimed(j)
  PROVE  SoleInv'
<1>1. queue \in Seq(Jobs)
  BY DEF IInv, TypeOK
<1>2. NeverRetries'
  BY DEF SoleInv, NeverRetries
<1>3. \A w \in Workers, j \in Jobs : WorksOn(w, j)' => WorksOn(w, j)
  BY DEF WorksOn
<1> QED
  BY <1>1, <1>2, <1>3, HoldersShrink

\* A crash forgets every copy.
LEMMA CrashKeepsSole ==
  ASSUME Crash
  PROVE  SoleInv'
<1>1. queue' = <<>> /\ worker' = [w \in Workers |-> Idle] /\ poller' = Scanning
  BY DEF Crash
<1>2. \A w \in Workers, j \in Jobs : ~WorksOn(w, j)'
  BY <1>1, QueueAssumption DEF Idle, WorksOn
<1>3. \A j \in Jobs : ~Polled(j)'
  BY <1>1 DEF Scanning, Polled
<1>4. DOMAIN queue' = {}
  BY <1>1
<1>5. NeverRetries'
  BY <1>1 DEF NeverRetries, Idle
<1>6. \A j \in Jobs : ~Held(j)'
  BY <1>2, <1>3, <1>4 DEF Held, Polled
<1> QED
  BY <1>2, <1>3, <1>4, <1>5, <1>6 DEF SoleInv, OneHolder, UnclaimedFree

\* At most one copy of each job is preserved by every step.
LEMMA SoleStep ==
  ASSUME NoTransient, IInv, SoleInv, [Next]_vars
  PROVE  SoleInv'
<1>1. /\ StoreTypeOK
      /\ queue \in Seq(Jobs)
      /\ poller \in Poller
      /\ operator \in [Operators -> Operator]
      /\ NeverRetries
  BY DEF IInv, TypeOK, SoleInv
<1>2. CASE UNCHANGED vars
  BY <1>2, NoCopyMoves DEF vars, store, Polled, Unclaimed
<1>3. ASSUME NEW j \in Jobs, Enqueue(j) PROVE SoleInv'
  <2>1. \A i \in Jobs : Unclaimed(i)' => Unclaimed(i)
    BY <1>1, <1>3, OneRowWritten DEF Enqueue, Unclaimed
  <2> QED
    BY <1>3, <2>1, NoCopyMoves DEF Enqueue, Polled
<1>4. ASSUME NEW j \in Jobs, LeaseExpires(j) PROVE SoleInv'
  <2>1. \A i \in Jobs : Unclaimed(i)' => Unclaimed(i)
    BY <1>1, <1>4, OneRowWritten DEF LeaseExpires, Unclaimed
  <2> QED
    BY <1>4, <2>1, NoCopyMoves DEF LeaseExpires, Polled
<1>5. CASE PollScan \/ PollFull \/ PollAbort
  <2>1. \A i \in Jobs : Unclaimed(i)' => Unclaimed(i)
    BY <1>5 DEF PollScan, PollFull, PollAbort, store, Unclaimed
  <2>2. \A i \in Jobs : Polled(i)' => Polled(i)
    BY <1>1, <1>5 DEF PollScan, PollFull, PollAbort, Scanning, Poller, Polled
  <2> QED
    BY <1>5, <2>1, <2>2, NoCopyMoves DEF PollScan, PollFull, PollAbort
<1>6. ASSUME NEW S \in SUBSET Jobs, RecoverStale(S), UNCHANGED <<queue, worker>>,
             \A i \in Jobs : Polled(i)' => Polled(i)
      PROVE  SoleInv'
  <2>1. \A i \in Jobs : Unclaimed(i)' => Unclaimed(i)
    BY <1>1, <1>6, RowsWritten DEF Unclaimed
  <2> QED
    BY <1>6, <2>1, NoCopyMoves
<1>7. CASE PollRecover
  BY <1>1, <1>6, <1>7 DEF PollRecover, Poller, Polled
<1>8. ASSUME NEW o \in Operators, OperatorRecover(o) PROVE SoleInv'
  BY <1>1, <1>6, <1>8 DEF OperatorRecover, Operator, Polled
<1>9. ASSUME NEW o \in Operators, NEW j \in Jobs,
             OperatorInspect(o, j) \/ OperatorVerify(o, j)
      PROVE  SoleInv'
  BY <1>9, NoCopyMoves DEF OperatorInspect, OperatorVerify, store, Polled, Unclaimed
<1>10. ASSUME NEW o \in Operators, NEW j \in Jobs, OperatorReconcile(o, j) PROVE SoleInv'
  <2>1. \A i \in Jobs : Unclaimed(i)' => Unclaimed(i)
    BY <1>1, <1>10, OneRowWritten DEF OperatorReconcile, Unclaimed
  <2> QED
    BY <1>10, <2>1, NoCopyMoves DEF OperatorReconcile, Polled
<1>11. ASSUME NEW w \in Workers, WorkerStep(w) \/ Abandon(w) PROVE SoleInv'
  <2>1. CASE Take(w)
    BY <2>1, TakeKeepsSole
  <2>2. CASE ~Take(w)
    <3>1. /\ UNCHANGED <<queue, poller>>
          /\ NeverRetries'
          /\ \A v \in Workers, j \in Jobs : WorksOn(v, j)' => WorksOn(v, j)
          /\ \A j \in Jobs : Unclaimed(j)' => Unclaimed(j)
      BY <1>1, <1>11, <2>2, WorkerGoesOn
    <3> QED
      BY <1>1, <3>1, HoldersShrink DEF Polled
  <2> QED
    BY <2>1, <2>2
<1>12. ASSUME NEW o \in Operators, OperatorStep(o) PROVE SoleInv'
  <2>1. CASE OperatorScan(o)
    BY <2>1, NoCopyMoves DEF OperatorScan, store, Polled, Unclaimed
  <2> QED
    BY <1>8, <1>9, <1>10, <1>12, <2>1 DEF OperatorStep
<1>13. CASE PollStep
  BY <1>5, <1>7, <1>13, ClaimKeepsSole, PutKeepsSole, RequeueKeepsSole DEF PollStep
<1> QED
  BY <1>2, <1>3, <1>4, <1>5, <1>11, <1>12, <1>13, CrashKeepsSole DEF Next

\* What nobody but one holds is there at most once.
LEMMA SoleMeansOne ==
  ASSUME IInv, SoleInv
  PROVE  SoleHolder
<1> SUFFICES ASSUME NEW j \in Jobs PROVE Copies(j) <= 1
  BY DEF SoleHolder
<1> DEFINE queued == {i \in DOMAIN queue : queue[i] = j}
           working == {w \in Workers : WorksOn(w, j)}
<1>1. ASSUME NEW S, \A x, y \in S : x = y
      PROVE  Cardinality(S) = IF S = {} THEN 0 ELSE 1
  <2>1. CASE S = {}
    BY <2>1, FS_EmptySet
  <2>2. CASE S # {}
    <3>1. PICK x \in S : TRUE
      BY <2>2
    <3>2. S = {x}
      BY <1>1, <3>1
    <3> QED
      BY <2>2, <3>2, FS_Singleton
  <2> QED
    BY <2>1, <2>2
<1>2. \A x, y \in queued : x = y
  BY DEF SoleInv, OneHolder
<1>3. \A x, y \in working : x = y
  BY DEF SoleInv, OneHolder
<1>4. queued = {} \/ working = {}
  BY DEF SoleInv, OneHolder
<1>5. Polled(j) => queued = {} /\ working = {}
  BY DEF SoleInv, OneHolder
<1>6. Copies(j) = Cardinality(queued) + Cardinality(working) + (IF Polled(j) THEN 1 ELSE 0)
  BY DEF Copies, Polled
<1> HIDE DEF queued, working
<1>7. /\ Cardinality(queued) = IF queued = {} THEN 0 ELSE 1
      /\ Cardinality(working) = IF working = {} THEN 0 ELSE 1
  BY <1>1, <1>2, <1>3
<1> QED
  BY <1>4, <1>5, <1>6, <1>7

\* Nothing is held or claimed at first.
LEMMA SoleInit == Init => SoleInv
<1> SUFFICES ASSUME Init PROVE SoleInv
  OBVIOUS
<1>1. queue = <<>> /\ worker = [w \in Workers |-> Idle] /\ poller = Scanning
  BY DEF Init
<1>2. \A w \in Workers, j \in Jobs : ~WorksOn(w, j)
  BY <1>1, QueueAssumption DEF Idle, WorksOn
<1>3. \A j \in Jobs : ~Polled(j)
  BY <1>1 DEF Scanning, Polled
<1>4. DOMAIN queue = {}
  BY <1>1
<1>5. NeverRetries
  BY <1>1 DEF NeverRetries, Idle
<1>6. \A j \in Jobs : ~Held(j)
  BY <1>2, <1>3, <1>4 DEF Held, Polled
<1> QED
  BY <1>2, <1>3, <1>4, <1>5, <1>6 DEF SoleInv, OneHolder, UnclaimedFree

\* The two invariants together.
LEMMA SoleHolds ==
  ASSUME NoTransient
  PROVE  Spec => [](IInv /\ SoleInv)
<1>1. Init => IInv /\ SoleInv
  BY InitEstablishes, SoleInit
<1>2. IInv /\ SoleInv /\ [Next]_vars => (IInv /\ SoleInv)'
  BY StepKeeps, SoleStep
<1> QED
  BY <1>1, <1>2, PTL DEF Spec

\* As long as no provider call ends in an error the worker retries, no job is
\* ever in two hands: not in the queue and with a thread, not with two threads,
\* not with a thread and the poll thread, whatever expires, is recovered, is
\* requeued, is reconciled or crashes meanwhile.
THEOREM OneHolderPerJob ==
  ASSUME NoTransient
  PROVE  Spec => []SoleHolder
<1>1. IInv /\ SoleInv => SoleHolder
  BY SoleMeansOne
<1> QED
  BY <1>1, SoleHolds, PTL

\* A row becomes claimable when it is submitted or given back, never otherwise.
LEMMA ClaimableAgain ==
  ASSUME NoTransient, IInv, NeverRetries, [Next]_vars, NEW j \in Jobs, Unclaimed(j)'
  PROVE  Unclaimed(j) \/ row[j].status = "IN_PROGRESS"
<1>1. /\ StoreTypeOK
      /\ poller \in Poller
      /\ operator \in [Operators -> Operator]
  BY DEF IInv, TypeOK
<1>2. CASE UNCHANGED row
  BY <1>2 DEF Unclaimed
<1>3. ASSUME NEW i \in Jobs, Enqueue(i) \/ LeaseExpires(i)
      PROVE  Unclaimed(j)
  BY <1>1, <1>3, OneRowWritten DEF Enqueue, LeaseExpires, Unclaimed
<1>4. ASSUME NEW S \in SUBSET Jobs, RecoverStale(S) PROVE Unclaimed(j)
  BY <1>1, <1>4, RowsWritten DEF Unclaimed
<1>5. CASE PollClaim
  <2>1. PICK B \in SUBSET Claimable : Claim(B)
    BY <1>5 DEF PollClaim
  <2>2. B \in SUBSET Jobs
    BY DEF Claimable, InStatus
  <2> QED
    BY <1>1, <2>1, <2>2, RowsWritten DEF Unclaimed
<1>6. ASSUME NEW i \in Jobs, PollRequeue(i)
      PROVE  Unclaimed(j) \/ row[j].status = "IN_PROGRESS"
  BY <1>1, <1>6, OneRowWritten DEF PollRequeue, Unclaimed
<1>7. ASSUME NEW w \in Workers, WorkerStep(w) \/ Abandon(w) PROVE Unclaimed(j)
  BY <1>7, WorkerGoesOn DEF Take, store, Unclaimed
<1>8. ASSUME NEW o \in Operators, OperatorStep(o) PROVE Unclaimed(j)
  <2>1. CASE OperatorScan(o) \/ \E i \in Jobs : OperatorInspect(o, i) \/ OperatorVerify(o, i)
    BY <2>1 DEF OperatorScan, OperatorInspect, OperatorVerify, store, Unclaimed
  <2>2. CASE OperatorRecover(o)
    BY <1>1, <1>4, <2>2 DEF OperatorRecover, Operator
  <2>3. ASSUME NEW i \in Jobs, OperatorReconcile(o, i) PROVE Unclaimed(j)
    BY <1>1, <2>3, OneRowWritten DEF OperatorReconcile, Unclaimed
  <2> QED
    BY <1>8, <2>1, <2>2, <2>3 DEF OperatorStep
<1>9. CASE PollStep
  <2>1. CASE PollScan \/ PollFull \/ \E i \in Jobs : PollPut(i)
    BY <1>2, <2>1 DEF PollScan, PollFull, PollPut, store
  <2>2. CASE PollRecover
    BY <1>1, <1>4, <2>2 DEF PollRecover, Poller
  <2> QED
    BY <1>5, <1>6, <1>9, <2>1, <2>2 DEF PollStep
<1>10. CASE PollAbort \/ Crash \/ UNCHANGED vars
  BY <1>2, <1>10 DEF PollAbort, Crash, vars, store
<1> QED
  BY <1>3, <1>7, <1>8, <1>9, <1>10 DEF Next

\* Under the same condition an AMBIGUOUS job is never claimable again.  (With
\* transient errors it can be: a copy that outlived its claim increments a retry
\* of the row that another copy's lost outcome has made AMBIGUOUS.)
THEOREM NoReplay ==
  ASSUME NoTransient
  PROVE  Spec => AmbiguousNotReplayed
<1>1. IInv /\ SoleInv /\ [Next]_vars =>
        [\A j \in Jobs : row[j].status = "AMBIGUOUS" => row'[j].status # "PENDING"]_vars
  BY ClaimableAgain DEF SoleInv, Unclaimed
<1> QED
  BY <1>1, SoleHolds, PTL DEF Spec, AmbiguousNotReplayed

-----------------------------------------------------------------------------
(* When moreover no lease runs out under a thread that still holds the     *)
(* job, holding a job means holding the claim on it, and a DONE row means  *)
(* what it says.                                                           *)

\* The claim on j stands: its outcome may still be recorded.
OnTime(j) == row[j].status = "IN_PROGRESS" /\ row[j].lease # "expired"
HeldOnTime == \A j \in Jobs : Held(j) => OnTime(j)

\* A row an operator may reconcile, or has.
Reconcilable(j) == row[j].status \in {"AMBIGUOUS", "DONE"}

\* A row that recovery selected, until and after it is recovered.
Lost(j) == Reconcilable(j) \/ (row[j].status = "IN_PROGRESS" /\ row[j].lease = "expired")

SelectedLost ==
  /\ poller.pc = "recover" => \A j \in poller.jobs : Lost(j)
  /\ \A o \in Operators : operator[o].pc = "recover" => \A j \in operator[o].jobs : Lost(j)

\* An operator that has read an artifact still reads the same bytes later.
Reconciling ==
  \A o \in Operators : \A j \in operator[o].jobs :
    /\ operator[o].pc \in {"verify", "reconcile"} => Reconcilable(j)
    /\ operator[o].pc = "reconcile" => operator[o].out = file[j] /\ file[j] # None

\* So does the thread that wrote it.
RendersInHand ==
  \A w \in Workers :
    /\ worker[w].pc \in {"publish", "verify", "commit"} => worker[w].out # None
    /\ worker[w].pc = "commit" => worker[w].out = file[worker[w].job]

Digested(j) == row[j].status = "DONE" => row[j].digest # None /\ row[j].digest = file[j]

OrderlyInv ==
  /\ HeldOnTime
  /\ SelectedLost
  /\ Reconciling
  /\ RendersInHand
  /\ \A j \in Jobs : Digested(j)

\* What a step may do to row j and its artifact.
Advances(j) ==
  /\ Reconcilable(j) => Reconcilable(j)' /\ file'[j] = file[j]
  /\ Lost(j) => Lost(j)'
  /\ OnTime(j) /\ Held(j)' => OnTime(j)'
  /\ Digested(j) => Digested(j)'

\* A row and an artifact that are left alone advance.
LEMMA LeftAlone ==
  ASSUME NEW j \in Jobs, row'[j] = row[j], file'[j] = file[j]
  PROVE  Advances(j)
BY DEF Advances, Reconcilable, Lost, OnTime, Digested

\* A thread that stops working on a job was the last to hold it.
LEMMA LetGo ==
  ASSUME SoleInv, NEW w \in Workers, NEW j \in Jobs, WorksOn(w, j), ~WorksOn(w, j)',
         UNCHANGED <<queue, poller>>, \A v \in Workers : v # w => worker'[v] = worker[v]
  PROVE  ~Held(j)'
<1>1. \A v \in Workers : ~WorksOn(v, j)'
  BY DEF SoleInv, OneHolder, WorksOn
<1>2. \A i \in DOMAIN queue : queue[i] # j
  BY DEF SoleInv, OneHolder
<1>3. ~Polled(j)
  BY DEF SoleInv, OneHolder
<1> QED
  BY <1>1, <1>2, <1>3 DEF Held, Polled

\* Recovery touches lost rows only, reconciliation reconcilable ones.
LEMMA RecoveryAdvances ==
  ASSUME StoreTypeOK, NEW S \in SUBSET Jobs, RecoverStale(S), \A j \in S : Lost(j),
         NEW j \in Jobs
  PROVE  Advances(j)
<1>1. /\ j \in S /\ row[j].status = "IN_PROGRESS" => row'[j].status = "AMBIGUOUS"
      /\ ~(j \in S /\ row[j].status = "IN_PROGRESS") => row'[j] = row[j]
      /\ file' = file
  BY RowsWritten
<1>2. CASE j \in S /\ row[j].status = "IN_PROGRESS"
  BY <1>1, <1>2 DEF Advances, Reconcilable, Lost, OnTime, Digested
<1> QED
  BY <1>1, <1>2, LeftAlone

\* Each step of a worker thread.
LEMMA WorkerAdvances ==
  ASSUME NoTransient, IInv, SoleInv, OrderlyInv, NEW w \in Workers, WorkerStep(w) \/ Abandon(w),
         NEW j \in Jobs
  PROVE  Advances(j)
<1> DEFINE k == worker[w].job
<1>1. /\ StoreTypeOK
      /\ worker \in [Workers -> Worker]
      /\ worker[w].pc # "idle" => k \in Jobs
      /\ NeverRetries
      /\ None \notin Jobs
  BY QueueAssumption DEF IInv, TypeOK, BusyHasJob, SoleInv
<1>2. worker[w].pc \notin {"idle", "play"} => /\ WorksOn(w, k)
                                              /\ OnTime(k)
  <2>1. worker[w].pc \notin {"idle", "play"} => WorksOn(w, k)
    BY DEF WorksOn
  <2> QED
    BY <1>1, <2>1 DEF OrderlyInv, HeldOnTime, Held
<1>3. Release(w) \/ Goto(w, "play") => /\ \A i \in Jobs : ~WorksOn(w, i)'
                                       /\ \A v \in Workers : v # w => worker'[v] = worker[v]
  BY <1>1 DEF Release, Goto, WorksOn, Idle, Worker
<1>4. CASE Take(w) \/ Verify(w) \/ EndPlayback(w) \/ Abandon(w)
  BY <1>4, LeftAlone DEF Take, Verify, EndPlayback, Abandon, store
<1>5. CASE Synthesize(w)
  BY <1>1, <1>5, OneRowWritten, LeftAlone
     DEF Synthesize, Advances, Reconcilable, Lost, OnTime, Digested
<1>6. CASE Publish(w)
  <2>1. OnTime(k) /\ k \in Jobs /\ UNCHANGED row /\ \A i \in Jobs : i # k => file'[i] = file[i]
    BY <1>1, <1>2, <1>6 DEF Publish, WriteArtifact, StoreTypeOK
  <2>2. CASE j = k
    BY <2>1, <2>2 DEF Advances, Reconcilable, Lost, OnTime, Digested
  <2> QED
    BY <2>1, <2>2, LeftAlone
<1>7. CASE Complete(w)
  <2>1. /\ OnTime(k) /\ k \in Jobs
        /\ row'[k].status = "DONE" /\ row'[k].digest = worker[w].out
        /\ \A i \in Jobs : i # k => row'[i] = row[i]
        /\ file' = file
    BY <1>1, <1>2, <1>7, OneRowWritten DEF Complete
  <2>2. worker[w].out # None /\ worker[w].out = file[k]
    BY <1>7 DEF Complete, OrderlyInv, RendersInHand
  <2>3. j = k => ~Held(j)'
    BY <1>1, <1>2, <1>3, <1>7, LetGo DEF Complete
  <2>4. CASE j = k
    BY <2>1, <2>2, <2>3, <2>4 DEF Advances, Reconcilable, Lost, OnTime, Digested
  <2> QED
    BY <2>1, <2>4, LeftAlone
<1>8. CASE Reject(w) \/ LoseOutcome(w)
  <2>1. /\ OnTime(k) /\ k \in Jobs
        /\ row'[k].status \in {"FAILED", "AMBIGUOUS"}
        /\ \A i \in Jobs : i # k => row'[i] = row[i]
        /\ file' = file
    BY <1>1, <1>2, <1>8, OneRowWritten DEF Reject, LoseOutcome
  <2>2. j = k => ~Held(j)'
    BY <1>1, <1>2, <1>3, <1>8, LetGo DEF Reject, LoseOutcome
  <2>3. CASE j = k
    BY <2>1, <2>2, <2>3 DEF Advances, Reconcilable, Lost, OnTime, Digested
  <2> QED
    BY <2>1, <2>3, LeftAlone
<1>9. ~ReadRetryCount(w) /\ ~IncrementRetry(w) /\ ~Reread(w) /\ ~Resubmit(w)
  BY <1>1 DEF ReadRetryCount, IncrementRetry, Reread, Resubmit, NoTransient, NeverRetries
<1> QED
  BY <1>4, <1>5, <1>6, <1>7, <1>8, <1>9 DEF WorkerStep

\* Every step advances every row: this is where a lease that runs out under its
\* holder would do harm.
LEMMA StepAdvances ==
  ASSUME NoTransient, Prompt, IInv, SoleInv, OrderlyInv, [Next]_vars, NEW j \in Jobs
  PROVE  Advances(j)
<1>1. /\ StoreTypeOK
      /\ poller \in Poller
      /\ operator \in [Operators -> Operator]
  BY DEF IInv, TypeOK
<1>2. CASE UNCHANGED store
  BY <1>2, LeftAlone DEF store
<1>3. ASSUME NEW i \in Jobs, Enqueue(i) PROVE Advances(j)
  <2>1. /\ row[i].status = "ABSENT" /\ row'[i].status = "PENDING"
        /\ \A k \in Jobs : k # i => row'[k] = row[k]
        /\ file' = file
    BY <1>1, <1>3, OneRowWritten DEF Enqueue
  <2>2. CASE j = i
    BY <2>1, <2>2 DEF Advances, Reconcilable, Lost, OnTime, Digested
  <2> QED
    BY <2>1, <2>2, LeftAlone
<1>4. ASSUME NEW i \in Jobs, LeaseExpires(i) PROVE Advances(j)
  <2>1. /\ row[i].status = "IN_PROGRESS" /\ row'[i].status = "IN_PROGRESS"
        /\ row[i].lease = "fresh"
        /\ \A k \in Jobs : k # i => row'[k] = row[k]
        /\ file' = file
    BY <1>1, <1>4, OneRowWritten DEF LeaseExpires, ExpireLease
  <2>2. ~Held(i)'
    BY <1>4 DEF LeaseExpires, Held, WorksOn
  <2>3. CASE j = i
    BY <2>1, <2>2, <2>3 DEF Advances, Reconcilable, Lost, OnTime, Digested
  <2> QED
    BY <2>1, <2>3, LeftAlone
<1>5. CASE PollRecover
  BY <1>1, <1>5, RecoveryAdvances DEF PollRecover, Poller, OrderlyInv, SelectedLost
<1>6. CASE PollClaim
  <2>1. PICK B \in SUBSET Claimable : Claim(B)
    BY <1>6 DEF PollClaim
  <2>2. B \in SUBSET Jobs /\ \A i \in B : row[i].status = "PENDING"
    BY DEF Claimable, InStatus
  <2>3. /\ j \in B => row'[j].status = "IN_PROGRESS"
        /\ j \notin B => row'[j] = row[j]
        /\ file' = file
    BY <1>1, <2>1, <2>2, RowsWritten
  <2>4. CASE j \in B
    BY <2>2, <2>3, <2>4 DEF Advances, Reconcilable, Lost, OnTime, Digested
  <2> QED
    BY <2>3, <2>4, LeftAlone
<1>7. ASSUME NEW i \in Jobs, PollRequeue(i) PROVE Advances(j)
  <2>1. /\ Polled(i)
        /\ ~Polled(i)'
    BY <1>1, <1>7, DispatchedDrops DEF PollRequeue
  <2>2. ~Held(i)' /\ OnTime(i)
    BY <1>7, <2>1
       DEF PollRequeue, SoleInv, OneHolder, Held, Polled, WorksOn, OrderlyInv, HeldOnTime
  <2>3. /\ row'[i].status = "PENDING"
        /\ \A k \in Jobs : k # i => row'[k] = row[k]
        /\ file' = file
    BY <1>1, <1>7, <2>2, OneRowWritten DEF PollRequeue, OnTime
  <2>4. CASE j = i
    BY <2>2, <2>3, <2>4 DEF Advances, Reconcilable, Lost, OnTime, Digested
  <2> QED
    BY <2>3, <2>4, LeftAlone
<1>8. ASSUME NEW o \in Operators, OperatorRecover(o) PROVE Advances(j)
  BY <1>1, <1>8, RecoveryAdvances DEF OperatorRecover, Operator, OrderlyInv, SelectedLost
<1>9. ASSUME NEW o \in Operators, NEW i \in Jobs, OperatorReconcile(o, i) PROVE Advances(j)
  <2>1. /\ row'[i].status = "DONE" /\ row'[i].digest = operator[o].out
        /\ \A k \in Jobs : k # i => row'[k] = row[k]
        /\ file' = file
    BY <1>1, <1>9, OneRowWritten DEF OperatorReconcile
  <2>2. Reconcilable(i) /\ operator[o].out = file[i] /\ file[i] # None
    BY <1>9 DEF OperatorReconcile, OrderlyInv, Reconciling
  <2>3. CASE j = i
    BY <2>1, <2>2, <2>3 DEF Advances, Reconcilable, Lost, OnTime, Digested
  <2> QED
    BY <2>1, <2>3, LeftAlone
<1>10. CASE PollStep
  <2>1. CASE PollScan \/ PollFull \/ \E i \in Jobs : PollPut(i)
    BY <1>2, <2>1 DEF PollScan, PollFull, PollPut
  <2> QED
    BY <1>5, <1>6, <1>7, <1>10, <2>1 DEF PollStep
<1>11. ASSUME NEW o \in Operators, OperatorStep(o) PROVE Advances(j)
  <2>1. CASE OperatorScan(o) \/ \E i \in Jobs : OperatorInspect(o, i) \/ OperatorVerify(o, i)
    BY <1>2, <2>1 DEF OperatorScan, OperatorInspect, OperatorVerify
  <2> QED
    BY <1>8, <1>9, <1>11, <2>1 DEF OperatorStep
<1>12. CASE PollAbort \/ Crash \/ UNCHANGED vars
  BY <1>2, <1>12 DEF PollAbort, Crash, vars
<1> QED
  BY <1>3, <1>4, <1>10, <1>11, <1>12, WorkerAdvances DEF Next

\* A job that is held and was not is one the poll thread has just claimed.
LEMMA NewHolder ==
  ASSUME NoTransient, IInv, NeverRetries, [Next]_vars, NEW j \in Jobs, Held(j)', ~Held(j)
  PROVE  OnTime(j)'
<1>1. StoreTypeOK
  BY DEF IInv, TypeOK
<1>2. ASSUME UNCHANGED <<queue, worker>>, Polled(j)' => Polled(j) PROVE FALSE
  BY <1>2 DEF Held, Polled, WorksOn
<1>3. ASSUME NEW i \in Jobs, Enqueue(i) \/ LeaseExpires(i) PROVE FALSE
  BY <1>2, <1>3 DEF Enqueue, LeaseExpires, Polled
<1>4. ASSUME NEW o \in Operators, OperatorStep(o) PROVE FALSE
  BY <1>2, <1>4 DEF OperatorStep, OperatorScan, OperatorRecover, OperatorInspect,
                    OperatorVerify, OperatorReconcile, Polled
<1>5. CASE PollClaim
  <2>1. PICK B \in SUBSET Claimable :
          /\ Claim(B)
          /\ poller' = IF B = {} THEN Scanning ELSE [pc |-> "put", jobs |-> B]
    BY <1>5 DEF PollClaim
  <2>2. B \in SUBSET Jobs
    BY DEF Claimable, InStatus
  <2>3. j \in B
    BY <1>2, <1>5, <2>1 DEF PollClaim, Polled, Scanning
  <2>4. row'[j].status = "IN_PROGRESS" /\ row'[j].lease = "fresh"
    BY <1>1, <2>1, <2>2, <2>3, RowsWritten
  <2> QED
    BY <2>4 DEF OnTime
<1>6. ASSUME NEW i \in Jobs, PollPut(i) PROVE FALSE
  BY <1>6, PutWasHeld
<1>7. ASSUME NEW i \in Jobs, PollRequeue(i) PROVE FALSE
  BY <1>2, <1>7, DispatchedDrops DEF PollRequeue, IInv, TypeOK
<1>8. CASE PollScan \/ PollRecover \/ PollFull \/ PollAbort
  BY <1>2, <1>8
     DEF PollScan, PollRecover, PollFull, PollAbort, IInv, TypeOK, Poller, Scanning, Polled
<1>9. ASSUME NEW w \in Workers, WorkerStep(w) \/ Abandon(w) PROVE FALSE
  <2>1. CASE Take(w)
    BY <2>1, TakenWasHeld
  <2>2. CASE ~Take(w)
    <3>1. /\ UNCHANGED <<queue, poller>>
          /\ \A v \in Workers, i \in Jobs : WorksOn(v, i)' => WorksOn(v, i)
      BY <1>9, <2>2, WorkerGoesOn
    <3> QED
      BY <3>1 DEF Held
  <2> QED
    BY <2>1, <2>2
<1>10. CASE UNCHANGED vars
  BY <1>2, <1>10 DEF vars, Polled
<1>11. ~Crash
  <2> SUFFICES ASSUME Crash PROVE FALSE
    OBVIOUS
  <2>1. queue' = <<>> /\ worker' = [w \in Workers |-> Idle] /\ poller' = Scanning
    BY DEF Crash
  <2> QED
    BY <2>1, QueueAssumption DEF Held, WorksOn, Idle, Scanning
<1> QED
  BY <1>3, <1>4, <1>5, <1>6, <1>7, <1>8, <1>9, <1>10, <1>11 DEF Next, PollStep

\* What is selected for recovery is selected from the rows as they are.
LEMMA Selections ==
  ASSUME [Next]_vars, poller \in Poller, operator \in [Operators -> Operator]
  PROVE  /\ poller'.pc = "recover" =>
              poller' = poller \/ (poller'.jobs = Stale /\ UNCHANGED row)
         /\ \A o \in Operators :
              \/ operator'[o] = operator[o]
              \/ operator'[o] = Away
              \/ operator'[o].pc = "recover" /\ operator'[o].jobs = Stale /\ UNCHANGED row
              \/ \E j \in Jobs : /\ operator'[o].pc = "verify" /\ operator'[o].jobs = {j}
                                 /\ row[j].status = "AMBIGUOUS" /\ UNCHANGED row
              \/ \E j \in Jobs : /\ operator[o].pc = "verify" /\ operator[o].jobs = {j}
                                 /\ operator'[o].pc = "reconcile" /\ operator'[o].jobs = {j}
                                 /\ operator'[o].out = file[j] /\ file[j] # None
                                 /\ UNCHANGED <<row, file>>
<1> DEFINE Polling == poller'.pc = "recover" =>
                        poller' = poller \/ (poller'.jobs = Stale /\ UNCHANGED row)
<1>1. CASE UNCHANGED operator
  <2>1. CASE UNCHANGED poller
    BY <1>1, <2>1
  <2>2. ASSUME PollScan \/ PollRecover \/ PollClaim \/ PollFull \/ PollAbort PROVE Polling
    BY <2>2 DEF PollScan, PollRecover, PollClaim, PollFull, PollAbort, Poller, Scanning, store
  <2>3. ASSUME NEW j \in Jobs, PollPut(j) \/ PollRequeue(j) PROVE Polling
    BY <2>3 DEF PollPut, PollRequeue, Dispatched, Scanning
  <2>4. ASSUME Crash PROVE Polling
    BY <2>4 DEF Crash, Scanning
  <2>5. ASSUME NEW j \in Jobs, Enqueue(j) \/ LeaseExpires(j) PROVE UNCHANGED poller
    BY <2>5 DEF Enqueue, LeaseExpires
  <2>6. ASSUME NEW w \in Workers, WorkerStep(w) \/ Abandon(w) PROVE UNCHANGED poller
    BY <2>6 DEF WorkerStep, Abandon, Take, Synthesize, Publish, Verify, Complete, EndPlayback,
                Reject, LoseOutcome, ReadRetryCount, IncrementRetry, Reread, Resubmit
  <2>7. ASSUME NEW o \in Operators, OperatorStep(o) PROVE UNCHANGED poller
    BY <2>7 DEF OperatorStep, OperatorScan, OperatorRecover, OperatorInspect, OperatorVerify,
                OperatorReconcile
  <2> QED
    BY <1>1, <2>1, <2>2, <2>3, <2>4, <2>5, <2>6, <2>7 DEF Next, PollStep, vars
<1>2. CASE ~UNCHANGED operator
  <2>1. PICK o \in Operators : OperatorStep(o)
    <3>1. ASSUME NEW j \in Jobs, Enqueue(j) \/ LeaseExpires(j) PROVE FALSE
      BY <1>2, <3>1 DEF Enqueue, LeaseExpires
    <3>2. ASSUME PollStep \/ PollAbort \/ Crash \/ UNCHANGED vars PROVE FALSE
      BY <1>2, <3>2 DEF PollStep, PollScan, PollRecover, PollClaim, PollFull, PollPut,
                        PollRequeue, PollAbort, Crash, vars
    <3>3. ASSUME NEW w \in Workers, WorkerStep(w) \/ Abandon(w) PROVE FALSE
      BY <1>2, <3>3 DEF WorkerStep, Abandon, Take, Synthesize, Publish, Verify, Complete,
                        EndPlayback, Reject, LoseOutcome, ReadRetryCount, IncrementRetry,
                        Reread, Resubmit
    <3> QED
      BY <3>1, <3>2, <3>3 DEF Next
  <2>2. UNCHANGED poller
    BY <2>1 DEF OperatorStep, OperatorScan, OperatorRecover, OperatorInspect, OperatorVerify,
                OperatorReconcile
  <2>3. ASSUME NEW r, operator' = [operator EXCEPT ![o] = r]
        PROVE  operator'[o] = r /\ \A q \in Operators : q # o => operator'[q] = operator[q]
    BY <2>3
  <2>4. CASE OperatorScan(o)
    <3> DEFINE r == [Away EXCEPT !.pc = "recover", !.jobs = Stale]
    <3>1. operator' = [operator EXCEPT ![o] = r] /\ UNCHANGED row
      BY <2>4 DEF OperatorScan, store
    <3>2. r.pc = "recover" /\ r.jobs = Stale
      BY DEF Away
    <3> HIDE DEF r
    <3> QED
      BY <2>2, <2>3, <3>1, <3>2
  <2>5. CASE operator' = [operator EXCEPT ![o] = Away]
    BY <2>2, <2>3, <2>5
  <2>6. ASSUME NEW j \in Jobs, OperatorInspect(o, j)
        PROVE  /\ operator'[o].pc = "verify" /\ operator'[o].jobs = {j}
               /\ row[j].status = "AMBIGUOUS" /\ UNCHANGED row
               /\ \A q \in Operators : q # o => operator'[q] = operator[q]
    <3> DEFINE r == [Away EXCEPT !.pc = "verify", !.jobs = {j}]
    <3>1. operator' = [operator EXCEPT ![o] = r] /\ UNCHANGED row /\ row[j].status = "AMBIGUOUS"
      BY <2>6 DEF OperatorInspect, store
    <3>2. r.pc = "verify" /\ r.jobs = {j}
      BY DEF Away
    <3> HIDE DEF r
    <3> QED
      BY <2>3, <3>1, <3>2
  <2>7. ASSUME NEW j \in Jobs, OperatorVerify(o, j)
        PROVE  \/ operator' = [operator EXCEPT ![o] = Away]
               \/ /\ operator[o].pc = "verify" /\ operator[o].jobs = {j}
                  /\ operator'[o].pc = "reconcile" /\ operator'[o].jobs = {j}
                  /\ operator'[o].out = file[j] /\ file[j] # None
                  /\ UNCHANGED <<row, file>>
                  /\ \A q \in Operators : q # o => operator'[q] = operator[q]
    <3> SUFFICES ASSUME ~(operator' = [operator EXCEPT ![o] = Away])
                 PROVE  /\ operator'[o].pc = "reconcile" /\ operator'[o].jobs = {j}
                        /\ operator'[o].out = file[j] /\ file[j] # None
                        /\ \A q \in Operators : q # o => operator'[q] = operator[q]
      BY <2>7 DEF OperatorVerify, store
    <3> DEFINE r == [operator[o] EXCEPT !.pc = "reconcile", !.out = file[j]]
    <3>1. operator' = [operator EXCEPT ![o] = r] /\ file[j] # None /\ operator[o].jobs = {j}
      BY <2>7 DEF OperatorVerify
    <3>2. r.pc = "reconcile" /\ r.jobs = {j} /\ r.out = file[j]
      BY <3>1 DEF Operator
    <3> HIDE DEF r
    <3> QED
      BY <2>3, <3>1, <3>2
  <2>8. ASSUME NEW j \in Jobs, OperatorReconcile(o, j)
        PROVE  operator' = [operator EXCEPT ![o] = Away]
    BY <2>8 DEF OperatorReconcile
  <2>9. OperatorRecover(o) => operator' = [operator EXCEPT ![o] = Away]
    BY DEF OperatorRecover
  <2>10. ASSUME NEW j \in Jobs, OperatorInspect(o, j) \/ OperatorVerify(o, j)
         PROVE  \/ operator' = [operator EXCEPT ![o] = Away]
                \/ \A q \in Operators :
                     \/ operator'[q] = operator[q]
                     \/ /\ operator'[q].pc = "verify" /\ operator'[q].jobs = {j}
                        /\ row[j].status = "AMBIGUOUS" /\ UNCHANGED row
                     \/ /\ operator[q].pc = "verify" /\ operator[q].jobs = {j}
                        /\ operator'[q].pc = "reconcile" /\ operator'[q].jobs = {j}
                        /\ operator'[q].out = file[j] /\ file[j] # None
                        /\ UNCHANGED <<row, file>>
    BY <2>6, <2>7, <2>10
  <2> QED
    BY <2>1, <2>2, <2>4, <2>5, <2>8, <2>9, <2>10 DEF OperatorStep
<1> QED
  BY <1>1, <1>2

\* The render a thread holds is the one it published: no other thread writes the
\* same artifact meanwhile.
LEMMA RendersStep ==
  ASSUME NoTransient, IInv, SoleInv, RendersInHand, [Next]_vars
  PROVE  RendersInHand'
<1>1. /\ worker \in [Workers -> Worker]
      /\ file \in [Jobs -> Renders \cup {None}]
      /\ \A w \in Workers : worker[w].pc # "idle" => worker[w].job \in Jobs
      /\ StoreTypeOK
  BY DEF IInv, TypeOK, StoreTypeOK, BusyHasJob
<1>2. CASE UNCHANGED <<worker, file>>
  BY <1>2 DEF RendersInHand
<1>3. ASSUME NEW j \in Jobs, Enqueue(j) \/ LeaseExpires(j) PROVE UNCHANGED <<worker, file>>
  BY <1>3 DEF Enqueue, LeaseExpires, Insert, ExpireLease
<1>4. ASSUME PollStep \/ PollAbort PROVE UNCHANGED <<worker, file>>
  BY <1>4 DEF PollStep, PollScan, PollRecover, PollClaim, PollFull, PollPut, PollRequeue,
              PollAbort, RecoverStale, Claim, RequeueAfterLocalFailure, store
<1>5. ASSUME NEW o \in Operators, OperatorStep(o) PROVE UNCHANGED <<worker, file>>
  BY <1>5 DEF OperatorStep, OperatorScan, OperatorRecover, OperatorInspect, OperatorVerify,
              OperatorReconcile, RecoverStale, MarkDone, store
<1>6. CASE Crash
  BY <1>6 DEF Crash, RendersInHand, Idle
<1>7. ASSUME NEW w \in Workers, UNCHANGED file, NEW r, worker' = [worker EXCEPT ![w] = r],
             r.pc \in {"publish", "verify", "commit"} => r.out # None,
             r.pc = "commit" => r.out = file[r.job]
      PROVE  RendersInHand'
  <2>1. worker'[w] = r /\ \A v \in Workers : v # w => worker'[v] = worker[v]
    BY <1>1, <1>7
  <2> QED
    BY <1>7, <2>1 DEF RendersInHand
<1>8. ASSUME NEW w \in Workers, UNCHANGED file, Release(w) PROVE RendersInHand'
  BY <1>7, <1>8 DEF Release, Idle
<1>9. ASSUME NEW w \in Workers, WorkerStep(w) \/ Abandon(w) PROVE RendersInHand'
  <2> DEFINE me == worker[w]
  <2>1. me \in Worker
    BY <1>1
  <2>2. CASE Take(w)
    <3> DEFINE r == [Idle EXCEPT !.pc = "call", !.job = Head(queue)]
    <3>1. r.pc = "call"
      BY DEF Idle
    <3>2. worker' = [worker EXCEPT ![w] = r] /\ UNCHANGED file
      BY <2>2 DEF Take, store
    <3> HIDE DEF r
    <3> QED
      BY <1>7, <3>1, <3>2
  <2>3. CASE Synthesize(w)
    <3>1. PICK bytes \in Renders :
            worker' = [worker EXCEPT ![w].pc = "publish", ![w].out = bytes]
      BY <2>3 DEF Synthesize
    <3> DEFINE r == [me EXCEPT !.pc = "publish", !.out = bytes]
    <3>2. worker' = [worker EXCEPT ![w] = r] /\ UNCHANGED file
      BY <1>1, <2>3, <3>1 DEF Synthesize, MarkWriting
    <3>3. r.pc = "publish" /\ r.out = bytes /\ bytes # None
      BY <2>1, StoreAssumption DEF Worker
    <3> HIDE DEF r
    <3> QED
      BY <1>7, <3>2, <3>3
  <2>4. CASE Publish(w)
    <3> DEFINE r == [me EXCEPT !.pc = "verify"]
    <3>1. /\ worker' = [worker EXCEPT ![w] = r]
          /\ file' = [file EXCEPT ![me.job] = me.out]
          /\ me.pc = "publish"
      BY <1>1, <2>4 DEF Publish, Goto, WriteArtifact
    <3>2. r.pc = "verify" /\ r.out = me.out
      BY <2>1 DEF Worker
    <3> HIDE DEF r
    <3>3. worker'[w] = r /\ \A v \in Workers : v # w => worker'[v] = worker[v]
      BY <1>1, <3>1
    <3>4. me.out # None
      BY <3>1 DEF RendersInHand
    <3>5. ASSUME NEW v \in Workers, v # w, worker[v].pc = "commit"
          PROVE  file'[worker[v].job] = file[worker[v].job]
      <4>1. me.job \in Jobs /\ WorksOn(w, me.job)
        BY <1>1, <3>1 DEF WorksOn
      <4>2. worker[v].job # me.job
        BY <3>5, <4>1 DEF WorksOn, SoleInv, OneHolder
      <4> QED
        BY <1>1, <3>1, <3>5, <4>2
    <3> QED
      BY <3>2, <3>3, <3>4, <3>5 DEF RendersInHand
  <2>5. CASE Verify(w)
    <3> DEFINE r == [me EXCEPT !.pc = "commit"]
    <3>1. CASE ArtifactMatches(me.job, me.out)
      <4>1. worker' = [worker EXCEPT ![w] = r] /\ UNCHANGED file /\ me.pc = "verify"
        BY <1>1, <2>5, <3>1 DEF Verify, Goto, store
      <4>2. r.pc = "commit" /\ r.out = me.out /\ r.job = me.job
        BY <2>1 DEF Worker
      <4> HIDE DEF r
      <4> QED
        BY <1>7, <3>1, <4>1, <4>2 DEF ArtifactMatches, RendersInHand
    <3> QED
      BY <1>8, <2>5, <3>1 DEF Verify, store
  <2>6. CASE Complete(w)
    <3> DEFINE r == [me EXCEPT !.pc = "play"]
    <3>1. UNCHANGED file
      BY <2>6 DEF Complete, MarkDone
    <3>2. CASE Goto(w, "play")
      <4>1. worker' = [worker EXCEPT ![w] = r]
        BY <1>1, <3>2 DEF Goto
      <4>2. r.pc = "play"
        BY <2>1 DEF Worker
      <4> HIDE DEF r
      <4> QED
        BY <1>7, <3>1, <4>1, <4>2
    <3> QED
      BY <1>8, <2>6, <3>1, <3>2 DEF Complete
  <2>7. CASE EndPlayback(w) \/ Reject(w) \/ LoseOutcome(w) \/ Abandon(w)
    BY <1>8, <2>7 DEF EndPlayback, Reject, LoseOutcome, Abandon, MarkFailed, MarkAmbiguous, store
  <2>8. ~ReadRetryCount(w) /\ ~IncrementRetry(w) /\ ~Reread(w) /\ ~Resubmit(w)
    BY DEF ReadRetryCount, IncrementRetry, Reread, Resubmit, NoTransient, NeverRetries, SoleInv
  <2> QED
    BY <1>9, <2>2, <2>3, <2>4, <2>5, <2>6, <2>7, <2>8 DEF WorkerStep
<1>10. CASE UNCHANGED vars
  BY <1>2, <1>10 DEF vars, store
<1> QED
  BY <1>2, <1>3, <1>4, <1>5, <1>6, <1>9, <1>10 DEF Next

\* The invariant of the orderly regime is inductive.
LEMMA OrderlyStep ==
  ASSUME NoTransient, Prompt, IInv, SoleInv, OrderlyInv, [Next]_vars
  PROVE  OrderlyInv'
<1>1. \A j \in Jobs : Advances(j)
  BY StepAdvances
<1>2. /\ poller \in Poller
      /\ operator \in [Operators -> Operator]
  BY DEF IInv, TypeOK
<1>3. HeldOnTime'
  <2> SUFFICES ASSUME NEW j \in Jobs, Held(j)' PROVE OnTime(j)'
    BY DEF HeldOnTime
  <2>1. CASE Held(j)
    BY <1>1, <2>1 DEF OrderlyInv, HeldOnTime, Advances
  <2> QED
    BY <2>1, NewHolder DEF SoleInv
<1>4. Stale \subseteq Jobs /\ (UNCHANGED row => \A j \in Stale : Lost(j)')
  BY DEF Stale, InStatus, Lost
<1>5. \A j \in Jobs : Lost(j) => Lost(j)'
  BY <1>1 DEF Advances
<1>6. /\ poller.jobs \subseteq Jobs
      /\ \A o \in Operators : operator[o].jobs \subseteq Jobs
  BY <1>2 DEF Poller, Operator
<1>7. /\ poller'.pc = "recover" =>
           poller' = poller \/ (poller'.jobs = Stale /\ UNCHANGED row)
      /\ \A o \in Operators :
           \/ operator'[o] = operator[o]
           \/ operator'[o] = Away
           \/ operator'[o].pc = "recover" /\ operator'[o].jobs = Stale /\ UNCHANGED row
           \/ \E j \in Jobs : /\ operator'[o].pc = "verify" /\ operator'[o].jobs = {j}
                              /\ row[j].status = "AMBIGUOUS" /\ UNCHANGED row
           \/ \E j \in Jobs : /\ operator[o].pc = "verify" /\ operator[o].jobs = {j}
                              /\ operator'[o].pc = "reconcile" /\ operator'[o].jobs = {j}
                              /\ operator'[o].out = file[j] /\ file[j] # None
                              /\ UNCHANGED <<row, file>>
  BY <1>2, Selections
<1>8. SelectedLost'
  <2>1. ASSUME poller'.pc = "recover", NEW j \in poller'.jobs PROVE Lost(j)'
    BY <1>4, <1>5, <1>6, <1>7, <2>1 DEF OrderlyInv, SelectedLost
  <2>2. ASSUME NEW o \in Operators, operator'[o].pc = "recover", NEW j \in operator'[o].jobs
        PROVE  Lost(j)'
    BY <1>4, <1>5, <1>6, <1>7, <2>2 DEF OrderlyInv, SelectedLost, Away
  <2> QED
    BY <2>1, <2>2 DEF SelectedLost
<1>9. Reconciling'
  <2> SUFFICES ASSUME NEW o \in Operators, NEW k \in operator'[o].jobs
               PROVE  /\ operator'[o].pc \in {"verify", "reconcile"} => Reconcilable(k)'
                      /\ operator'[o].pc = "reconcile" =>
                           operator'[o].out = file'[k] /\ file'[k] # None
    BY DEF Reconciling
  <2>1. \A j \in Jobs : Reconcilable(j) => Reconcilable(j)' /\ file'[j] = file[j]
    BY <1>1 DEF Advances
  <2>2. CASE operator'[o] = operator[o]
    BY <1>6, <2>1, <2>2 DEF OrderlyInv, Reconciling
  <2>3. CASE operator'[o] = Away
    BY <2>3 DEF Away
  <2>4. CASE operator'[o].pc = "recover"
    BY <2>4
  <2>5. ASSUME NEW j \in Jobs, operator'[o].pc = "verify", operator'[o].jobs = {j},
               row[j].status = "AMBIGUOUS", UNCHANGED row
        PROVE  operator'[o].pc = "verify" /\ Reconcilable(k)'
    BY <2>5 DEF Reconcilable
  <2>6. ASSUME NEW j \in Jobs, operator[o].pc = "verify", operator[o].jobs = {j},
               operator'[o].pc = "reconcile", operator'[o].jobs = {j},
               operator'[o].out = file[j], file[j] # None, UNCHANGED <<row, file>>
        PROVE  Reconcilable(k)' /\ operator'[o].out = file'[k] /\ file'[k] # None
    <3>1. k = j /\ Reconcilable(j)
      BY <2>6 DEF OrderlyInv, Reconciling
    <3> QED
      BY <2>6, <3>1 DEF Reconcilable
  <2> QED
    BY <1>7, <2>2, <2>3, <2>4, <2>5, <2>6
<1>10. RendersInHand'
  BY RendersStep DEF OrderlyInv
<1>11. \A j \in Jobs : Digested(j)'
  BY <1>1 DEF OrderlyInv, Advances
<1> QED
  BY <1>3, <1>8, <1>9, <1>10, <1>11 DEF OrderlyInv

\* At first nothing is held, selected or done.
LEMMA OrderlyInit == Init => OrderlyInv
<1> SUFFICES ASSUME Init PROVE OrderlyInv
  OBVIOUS
<1>1. \A j \in Jobs : row[j] = NoRow
  BY DEF Init, StoreInit
<1>2. HeldOnTime
  BY <1>1, SoleInit DEF SoleInv, UnclaimedFree, Unclaimed, NoRow, HeldOnTime
<1>3. SelectedLost /\ Reconciling
  BY DEF Init, Scanning, Away, SelectedLost, Reconciling
<1>4. RendersInHand
  BY DEF Init, Idle, RendersInHand
<1>5. \A j \in Jobs : Digested(j)
  BY <1>1 DEF NoRow, Digested
<1> QED
  BY <1>2, <1>3, <1>4, <1>5 DEF OrderlyInv

\* The three invariants of the orderly regime together.
LEMMA OrderlyHolds ==
  ASSUME NoTransient, Prompt
  PROVE  Spec => [](IInv /\ SoleInv /\ OrderlyInv)
<1>1. Init => IInv /\ SoleInv /\ OrderlyInv
  BY InitEstablishes, SoleInit, OrderlyInit
<1>2. IInv /\ SoleInv /\ OrderlyInv /\ [Next]_vars => (IInv /\ SoleInv /\ OrderlyInv)'
  BY StepKeeps, SoleStep, OrderlyStep
<1> QED
  BY <1>1, <1>2, PTL DEF Spec

\* Without transient errors, and as long as leases outlive their holders, whoever
\* holds a job owns the claim: the row is IN_PROGRESS, so its open attempt is the
\* one this provider call stands for.
THEOREM HoldersOwnTheirClaim ==
  ASSUME NoTransient, Prompt
  PROVE  Spec => []HolderOwnsClaim
<1>1. OrderlyInv => HolderOwnsClaim
  BY DEF OrderlyInv, HeldOnTime, OnTime, HolderOwnsClaim
<1> QED
  BY <1>1, OrderlyHolds, PTL

\* Under the same conditions the artifact of a DONE job has the digest its row
\* persists in every state, not only when mark_done looked.
THEOREM DoneMeansPublished ==
  ASSUME NoTransient, Prompt
  PROVE  Spec => []DigestMatchesArtifact
<1>1. OrderlyInv => DigestMatchesArtifact
  BY DEF OrderlyInv, Digested, DigestMatchesArtifact
<1> QED
  BY <1>1, OrderlyHolds, PTL

-----------------------------------------------------------------------------
(* Under the same conditions the queue implements the lifecycle of         *)
(* TtsJobLifecycle.                                                        *)

\* A step that changes no status, and the artifact of no DONE row, is not seen.
LEMMA Unseen ==
  ASSUME \A j \in Jobs : row'[j].status = row[j].status,
         \A j \in Jobs : row[j].status = "DONE" => file'[j] = file[j]
  PROVE  UNCHANGED Lifecycle!vars
BY DEF Lifecycle!vars

\* A step that moves the rows S, none of them DONE, to another status than DONE.
LEMMA RowsMoved ==
  ASSUME NEW S \in SUBSET Jobs, NEW s, s # "DONE",
         \A j \in S : row[j].status # "DONE" /\ row'[j].status = s,
         \A j \in Jobs : j \notin S => row'[j] = row[j],
         UNCHANGED file
  PROVE  /\ (\A j \in S : row[j].status = "PENDING") /\ s = "IN_PROGRESS" => Lifecycle!Claim(S)
         /\ (\A j \in S : row[j].status = "IN_PROGRESS") /\ s = "AMBIGUOUS" =>
              Lifecycle!LoseTrack(S)
         /\ \A j \in Jobs : S = {j} =>
              /\ row[j].status = "ABSENT" /\ s = "PENDING" => Lifecycle!Submit(j)
              /\ row[j].status = "IN_PROGRESS" /\ s = "PENDING" => Lifecycle!GiveBack(j)
              /\ row[j].status = "IN_PROGRESS" /\ s = "FAILED" => Lifecycle!Fail(j)
<1> DEFINE st == [j \in Jobs |-> row[j].status]
           au == [j \in Jobs |-> IF row[j].status = "DONE" THEN file[j] ELSE None]
<1>1. st' = [j \in Jobs |-> IF j \in S THEN s ELSE st[j]]
  OBVIOUS
<1>2. au' = au
  OBVIOUS
<1>3. \A j \in Jobs : st[j] = row[j].status
  OBVIOUS
<1>4. (\A j \in S : row[j].status = "PENDING") /\ s = "IN_PROGRESS" => Lifecycle!Claim(S)
  BY <1>1, <1>2 DEF Lifecycle!Claim, Lifecycle!Become
<1>5. (\A j \in S : row[j].status = "IN_PROGRESS") /\ s = "AMBIGUOUS" => Lifecycle!LoseTrack(S)
  BY <1>1, <1>2 DEF Lifecycle!LoseTrack, Lifecycle!Become
<1>6. ASSUME NEW j \in Jobs, S = {j}, row[j].status = "ABSENT", s = "PENDING"
      PROVE  Lifecycle!Submit(j)
  BY <1>1, <1>2, <1>6 DEF Lifecycle!Submit, Lifecycle!Become
<1>7. ASSUME NEW j \in Jobs, S = {j}, row[j].status = "IN_PROGRESS", s = "PENDING"
      PROVE  Lifecycle!GiveBack(j)
  BY <1>1, <1>2, <1>7 DEF Lifecycle!GiveBack, Lifecycle!Become
<1>8. ASSUME NEW j \in Jobs, S = {j}, row[j].status = "IN_PROGRESS", s = "FAILED"
      PROVE  Lifecycle!Fail(j)
  BY <1>1, <1>2, <1>8 DEF Lifecycle!Fail, Lifecycle!Become
<1> QED
  BY <1>4, <1>5, <1>6, <1>7, <1>8

\* A step that completes row j with the artifact that is published.
LEMMA RowFinished ==
  ASSUME NEW j \in Jobs, row[j].status \in {"IN_PROGRESS", "AMBIGUOUS"}, file[j] \in Renders,
         row'[j].status = "DONE", \A i \in Jobs : i # j => row'[i] = row[i], UNCHANGED file
  PROVE  Lifecycle!Finish(j)
<1> DEFINE st == [i \in Jobs |-> row[i].status]
           au == [i \in Jobs |-> IF row[i].status = "DONE" THEN file[i] ELSE None]
<1>1. st' = [i \in Jobs |-> IF i \in {j} THEN "DONE" ELSE st[i]]
  OBVIOUS
<1>2. au' = [au EXCEPT ![j] = file[j]]
  OBVIOUS
<1> QED
  BY <1>1, <1>2 DEF Lifecycle!Finish, Lifecycle!Become

\* Each step of a worker thread is a step of the lifecycle or is not seen.
LEMMA WorkerRefines ==
  ASSUME NoTransient, IInv, SoleInv, OrderlyInv, NEW w \in Workers, WorkerStep(w) \/ Abandon(w)
  PROVE  [Lifecycle!Next]_(Lifecycle!vars)
<1> DEFINE k == worker[w].job
<1>1. /\ StoreTypeOK
      /\ worker[w] \in Worker
      /\ worker[w].pc # "idle" => k \in Jobs
      /\ NeverRetries
      /\ file \in [Jobs -> Renders \cup {None}]
  BY DEF IInv, TypeOK, StoreTypeOK, BusyHasJob, SoleInv
<1>2. worker[w].pc \notin {"idle", "play"} => row[k].status = "IN_PROGRESS"
  BY <1>1 DEF OrderlyInv, HeldOnTime, Held, WorksOn, OnTime
<1>3. CASE Take(w) \/ Verify(w) \/ EndPlayback(w) \/ Abandon(w)
  BY <1>3, Unseen DEF Take, Verify, EndPlayback, Abandon, store
<1>4. CASE Synthesize(w)
  BY <1>1, <1>4, OneRowWritten, Unseen DEF Synthesize
<1>5. CASE Publish(w)
  <2>1. UNCHANGED row /\ row[k].status = "IN_PROGRESS"
        /\ \A i \in Jobs : i # k => file'[i] = file[i]
    BY <1>1, <1>2, <1>5 DEF Publish, WriteArtifact
  <2> QED
    BY <2>1, Unseen
<1>6. CASE Complete(w)
  <2>0. PICK j \in Jobs : j = k
    BY <1>1, <1>6 DEF Complete
  <2>1. /\ row[j].status = "IN_PROGRESS" /\ row'[j].status = "DONE"
        /\ \A i \in Jobs : i # j => row'[i] = row[i]
        /\ file' = file
    BY <1>1, <1>2, <1>6, <2>0, OneRowWritten DEF Complete
  <2>2. file[j] \in Renders
    BY <1>1, <1>6, <2>0, <2>1 DEF Complete, OrderlyInv, RendersInHand
  <2>3. Lifecycle!Finish(j)
    BY <2>1, <2>2, RowFinished
  <2> QED
    BY <2>1, <2>3 DEF Lifecycle!Next
<1>7. CASE Reject(w)
  <2>0. PICK j \in Jobs : j = k
    BY <1>1, <1>7 DEF Reject
  <2>1. /\ row[j].status = "IN_PROGRESS" /\ row'[j].status = "FAILED"
        /\ \A i \in Jobs : i # j => row'[i] = row[i]
        /\ file' = file
    BY <1>1, <1>2, <1>7, <2>0, OneRowWritten DEF Reject
  <2>2. Lifecycle!Fail(j)
    BY <2>1, RowsMoved
  <2> QED
    BY <2>1, <2>2 DEF Lifecycle!Next
<1>8. CASE LoseOutcome(w)
  <2>0. PICK j \in Jobs : j = k
    BY <1>1, <1>8 DEF LoseOutcome
  <2>1. /\ row[j].status = "IN_PROGRESS" /\ row'[j].status = "AMBIGUOUS"
        /\ \A i \in Jobs : i # j => row'[i] = row[i]
        /\ file' = file
    BY <1>1, <1>2, <1>8, <2>0, OneRowWritten DEF LoseOutcome
  <2>2. Lifecycle!LoseTrack({j})
    BY <2>1, RowsMoved
  <2> QED
    BY <2>1, <2>2 DEF Lifecycle!Next
<1>9. ~ReadRetryCount(w) /\ ~IncrementRetry(w) /\ ~Reread(w) /\ ~Resubmit(w)
  BY <1>1 DEF ReadRetryCount, IncrementRetry, Reread, Resubmit, NoTransient, NeverRetries
<1> QED
  BY <1>3, <1>4, <1>5, <1>6, <1>7, <1>8, <1>9 DEF WorkerStep

\* So is each step of the system.
LEMMA StepRefines ==
  ASSUME NoTransient, IInv, SoleInv, OrderlyInv, [Next]_vars
  PROVE  [Lifecycle!Next]_(Lifecycle!vars)
<1>1. /\ StoreTypeOK
      /\ poller \in Poller
      /\ operator \in [Operators -> Operator]
      /\ file \in [Jobs -> Renders \cup {None}]
  BY DEF IInv, TypeOK, StoreTypeOK
<1>2. ASSUME UNCHANGED store PROVE UNCHANGED Lifecycle!vars
  BY <1>2, Unseen DEF store
<1>3. ASSUME NEW j \in Jobs, Enqueue(j) PROVE Lifecycle!Next
  <2>1. /\ row[j].status = "ABSENT" /\ row'[j].status = "PENDING"
        /\ \A i \in Jobs : i # j => row'[i] = row[i]
        /\ file' = file
    BY <1>1, <1>3, OneRowWritten DEF Enqueue
  <2>2. Lifecycle!Submit(j)
    BY <2>1, RowsMoved
  <2> QED
    BY <2>2 DEF Lifecycle!Next
<1>4. ASSUME NEW j \in Jobs, LeaseExpires(j) PROVE UNCHANGED Lifecycle!vars
  <2>1. /\ row[j].status = "IN_PROGRESS" /\ row'[j].status = "IN_PROGRESS"
        /\ \A i \in Jobs : i # j => row'[i] = row[i]
        /\ file' = file
    BY <1>1, <1>4, OneRowWritten DEF LeaseExpires
  <2>2. \A i \in Jobs : row'[i].status = row[i].status
    BY <2>1
  <2> QED
    BY <2>1, <2>2, Unseen
<1>5. ASSUME NEW S \in SUBSET Jobs, RecoverStale(S) PROVE Lifecycle!Next
  <2>0. PICK T \in SUBSET Jobs : T = {j \in S : row[j].status = "IN_PROGRESS"}
    OBVIOUS
  <2>1. /\ \A j \in T : row[j].status = "IN_PROGRESS" /\ row'[j].status = "AMBIGUOUS"
        /\ \A j \in Jobs : j \notin T => row'[j] = row[j]
    BY <1>1, <1>5, <2>0, RowsWritten
  <2>2. file' = file
    BY <1>5 DEF RecoverStale
  <2>3. Lifecycle!LoseTrack(T)
    BY <2>1, <2>2, RowsMoved
  <2> QED
    BY <2>2, <2>3 DEF Lifecycle!Next
<1>6. ASSUME PollClaim PROVE Lifecycle!Next
  <2>1. PICK B \in SUBSET Claimable : Claim(B)
    BY <1>6 DEF PollClaim
  <2>2. B \in SUBSET Jobs /\ \A j \in B : row[j].status = "PENDING"
    BY DEF Claimable, InStatus
  <2>3. /\ \A j \in B : row'[j].status = "IN_PROGRESS"
        /\ \A j \in Jobs : j \notin B => row'[j] = row[j]
    BY <1>1, <2>1, <2>2, RowsWritten
  <2>4. file' = file
    BY <2>1 DEF Claim
  <2>5. Lifecycle!Claim(B)
    BY <2>2, <2>3, <2>4, RowsMoved
  <2> QED
    BY <2>2, <2>5 DEF Lifecycle!Next
<1>7. ASSUME NEW j \in Jobs, PollRequeue(j) PROVE Lifecycle!Next
  <2>1. row[j].status = "IN_PROGRESS"
    BY <1>7 DEF PollRequeue, NextClaimed, OrderlyInv, HeldOnTime, Held, OnTime
  <2>2. /\ row'[j].status = "PENDING"
        /\ \A i \in Jobs : i # j => row'[i] = row[i]
        /\ file' = file
    BY <1>1, <1>7, <2>1, OneRowWritten DEF PollRequeue
  <2>3. Lifecycle!GiveBack(j)
    BY <2>1, <2>2, RowsMoved
  <2> QED
    BY <2>3 DEF Lifecycle!Next
<1>8. ASSUME NEW o \in Operators, NEW j \in Jobs, OperatorReconcile(o, j)
      PROVE  [Lifecycle!Next]_(Lifecycle!vars)
  <2>1. /\ row'[j].status = "DONE"
        /\ \A i \in Jobs : i # j => row'[i] = row[i]
        /\ file' = file
    BY <1>1, <1>8, OneRowWritten DEF OperatorReconcile
  <2>2. Reconcilable(j) /\ file[j] \in Renders
    BY <1>1, <1>8 DEF OperatorReconcile, OrderlyInv, Reconciling
  <2>3. CASE row[j].status = "DONE"
    <3>1. \A i \in Jobs : row'[i].status = row[i].status
      BY <2>1, <2>3
    <3> QED
      BY <2>1, <3>1, Unseen
  <2>4. CASE row[j].status = "AMBIGUOUS"
    BY <2>1, <2>2, <2>4, RowFinished DEF Lifecycle!Next
  <2> QED
    BY <2>2, <2>3, <2>4 DEF Reconcilable
<1>9. ASSUME PollStep \/ PollAbort PROVE [Lifecycle!Next]_(Lifecycle!vars)
  <2>1. CASE PollScan \/ PollFull \/ PollAbort \/ \E j \in Jobs : PollPut(j)
    BY <1>2, <2>1 DEF PollScan, PollFull, PollAbort, PollPut
  <2>2. CASE PollRecover
    BY <1>1, <1>5, <2>2 DEF PollRecover, Poller
  <2> QED
    BY <1>6, <1>7, <1>9, <2>1, <2>2 DEF PollStep
<1>10. ASSUME NEW o \in Operators, OperatorStep(o) PROVE [Lifecycle!Next]_(Lifecycle!vars)
  <2>1. CASE OperatorScan(o) \/ \E j \in Jobs : OperatorInspect(o, j) \/ OperatorVerify(o, j)
    BY <1>2, <2>1 DEF OperatorScan, OperatorInspect, OperatorVerify
  <2>2. CASE OperatorRecover(o)
    BY <1>1, <1>5, <2>2 DEF OperatorRecover, Operator
  <2> QED
    BY <1>8, <1>10, <2>1, <2>2 DEF OperatorStep
<1>11. CASE Crash \/ UNCHANGED vars
  BY <1>2, <1>11 DEF Crash, vars
<1> QED
  BY <1>3, <1>4, <1>9, <1>10, <1>11, WorkerRefines DEF Next

\* No row is there at first.
LEMMA InitRefines == Init => Lifecycle!Init
BY DEF Init, StoreInit, NoRow, Lifecycle!Init

\* Without transient errors, and as long as leases outlive their holders, all the
\* threads, leases, recovery, reconciliation and crashes together do nothing to a
\* job that its lifecycle does not allow: its outcome is recorded once, and the
\* audio of a DONE job is never replaced.
THEOREM QueueImplementsLifecycle ==
  ASSUME NoTransient, Prompt
  PROVE  Spec => ImplementsLifecycle
<1>1. IInv /\ SoleInv /\ OrderlyInv /\ [Next]_vars => [Lifecycle!Next]_(Lifecycle!vars)
  BY StepRefines
<1> QED
  BY <1>1, InitRefines, OrderlyHolds, PTL DEF Spec, ImplementsLifecycle, Lifecycle!Spec
=============================================================================
