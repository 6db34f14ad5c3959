# A TLA+ model of AI-Manifest

This directory models, checks and proves properties of the concurrent and
stateful parts of AI-Manifest: a Python system that keeps a graph of todos,
turns text into speech through ElevenLabs (durably, streaming and on request),
and serves a portal, MCP tools and an Alexa skill on top of both.

Paths below are paths of the repository (`src/utils/...`, `docs/...`); in
`PROJECT.json` they carry the prefix `src/`.

## 1. Inventory

### 1.1 Durable TTS queue

*Code:* `src/utils/tts_queue_db.py`, `src/services/tts_queue_worker.py`,
`tools/tts_queue.py`, `src/utils/audio_output_policy.py`.

*State.* Three SQLite tables (jobs, attempts, recoveries), one MP3 per job, and
in the worker process an internal bounded `queue.Queue`, a poll thread, a pool
of worker threads and the module-level default worker.

*Operations.* enqueue (deduplicated by request identity and decision id),
`dequeue_pending`, `mark_done`, `mark_failed`, `increment_retry`,
`requeue_after_local_failure`, `recover_stale_jobs`,
`reconcile_existing_artifact`; the poll loop, the worker loop, start and stop.

*Interaction.* Submitters (portal, MCP server, Alexa) insert rows; the poll
thread claims them and hands them to worker threads; operators run recovery from
another process on the same database; a finished job that belongs to a decision
is played (1.3) under the coordinator's lease (1.2).

*Hard behaviour.* Reads that precede the transaction they decide
(`increment_retry`, `recover_stale_jobs`, `reconcile_existing_artifact`),
updates that do not repeat the status they assume, retries that put an unclaimed
copy of a job back on the internal queue, a full internal queue, leases that
expire under a working thread, crashes between claim and completion.

*Correct means.* The attempt ledger agrees with the job table; retries stay in
budget; a job is in one place at a time and whoever holds it owns the claim; a
DONE job's audio is the audio that was hashed; an AMBIGUOUS job is not replayed;
every job settles.

### 1.2 Dispatch coordinator

*Code:* `src/services/tts_dispatch_coordinator.py`.

*State.* Reserved characters under one lock; a playback lock; leases that release
once. *Operations.* `reserve_quota`, `acquire_playback`, `release`.
*Interaction.* Shared by everything that calls the provider or plays sound.
*Hard behaviour.* The quota is read before the lock is taken; the playback lease
is awaited without a timeout; holders are threads that may fail anywhere.
*Correct means.* Reservations are exactly what is on loan and fit the
subscription together; at most one party plays; every lease comes back.

### 1.3 Playback of finished jobs

*Code:* `src/services/tts_queue_worker.py` (`PlaybackCompletion`,
`_MciPlaybackCompletion`, `windows_playback`, end of `_process_job`, `stop`).

*State.* A completion with a terminal state, the native alias, a watcher thread,
the set of active playbacks, the stop flag. *Hard behaviour.* Completion,
failure, timeout and cancellation race; the winner wakes the waiter and only
then closes the device; `stop()` works on a snapshot.
*Correct means.* The lease covers the sound; `stop()` leaves nobody waiting.

### 1.4 Streaming TTS

*Code:* `src/services/streaming_tts.py`, the stream iterator of
`src/integrations/elevenlabs/client.py`.

*State.* The active session and retained snapshots; per session a run thread, a
producer thread, a bounded PCM queue, `cancel_event`, sink and iterator.
*Operations.* start, status, cancel, shutdown. *Hard behaviour.* Cancellation
from other threads at any point of the set-up or teardown, a deadline, a
producer that is joined for 0.2 s only, a device that fails.
*Correct means.* A completed session played everything, a session ends and gives
back quota and lease, no producer survives for good.

### 1.5 ElevenLabs MCP server

*Code:* `src/integrations/elevenlabs/mcp_server.py`,
`src/services/governed_repository_voice.py`. Tools over 1.1-1.4:
`text_to_speech`, `text_to_speech_base64`, `play_audio_file`,
`start_streaming_tts`, `cancel_streaming_tts`, `submit_repository_voice`.

### 1.6 Todo graph

*Code:* `src/utils/todos_db.py`,
`src/integrations/coordination/mcp_server.py`.

*State.* Todos with a parent, a terminal state and a version (`updated_at`);
prerequisite edges; recorded batch operations; links to feature requests.
*Operations.* add, update, set priority, complete, cancel, close a whole tree,
link a prerequisite, decompose, create a batch of children idempotently, compute
readiness. *Hard behaviour.* Closing trees while children are added, version
checks against operations that do not move the version, a cycle check over one
of the two relations that make a todo wait, replayed batches.
*Correct means.* A closing takes one whole tree that is ready and every ancestor
it finishes; prerequisites stay acyclic; a batch is created once; a versioned
write meets what its author read.

### 1.7 Portal

*Code:* `tools/executive_audio_brief.py`, `src/utils/roadmap_panel.py`.
*State.* `portal_state`, shared by the threads of a `ThreadingHTTPServer`; in the
browser the card of a project, its counter, a half-typed form, an audio element.
*Hard behaviour.* Answers to refresh, generate, done, cancel and add arrive in
any order; `generate` and `refresh` read and replace `portal_state` concurrently;
a card is gathered over several database connections.
*Correct means.* The page ends up showing the database; a card is complete.

### 1.8 The rest

| part | code | state and difficulty |
| --- | --- | --- |
| voice presets and orchestration | `src/voice_orchestration.py`, `src/utils/voice_preset_snapshots.py`, `src/integrations/vocal_synthesis.py` | several artifacts published one by one; version numbers from a read outside the insert; remote then local provider |
| Lily portrait | `src/utils/lily_portrait.py`, `src/utils/lily_config_db.py`, `tools/lily/` | one cached image a day, pruned and renamed by concurrent requests |
| decision metadata, priorities | `src/utils/todo_decision_metadata.py`, `src/utils/priority_scorer.py`, `tools/weekly_priority_rescore.py`, `tools/bulk_score_todos.py` | pure rules; batch jobs that write back what they read before |
| migration, discovery | `tools/migrate_todos.py`, `tools/discover_todos.py` | several files changed one after the other |
| Alexa bridge | `src/integrations/alexa/alexa_bridge.py` | a short dialogue that ends in an insert |
| revision resolver | `tools/resolve_workspace_revision.py` | retries and a fallback against a remote that moves |
| capabilities, provider health | `src/capabilities/`, `src/integrations/provider_health.py` | static records |
| backups, advisories, manifest scripts | `src/utils/database_backup.py`, `tools/mypy_advisory.py`, `tools/ruff_advisory.py`, `tools/manifest/` | file copies and reports of other tools |

`PROJECT.json` has one entry per part, with what is and is not modelled, and the
list of hazards at their lines.

## 2. How the project is built

| modules | what | proofs |
| --- | --- | --- |
| `TtsQueueStore`, `TtsQueue`, `TtsJobLifecycle` | the durable queue: transactions, worker process and operators, the abstract life of one job | `TtsQueueProofs` |
| `WorkerPool` | start, stop and restart of the queue's threads | `ServiceProofs` |
| `VoiceSubmission` | request identity, decision ids, the two unique indexes; the upgrade of an old table, statement by statement | `ServiceProofs` |
| `TtsDispatchCoordinator`, `StreamingTts`, `MciPlayback`, `SpeechDispatch` | quota and playback lease, their two long-running users, the composition with the synchronous tools | `SpeechProofs` |
| `TodoGraph`, `TodoForest` | the todo store with Tyler, the agent and scripts; the abstract forest they close tree by tree | `TodoProofs` |
| `SchemaUpgrade` | `init_db`, run by several programs at once | `SchemaProofs` |
| `TodoAnnotations` | feature requests and assessments of todos | `AnnotationProofs` |
| `PriorityRescore` | the rescoring jobs against people and the agent | `TodoJobProofs` |
| `TodoMigration`, `TodoDiscovery` | flat files into rows; proposals into rows | `TodoJobProofs` |
| `BriefPortal`, `ProjectCard` | the page and its server; the gathering of one card | `PortalProofs` |
| `VoicePublication`, `RevisionResolver` | presets and rendering; the revision a CI job checks out | `ServiceProofs` |
| `LilyPortrait` | the image of the day | `PortalProofs` |
| `MCTtsQueue`, `MCTodoGraph`, `MCPortal`, `MCServices` | instances for TLC (`SpeechDispatch` needs no module of its own) | |

The parts were modelled from the inside out: first the queue, then the speech
modules that share the coordinator, then the todo graph, then the programs
around both. What is still open is in section 9.

`tlc -config <cfg> <module>` runs one of the configurations that `PROJECT.json`
lists, `tlapm <module>` checks the proofs of one module. A definition marked
*Mutant* or *Variant* is not used by the model: it is a plausible mistake in the
definition below it, and replacing the one by the other makes the property that
`PROJECT.json` names for it fail.

## 3. The queue modules

`TtsQueueStore` holds the tables as functions of the job id and has one operator
per committed transaction; everything the code reads *before* a transaction
begins is a parameter. `TtsQueue` extends it with the program counters of the
threads.

| model | code |
| --- | --- |
| `row`, `attempts`, `recoveries`, `file` | `tts_queue`, `tts_queue_attempts`, `tts_queue_recoveries`, `output/tts/<id>.mp3` |
| `queue`, `poller`, `worker` | `_job_queue`, the locals of `_poll_loop` and `_process_job` |
| `Enqueue` | `enqueue_on_connection_status` (an insert that is not ignored) |
| `PollScan`, `PollRecover`, `PollClaim`, `PollPut`, `PollFull`, `PollRequeue`, `PollAbort` | one cycle of `_poll_loop`: SELECT of `recover_stale_jobs`, its transaction, `dequeue_pending`, the dispatch loop, an exception |
| `Take`, `Synthesize`, `Publish`, `Verify`, `Complete`, `EndPlayback` | the successful path of `_process_job`; `Verify` and `Complete` are the two halves of `mark_done` |
| `Reject`, `LoseOutcome`, `ReadRetryCount`, `IncrementRetry`, `Reread`, `Resubmit` | its error paths |
| `Abandon` | any other exception: `_worker_loop` logs it |
| `OperatorScan`, `OperatorRecover`, `OperatorInspect`, `OperatorVerify`, `OperatorReconcile` | CLI recovery and reconciliation in another process |
| `LeaseExpires`, `Crash` | time, and the death and restart of the worker process |

An artifact is its render and the persisted digest is that render (no hash
collisions). `started_at` is reduced to absent, fresh or expired. Attempt rows
of a job are reduced to how many are STARTED and the newest status. Names,
wording, backoff lengths and logging are left out; a backoff is the step between
`IncrementRetry` and `Reread`.

`TtsJobLifecycle` is the abstract specification: what a submitter may see happen
to a job. `ImplementsLifecycle` maps the queue to it (the row's status, and the
file of a DONE row as what a listener hears).

### Runs

| run | instance | shows |
| --- | --- | --- |
| `orderly` | 3 jobs, 2 workers, queue of 1, an operator, a crash, two renders; no transient errors, leases long enough | `HolderOwnsClaim`, `DigestMatchesArtifact`, refinement of `TtsJobLifecycle` |
| `late` | 2 jobs, 2 workers, an operator, a crash; no transient errors, leases may expire under a thread | `SoleHolder`, `AmbiguousNotReplayed` |
| `live` | 2 jobs, 2 workers, queue of 1, every outcome, a crash, under fairness | types, `OneOpenAttempt`, `RetryBudget`, `Settles` |
| `replay` | 1 job, 2 workers | a sentence of the documentation that does not hold, see section 8 |

The regimes matter. A transient error (408, 429) makes a worker resubmit a row it
no longer holds a claim on, and from there a job can be in two places. So the
properties that need a single holder are checked without transient errors; the
properties of `live` hold with everything. `late` shows which of them survive
leases that expire under a thread, `orderly` what else holds when they do not.

*Bounds.* Two jobs of inverted priority make claim order and id order differ; a
queue of one is full while one job waits and two are claimed, which fires the
give-back; `MaxRetries = 2` gives one retry and one exhaustion; two workers give
every two-copy race, since a third copy of a job needs nothing a second does not;
one crash can fall between any two steps, and recovery from it is over before a
second could matter. The theorems of section 7 remove the bounds for the invariants of
`live`.

*Fairness.* Every loop of the code catches all exceptions and continues, a
provider call has a client timeout, and time passes: weak fairness of the poll
thread, of each worker and of each lease. Database calls may raise in any cycle;
strong fairness of `PollRecover` and `PollClaim` says a transaction tried again
and again commits at last. Submitters, operators and crashes are not fair.

## 4. The speech modules

`TtsDispatchCoordinator` has the critical sections of the coordinator as
operators. `StreamingTts` and `MciPlayback` are its users, `SpeechDispatch`
composes them with the synchronous tools by interleaving: the only state they
share is the coordinator's.

| model | code |
| --- | --- |
| `used`, `reserved`, `owner` | `character_count` at the provider, `_reserved_characters`, holder of `_playback_lock` |
| `active`, `retained`, `cancelled` | `_active`, `_snapshots`, `cancel_event` |
| `run[s]`, with `ReadQuota` ... `Finish` | `_run`, in the order of its statements |
| `producer[s]`, with `Connect`, `NextChunk`, `PutChunk`, `EndProducer` | `produce` |
| `Cancel`, `CancelIterator`, `CancelSink` | `cancel` and the three effects of `_request_cancel` |
| `completion`, `closer`, `native`, `watcher`, `playing`, `stopper` | `_state`, the winner of `_finish` before its native commands, the device, `_watch`, `_active_playbacks`, `stop` |
| `CallReads` ... `CallReturns` | `text_to_speech`, `text_to_speech_base64`, `_invoke_provider` |
| `ToolAcquires`, `ToolPlays`, `ToolReleases` | `play_audio_file` |

PCM chunks are counted, not stored. A second `_request_cancel` of a session that
is being cancelled repeats the effects of the first and is not interleaved with
it. The sound device, the provider and the native commands are external: they
may fail wherever the code handles a failure.

### Runs

| run | instance | shows |
| --- | --- | --- |
| `speech` | a session, a queue playback, a synchronous call, room for one reservation, a PCM queue of 1 and up to 2 chunks, device faults, `stop()` | types, `QuotaLedger`, `AudibleHoldsLease`, `CompletedPlayedAll`, `StopReachesPlayback` |
| `speech_live` | a session, a queue playback and a playback tool in line for the lease, under fairness | `SessionEnds` |
| `overlap` | a queue playback that is cancelled and a file | another sentence, section 8 |

*Bounds.* The quota has room for one of the two reservations, so admission is
contended; a PCM queue of one with two chunks is full, empty and drained in one
session. One session at a time is the service's own limit.

*Fairness.* Each thread runs; a device ends what it plays; the watcher polls
until its own timeout; the deadline passes. A thread that keeps asking for the
service lock gets it (strong fairness of the steps that take it), since its
holders keep it for a few statements. Nobody has to cancel or start anything.

`CHECK_DEADLOCK` is off in these instances: a bounded number of sessions, calls
and playbacks really comes to an end.

## 5. The todo graph

`TodoGraph` has one action per store operation, each one a `BEGIN IMMEDIATE`
transaction: an operation that raises rolls back and changes nothing.

| model | code |
| --- | --- |
| `status`, `parent`, `version`, `edits` | `done` with `closure_reason`, `parent_id`, `updated_at`, the editable columns |
| `edges`, `batches` | `todo_prerequisites` with the policy of each edge, `todo_batch_operations` (key, parent, payload, children) |
| `origin`, `answers` | nothing: history of which key inserted a row, and of what callers of a batch were answered |
| `Subtree`, `Walked`, `ClosedUpTo`, `TreeReady` | the recursive query, the upward walk and the readiness checks of the closing transaction |
| `AddTodo`, `CreateChildrenBatch`, `LinkPrerequisite`, `UpdatePriority` | the inserts, the idempotent batch, the edge with its cycle check, the blind write |
| `ReadTodo`, `UpdateTodo`, `CompleteCheck`, `CompleteTodo`, `GiveUp` | the agent behind the coordination MCP server; `CompleteCheck` is the read of the children that `mcp_server.py` makes before it calls the store |
| `MarkDone`, `CancelTodo` | Tyler at the portal; the done button forces, the cancel button does not |

`TodoForest` is the abstract specification, which knows neither versions nor
prerequisites, batches or walks: todos are added to a forest, and a closing takes
all that is open in one tree and exactly those ancestors that it leaves without
unfinished work. It describes the tree and the walk by the parents of their
members, where the code computes them with a recursive query and a loop, and asks
that nobody is left behind. `ImplementsForest` says that every step of the store is
such an addition, such a closing, or leaves the forest alone.

| run | instance | shows |
| --- | --- | --- |
| `todos` | 4 ids, 5 starting tables, 1 key, 3 batches, 2 edges, an agent that works on todo 2 | `TypeOK`, `NoParentLeftBehind`, `PrerequisitesAcyclic`, `BatchOnce`, `ClosesOnlyReady`, `ImplementsForest`, `NoLostUpdate` |
| `toctou` | one todo and one free id | a sentence of the code that does not hold, section 8 |

*Bounds.* Four ids give a chain of four, so a closing in the middle has two
descendants and an ancestor that the walk must reach through a closed row (the
third to fifth table have one). The edges are a child that needs its parent and
a parent that needs a later todo; they become a circle with the edges of a batch.
The batches are a single child, three children whose prerequisites order them
differently from their ids, and two that require each other, which `visit` refuses;
four ids hold two of the small ones, so a retry that is not recognised would
insert again, and the answer of a committed batch may be lost, which is why anybody
retries. One edit makes a version stale. Section 7 removes these bounds
for all seven properties.

*Not in the model.* The unique index on texts only refuses inserts. The clock is
assumed to advance between two writes of one row.

## 6. The portal, the pool and the services

`MCPortal` and `MCServices` collect components that share no variable. Running
them side by side would multiply their states and add no behaviour, so `Init`
picks the one that is `busy` and the others stay where they are. Each component
is itself a set of concurrent parties.

### `MCPortal`: what must happen in the end

`BriefPortal` is the page in the browser (timers, clicks, a form, the audio
element) and the handler threads behind it. `Tick`, `PressRefresh`,
`PressGenerate`, `AddTodo`, `Press` and `ClickTimer` are what the page sends;
`Gather`, `KeepAudio`, `UpdateState`, `Synthesize`, `ServePortal` and
`AnswerClick` are the handlers, one step for each read of the database or of
`portal_state`; `Refreshed`, `Generated`, `Loaded`, `ClickAnswered` and
`ClickRefused` are what the page does with an answer; `Fail` and `ClickFailed`
are exceptions and lost answers; `DatabaseChange` is everybody else. A failure
looks different to each request: the interval logs it, a manual refresh and a
generate put up an alert, which stops the page's script until `Dismiss`, and a
reload that fails, which no handler catches, leaves an error page without
script until `Reload` (`shown` says which of the three the user sees). `Closings`
is what `close_todo_tree` closes, ancestors included. `WorkerPool` is the life of the
threads of `TtsQueueWorker`.

Run `portal`: a parent with one child and a third row, either all absent while
`main` still builds its brief or the tree open and an audio there; two requests
under way, two events (clicks, reloads, failures, changes by others); a pool of one
worker, an internal queue of two, two calls of `start`. It shows `TypeOK`;
`PageCatchesUp`, that a page whose script is at last left running ends up equal to
the database, rows and counter; `StoppedPoolEmpties`, that a stopped pool ends up
with no thread.

*Bounds.* Two requests are what it takes for answers to overtake each other, and
two events what it takes for a click to be hidden by a refresh while another
program changes the tree. Two starts are a restart over old threads; a queue of
two is full after two sentinels.

*Fairness.* The interval timer keeps firing; handler threads run; the loopback
delivers answers; audio that plays comes to its end (the timer does not refresh
while it plays). Nothing makes the user dismiss an alert or reload an error page,
and no timer runs before he does: that is the premise of `PageCatchesUp`, which
without it is false of the code. For the pool: the caller of `stop` goes on, its
joins time out, and every thread keeps running, because provider calls and playback
have timeouts. Beyond the premise nobody has to click, write or start.

### `MCServices`: eleven components

| component | model | what is checked |
| --- | --- | --- |
| portrait | `LilyPortrait`: `prompt`, today's `png` and `svg`, one step per file operation of `get_daily_portrait` and of the regeneration | `UndisturbedRequest`: a request no other one overlaps succeeds, and a regeneration shows the image it made, from the saved prompt or, when the prompt could not be read, from the rotation |
| migration | `TodoMigration`: read, insert, unlink of `migrate`, by two migrations of which one may be killed; one of two files unreadable | `ReadItemsKept`: a file that can be read stays until all its items have rows |
| submission | `VoiceSubmission`: open and upgrade one statement at a time, insert, look up, by three callers on six starting tables | `RetriesConverge`: a retry is told of the job its request has, if one opener at most set the old table aside |
| pool | `WorkerPool` with two default instances and a kept one | `DefaultPoolComplete`: no old sentinel takes a thread of a running pool |
| publication | `VoicePublication`: presets, two orchestrations, two savers | `PublishedWasRendered`, `SnapshotsKept` |
| rescore | `PriorityRescore`: two rescorers over two rows, the portal, the agent | `RescoredUnlessTouched`, `HistoryIsInForce` |
| resolver | `RevisionResolver`: three attempts per command, a remote that moves twice | `ReportIsTrue`: the SHA reported is checked out and was the branch's |
| discovery | `TodoDiscovery`: up to two candidates, three spellings of two texts, two rows added by others | `WritesTheChosen` |
| card | `ProjectCard`: three rows, two changes between three reads | `CardComplete`: each open row once, under its parent |
| annotations | `TodoAnnotations`: two todos, two assessments each, a reader | `LinksAgree`, `GuidanceIsRecent` |
| schema | `SchemaUpgrade`: three programs, one killed, tables of two earlier versions | `SchemaComplete`, `RebuiltOnceKeepsAll` |

`VoiceSubmission` takes the upgrade apart because SQLite does: outside a
transaction, which Python opens only before an INSERT or UPDATE, every CREATE,
ALTER and DROP is committed by itself. `CreateQueue`, `CheckTable`, `ListIndexes`,
`SetAside`, `Compare`, `Inspect`, `AddColumn` and `ReadNulls` are one statement
each; `Copy` and `Fill` are the transactions that end the two ways through
`init_tts_queue`. Opening fails where a statement does: a table that is not there any
more, a column another opener has just added, rows that break a unique index, an
index on a column that a rebuild has dropped (it copies only the columns of
`_CREATE_TABLE_SQL`, so `decision_id` is lost and comes back empty).

`MCPortal` and `MCServices` extend every component, so that the theorems of
section 7 are about the very definitions the runs check.

*Bounds.* Two parties are enough for each race in these components: the third
caller of a submission separates the one that inserts from two that retry, the
third program of an upgrade is one that starts while two rebuild. One write
by a person (`MaxWrites`), two moves of the remote and two changes by others are
what can fall between the reads of one party. Section 7 removes these bounds for all
fifteen properties. `RenameReplaces = FALSE` is `rename` on Windows, where the program
runs; with `TRUE` (POSIX) the property holds as well.

`CHECK_DEADLOCK` is off in both: scripts end, and the components that are not
busy never move.

## 7. What is proved

Every invariant and every action property of the passing runs, and both
refinements, are proved for all values of the constants; the four liveness
properties are left to TLC (end of this section).

### The queue

`TtsQueueProofs` proves for every set of jobs, workers and operators, every
capacity and every `MaxRetries`, with any subset of the provider's outcomes:

| theorem | statement |
| --- | --- |
| `TypeCorrect` | `Spec => []TypeOK`, the bound of the internal queue included |
| `LedgerConsistent` | `Spec => []OneOpenAttempt` |
| `BudgetHolds` | `Spec => []RetryBudget` |
| `OneHolderPerJob` | `NoTransient` gives `Spec => []SoleHolder` |
| `NoReplay` | `NoTransient` gives `Spec => AmbiguousNotReplayed` |
| `HoldersOwnTheirClaim` | `NoTransient` and `Prompt` give `Spec => []HolderOwnsClaim` |
| `DoneMeansPublished` | `NoTransient` and `Prompt` give `Spec => []DigestMatchesArtifact` |
| `QueueImplementsLifecycle` | `NoTransient` and `Prompt` give `Spec => ImplementsLifecycle` |

The assumptions are those of the modules: `StoreAssumption` and
`QueueAssumption` (finite sets, `MaxRetries` positive, `None` is no job and no
render). `NoTransient` says that `"transient"` is not among the outcomes of a
provider call, `Prompt` that no lease expires under a working thread: they are the
regimes of the runs `late` and `orderly`. The code does not promise either; the run
`replay` and the remarks in section 8 show what happens without. The inductive
invariant of the first three theorems is

    IInv == TypeOK /\ BusyHasJob /\ LedgerInv

`OneOpenAttempt` and `RetryBudget` are not inductive alone: an operator that
closes "the newest STARTED attempt" keeps the ledger right only if there is at
most one, a claim may open one only if a PENDING row has none, and a fresh row is
within budget only because an ABSENT row has used no retry. `Agree` says these
three of one row, `LedgerInv` of all. The store lemmas (one per transaction) show
that each transaction keeps `LedgerInv` *whatever* was read before it and
*whatever* status the row has by then, which is why no interleaving breaks it.
`BusyHasJob` supplies that a working thread has a job to apply them to. The three
lemmas after that go through the actions of `Next`.

The other five add two layers, each inductive together with those before it:

- `SoleInv`, for `NoTransient`: no thread is on the retry path (`NeverRetries`), since
  a worker that resubmits its own copy unclaimed is the one way to a second copy; a job
  is in one place only, queue, worker or the poll thread's hand (`OneHolder`); and a row
  that can be claimed, or submitted, is in nobody's (`UnclaimedFree`), which is what a
  new claim needs. `SoleMeansOne` turns this into the count that `SoleHolder` states.
- `OrderlyInv`, for `Prompt` as well. Whoever holds a job holds an unexpired claim on
  it (`HeldOnTime`). Transactions that act on an earlier read find what they read:
  the rows a recovery selected are still lost or recovered by another
  (`SelectedLost`), the row and the artifact an operator looked at are the same when it
  reconciles (`Reconciling`), and so is the file of the thread that wrote it
  (`RendersInHand`). `Advances` says what a step may do to one row so that all of this
  is kept.
- The refinement maps a row to its status and the file of a DONE row to what a
  listener hears. `StepRefines` has one case per group of actions; a claim or a
  recovery moves a set of rows at once, as `Claim` and `LoseTrack` of the lifecycle do.

### Speech

`SpeechProofs` proves for every set of sessions, playbacks, calls and files,
every quota, text length, response length and queue capacity, with and without
faults of the audio device and with any subset of the endings:

| theorem | statement |
| --- | --- |
| `TypesHold` | `Spec => []TypeOK` |
| `LedgerBalances` | `Spec => []QuotaLedger` |
| `AudibleHolds` | `Spec => []AudibleHoldsLease` |
| `StopReaches` | `Spec => []StopReachesPlayback` |
| `CompletedPlayed` | `Spec => []CompletedPlayedAll` |
| `OnlyCutPlaybacksOverlap` | `Endings = {}` gives `Spec => []PlaybackNeverOverlaps` |

The assumptions are `CoordinatorAssumption`, `StreamingAssumption` (session
numbers are natural, texts and the PCM queue are not empty),
`PlaybackAssumption` and `SpeechAssumption` (finitely many sessions and calls;
the parties that compete for the lease have different names). The inductive
invariant is

    IInv == Types /\ SpanInv /\ QuotaLedger /\ LeaseInv /\ StopInv /\ ChunkInv

- `SpanInv`: a thread has no reservation before `ReserveQuota` and none after
  `ReleaseQuota`. Without it a reservation could count once and be made twice.
  The ledger lemmas then count: one borrower more or less is `Characters` more or
  less, and `Loans` is the sum of two cardinalities.
- `LeaseInv`: each kind of party says from where to where it holds the lease, and
  that it sounds only in between. Two parties cannot both say so, since `owner` is
  one value and their names differ, so nobody releases another's lease.
- `StopInv`: a worker that waits for an undecided playback is one `stop()` has
  yet to find or yet to cancel. It holds because registration and the read of
  the stop flag are one critical section.
- `ChunkInv`: until it is cancelled, `produced = written + queued + in hand`.
  `completed` needs the producer done, the queue empty and nothing in hand, in
  the order the loop test looks at them; this is where the mutant
  `LoopTest_EmptyFirst` fails.

The last theorem is the other half of the run `overlap`: its sentence holds as long
as no queue playback is cut short. `Uncut` says that a completion is then decided
only by a device that has ended, so that all that sounds is the lease's owner.

`Types` is `TypeOK` without `reserved \in Nat`: that a subtraction never makes
the count negative is a consequence of the ledger and not an assumption of it.

### The todo graph

`TodoProofs` proves for every number of ids, every set of keys, edges and
well-formed starting tables:

| theorem | statement |
| --- | --- |
| `TodoTypeCorrect` | `Spec => []TypeOK` |
| `ParentsFollow` | `Spec => []NoParentLeftBehind` |
| `Acyclic` | `Spec => []PrerequisitesAcyclic` |
| `BatchesOnce` | `Spec => []BatchOnce` |
| `ReadyWhenClosed`, `WritesWhatWasRead` | `Spec => ClosesOnlyReady`, `Spec => NoLostUpdate` |
| `TodosImplementForest` | `Spec => ImplementsForest` |

The assumption is `TodoAssumption`: the starting tables are `WellFormed`, that is,
what a database kept by this code looks like; and a batch that is asked for is a size and
a set of pairs of integers, whatever they are. The inductive invariant is

    Inv == TypeOK /\ Forest /\ Present /\ AgentKnows
           /\ NoParentLeftBehind /\ PrerequisitesAcyclic /\ Recorded

- `Forest`: ids are handed out upwards and a parent is older than its children.
  `Subtree`, `Walked` and `Needed` are least fixed points, defined as the
  intersection of the closed sets; lemmas give their steps, and the order of the
  ids replaces an induction over the height of a tree.
- `NoParentLeftBehind` survives a closing because the walk starts at a parent
  exactly when its last open child is closed, and goes on through ancestors that
  are closed already. A new child never completes a parent.
- `PrerequisitesAcyclic`: a set of todos that wait on each other after a new edge
  contains a chain from its target back to its source, which the cycle check
  refuses. A batch adds edges between new rows only, and `visit` has put those in
  an order (`Accepted`): the row of a waiting set that it finished first waits for
  none of the others (`BatchAcyclic`, by `LeastNumber`).
- `Recorded`: a record of a batch names all rows inserted under its key, with its
  parent and edges, there is one for each key, and every answer is a record. Later
  operations take no edge away and give no row another parent.
- `AgentKnows`: as long as the version is the one the agent read, the columns are
  those it read. `Present` says that only rows that exist have edges or a batch.
- The refinement needs no mapping of variables, but its two sides describe a closing
  differently. `CloseRefines` shows that `Subtree` is the set `IsTree` characterises
  (`SubtreeRoot`, `SubtreeChild`, `SubtreeParent`), that `Walked` is a chain without
  gaps (`WalkAbove`) whose rows are all emptied (`WalkEmpties`), and that it goes far
  enough (`CloseKeepsParents`).

### The portal, the pool and the services

The other five modules assume no more than that the names of the parties are
different (`Distinct`), that a request asks for presets (`Asked`), that an old
table of the queue holds rows of the queue (`Shapes`), and the named assumptions of
the component's own module:

| theorem | statement | argument |
| --- | --- | --- |
| `TodoJobProofs!NothingLost` | `MigrationSpec => []ReadItemsKept` | `PassedFilesCovered`: what a migration has passed is in the database, but for the rest of the file in its hands; rows are only added, so another migration cannot undo it |
| `TodoJobProofs!HistoryAgrees` | `RescoreSpec => []HistoryIsInForce` | every write appends what it writes |
| `TodoJobProofs!RowsRescored` | `RescoreSpec => []RescoredUnlessTouched` | `UntouchedAsSeen`: a row nobody touched is as the run has read it, or rescored already |
| `TodoJobProofs!CountersTrue` | `DiscoverySpec => []WritesTheChosen` | `DiscoveryInv`: what was written is among the chosen candidates passed, and all of those have rows; `OfferNumbered`: no two candidates offered say the same, so each step counts a new one |
| `SchemaProofs!NothingForgotten` | `SchemaSpec => []RebuiltOnceKeepsAll` | `BeforeRebuild`: nobody is past the rebuild and no row has a value in a column it will not copy |
| `SchemaProofs!ColumnsComplete` | `SchemaSpec => []SchemaComplete` | `OneRebuild`: columns are lost only to a second rebuild; `SomebodyCompletes`: while nobody is killed, some program is on its way that adds what is missing |
| `AnnotationProofs!LinksInStep` | `AnnotationSpec => []LinksAgree` | inductive with the types |
| `AnnotationProofs!GuidanceRecent` | `AnnotationSpec => []GuidanceIsRecent` | `CurrentIsNewest`: the current assessment is the last of the list; `SinceCounted`: the list has not shrunk since the request |
| `ServiceProofs!RetriesAgree` | `SubmissionSpec => []RetriesConverge` | `NothingMoved`: before the first renaming nobody is past it, and after one (`MovedOnce`) the table in use is a new one with every identity filled in; `OpenTable`: whoever got past opening has left both indexes and no two rows in each other's way, so the row a duplicate finds (`AnswersHold`) is the only one |
| `ServiceProofs!NothingHalfRendered` | `PublicationSpec => []PublishedWasRendered` | `AllStaged`: nobody publishes before the last item; `StagedApproved`: a new version of a preset takes nothing back |
| `ServiceProofs!SavedSnapshotsStay` | `PublicationSpec => []SnapshotsKept` | `VersionsInStep`: a number in hand is at most the next one, so an insertion that succeeds lands on it |
| `ServiceProofs!ReportHolds` | `ResolverSpec => []ReportIsTrue` | `ResolverInv`: the revision in hand was a tip of the job's branch when it was looked up |
| `ServiceProofs!NoStraySentinel` | `PoolSpec => []DefaultPoolComplete` | `PoolInv`: a default pool is started once, so until it is stopped its queue holds jobs only and no thread of it has a reason to end; the caller of a stop works on another instance |
| `PortalProofs!AloneShowsTheNewPrompt` | `LilySpec => []UndisturbedRequest` | `LilyInv`: at each point of a request nobody has overlapped, which files are there and which prompt they were made from; two such requests are never busy together |
| `PortalProofs!CounterInRange` | `PortalSpec => []TypeOK` | inductive: `Counts` is closed under both subtractions, because the code subtracts only down to zero |
| `PortalProofs!CardShowsTheProject` | `CardSpec => []CardComplete` | `CardInv`: what the three reads found against what the table says now (a row that was open may be done, one that was done stays done, the parent of a row of the card was looked up if it is still open) |

`CardShowsTheProject` is about `Rendered`, a recursive function over the tree. The
prover cannot compute with it before it knows that a function with that equation
exists: `UpwardsDefined` builds it as the smallest closed set of pairs and shows by
the least number principle (`Least`, from the library's well-founded induction on
the naturals) that it gives each row one value. `RenderedOnce` uses the same
principle: the oldest row that is not rendered once would have a parent that is.

### What is left to TLC

`Settles`, `SessionEnds`, `PageCatchesUp` and `StoppedPoolEmpties` say that something
happens in the end. Liveness under fairness needs `ENABLED` and is out of the
prover's reach. So is induction over data in general (a schema over all
predicates); where a proof needs one, it uses a least number or a smallest set
instead. The counterexamples of section 8 are TLC's as well.

## 8. Where documentation and code disagree

Four runs check a sentence of the repository and find it violated. Each is a run
of its own, so that the passing runs state what does hold.

| run | sentence | what happens |
| --- | --- | --- |
| `replay` | "An ambiguous provider outcome is never automatically replayed" (`docs/tts_queue_operations.md:7-8`) | two copies of a job after a transient error; one ends AMBIGUOUS, the other's `increment_retry` sets it to PENDING |
| `overlap` | "... so durable, streaming, and synchronous playback cannot overlap" (`:112-116`) | the waiter is woken, and the lease released, before the device is stopped |
| `toctou` | "parent todos require Tyler to complete them manually" (`mcp_server.py:139`) | the children are read before the transaction that closes the todo; a child added in between is completed with it |
| `unread` | "After a clean migration the flat files are removed from disk" (`migrate_todos.py:4-5`) | a file that cannot be read is passed over with a warning, and removed like the others |

The models show more of this kind, as steps a reader can follow rather than as runs
of their own: a second copy of a job publishes over the file of a finished one (why
`DigestMatchesArtifact` needs the regime without transient errors);
`recover_stale_jobs` inserts its recovery row for a job that has moved on since it
was selected; a producer outlives a session that failed, and the reservation of that
session with it; a second rebuild of the todos table drops what was written after
the first (why `RebuiltOnceKeepsAll` speaks of one rebuild); two openers that both
saw an old TTS queue both set a table aside, the second one the table the first has
just rebuilt and may have inserted into, and an opener that comes while a table with
the two indexes is set aside does not create them, their names being taken: either
way a retry can be inserted as a second job (why `RetriesConverge` supposes
`RebuiltOnce`); a reload that fails leaves the portal on an error page, and a failed
manual refresh stops its timers behind an alert (why `PageCatchesUp` has a premise);
a portrait made from the rotation because the prompt could not be read stays the
image of the day; a refresh that was under way during a generate takes the new audio
out of `portal_state`; a todo may come to wait on itself through a prerequisite and
its own children together.

## 9. What is not modelled

- *Alexa bridge.* Each request is answered on its own; the one that would write
  inserts the source `alexa`, which the CHECK of the todos table refuses, so it
  leaves no state.
- *Database backup.* A facade over a backup engine of another repository and the
  Windows task scheduler.
- *Advisories and manifest scripts.* They format the output of other tools and
  hash files; nothing else reads what they write.
- *Capability registry, provider health.* Static tables and record constructors.
- *`DecisionMetadataStore`*, *`set_attempt_usage`* and *`cancel_todo`* (a closing that
  checks no prerequisites) have no caller outside the tests.
- *Seeding and restoring prompts* of the portrait are scripts run once by hand.
- *The scanners of discovery, the word lists of the scorer, the text of the
  brief, the roadmap panel, `vocal_synthesis`.* Functions of their input: the
  models take their result from a small set.
- HTML, logging, telemetry columns, file formats and the wording of messages;
  hash collisions; corruption of the database or of files by others; the
  scheduling of SQLite's locks (a transaction is one step, and may fail).

Still open: the liveness properties for more than the instances of the runs; the
conditions under which `CardComplete` holds of the whole page, which shows cards
gathered at different times; the steps of hazards without a property (section 8
and `PROJECT.json`), for which no document says what should hold.
