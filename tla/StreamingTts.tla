----------------------------- MODULE StreamingTts -----------------------------
(***************************************************************************)
(* Streaming speech sessions (src/src/services/streaming_tts.py): a run    *)
(* thread that owns the leases and the audio sink, a producer thread that  *)
(* iterates over the provider's response, a bounded queue of PCM chunks    *)
(* between them, and callers that start, cancel and watch sessions.        *)
(*                                                                         *)
(* PCM chunks are counted, not stored: pcm[s] is the length of the queue.  *)
(* Telemetry (latencies, byte counts) and the wording of reasons are left  *)
(* out; a snapshot is its state.                                           *)
(***************************************************************************)
EXTENDS TtsDispatchCoordinator, FiniteSets

CONSTANTS
  Sessions,     \* sessions callers may start, numbered in order
  Characters,   \* length of the text of a request
  PcmQueueSize, \* PCM_QUEUE_SIZE
  MaxChunks,    \* bound on the chunks of one response
  SinkFaults    \* TRUE: the audio device may fail to open, start or write

ASSUME StreamingAssumption ==
  /\ Sessions \subseteq Nat
  /\ None \notin Sessions
  /\ Characters \in Nat \ {0}
  /\ PcmQueueSize \in Nat \ {0}
  /\ MaxChunks \in Nat
  /\ SinkFaults \in BOOLEAN

VARIABLES
  active,    \* _active
  retained,  \* _snapshots, and "unknown" for a session with no snapshot
  run,       \* run[s]: the locals of _run
  producer,  \* producer[s]: the locals of produce, the provider's iterator
  pcm,       \* pcm[s]: chunks in pcm_queue
  cancelled, \* cancelled[s]: cancel_event
  canceller, \* canceller[s]: how far _request_cancel is after setting the event
  expired    \* expired[s]: the session deadline has passed

streams == <<active, retained, run, producer, pcm, cancelled, canceller, expired>>

RunPC == {"new", "read", "reserve", "acquire", "open", "begin", "loop", "drained",
          "deadline", "cancelling", "get", "write", "join", "drain", "teardown",
          "unlock", "return", "finish", "ended"}

Terminal == {"completed", "cancelled", "failed"}
Sink == {"none", "open", "playing", "aborted", "closed"}

Run == [pc : RunPC, seen : Nat, quota : BOOLEAN, playback : BOOLEAN,
        sink : Sink, written : Nat, end : Terminal \cup {"none"}]

Producer == [pc : {"none", "connect", "next", "put", "close", "done"},
             stream : {"none", "open", "closed"}, produced : Nat, error : BOOLEAN]

NoLocals(pc) == [pc |-> pc, seen |-> 0, quota |-> FALSE, playback |-> FALSE,
                 sink |-> "none", written |-> 0, end |-> "none"]

StreamsInit ==
  /\ active = None
  /\ retained = [s \in Sessions |-> "unknown"]
  /\ run = [s \in Sessions |-> NoLocals("new")]
  /\ producer = [s \in Sessions |-> [pc |-> "none", stream |-> "none",
                                     produced |-> 0, error |-> FALSE]]
  /\ pcm = [s \in Sessions |-> 0]
  /\ cancelled = [s \in Sessions |-> FALSE]
  /\ canceller = [s \in Sessions |-> "no"]
  /\ expired = [s \in Sessions |-> FALSE]

StreamsTypeOK ==
  /\ active \in Sessions \cup {None}
  /\ retained \in [Sessions -> Terminal \cup {"unknown"}]
  /\ run \in [Sessions -> Run]
  /\ producer \in [Sessions -> Producer]
  /\ pcm \in [Sessions -> 0 .. PcmQueueSize]
  /\ cancelled \in [Sessions -> BOOLEAN]
  /\ canceller \in [Sessions -> {"no", "iterator", "sink"}]
  /\ expired \in [Sessions -> BOOLEAN]

-----------------------------------------------------------------------------
(* Callers.                                                                *)

\* cancel() runs _request_cancel under the service lock; the run thread, which
\* does so at its deadline, does not take the lock.
ServiceLocked ==
  \E s \in Sessions : canceller[s] # "no" /\ run[s].pc # "cancelling"

\* _purge_expired: any snapshot may have outlived its retention.
Purged(gone) == [s \in Sessions |-> IF s \in gone THEN "unknown" ELSE retained[s]]

Start(s) ==
  /\ ~ServiceLocked
  /\ active = None
  /\ run[s].pc = "new"
  /\ \A r \in Sessions : r < s => run[r].pc # "new"
  /\ \E gone \in SUBSET Sessions : retained' = Purged(gone)
  /\ active' = s
  /\ run' = [run EXCEPT ![s].pc = "read"]
  /\ UNCHANGED <<coordinator, producer, pcm, cancelled, canceller, expired>>

\* One _request_cancel at a time: a second one, of the run thread at its deadline
\* while a caller's is under way, would repeat the effects of the first.
SignalCancel(s) ==
  /\ canceller[s] = "no"
  /\ cancelled' = [cancelled EXCEPT ![s] = TRUE]
  /\ canceller' = [canceller EXCEPT ![s] = "iterator"]

Cancel(s) ==
  /\ ~ServiceLocked
  /\ active = s
  /\ SignalCancel(s)
  /\ \E gone \in SUBSET Sessions : retained' = Purged(gone)
  /\ UNCHANGED <<coordinator, active, run, producer, pcm, expired>>

\* _request_cancel closes the provider's iterator, if there is one by now ...
CancelIterator(s) ==
  /\ canceller[s] = "iterator"
  /\ canceller' = [canceller EXCEPT ![s] = "sink"]
  /\ producer' = IF producer[s].stream = "open"
                 THEN [producer EXCEPT ![s].stream = "closed"] ELSE producer
  /\ UNCHANGED <<coordinator, active, retained, run, pcm, cancelled, expired>>

\* ... and aborts the sink; the run thread waits for its own _request_cancel.
CancelSink(s) ==
  /\ canceller[s] = "sink"
  /\ canceller' = [canceller EXCEPT ![s] = "no"]
  /\ run' = [run EXCEPT ![s].sink = IF @ \in {"open", "playing"} THEN "aborted" ELSE @,
                        ![s].pc = IF @ = "cancelling" THEN "join" ELSE @]
  /\ UNCHANGED <<coordinator, active, retained, producer, pcm, cancelled, expired>>

\* SESSION_DEADLINE_SECONDS pass.
Expire(s) ==
  /\ active = s
  /\ ~expired[s]
  /\ expired' = [expired EXCEPT ![s] = TRUE]
  /\ UNCHANGED <<coordinator, active, retained, run, producer, pcm, cancelled, canceller>>

-----------------------------------------------------------------------------
(* _run.                                                                   *)

Advance(s, pc) == run' = [run EXCEPT ![s].pc = pc]
\* except BaseException: the thread goes to its finally block.
Fail(s) == run' = [run EXCEPT ![s].pc = "drain", ![s].seen = 0, ![s].end = "failed"]

QuietRun == UNCHANGED <<active, retained, producer, pcm, cancelled, canceller, expired>>

ReadQuota(s) ==
  /\ run[s].pc = "read"
  /\ \/ Readable /\ run' = [run EXCEPT ![s].pc = "reserve", ![s].seen = used]
     \/ Fail(s)
  /\ UNCHANGED coordinator
  /\ QuietRun

ReserveQuota(s) ==
  /\ run[s].pc = "reserve"
  /\ IF Admits(Characters, run[s].seen)
     THEN /\ Reserve(Characters)
          /\ run' = [run EXCEPT ![s].pc = "acquire", ![s].seen = 0, ![s].quota = TRUE]
     ELSE Fail(s) /\ UNCHANGED coordinator
  /\ QuietRun

\* No timeout, and cancel_event is not looked at.
AcquireLease(s) ==
  /\ run[s].pc = "acquire"
  /\ AcquirePlayback(s)
  /\ run' = [run EXCEPT ![s].pc = "open", ![s].playback = TRUE]
  /\ QuietRun

OpenSink(s) ==
  /\ run[s].pc = "open"
  /\ \/ ~ServiceLocked /\ run' = [run EXCEPT ![s].pc = "begin", ![s].sink = "open"]
     \/ SinkFaults /\ Fail(s)
  /\ UNCHANGED coordinator
  /\ QuietRun

\* The sink starts and, with it, the producer thread.
StartSink(s) ==
  /\ run[s].pc = "begin"
  /\ \/ /\ run' = [run EXCEPT ![s].pc = "loop", ![s].sink = "playing"]
        /\ producer' = [producer EXCEPT ![s].pc = "connect"]
     \/ /\ SinkFaults
        /\ Fail(s)
        /\ UNCHANGED producer
  /\ UNCHANGED <<coordinator, active, retained, pcm, cancelled, canceller, expired>>

\* Mutant: the queue is inspected before producer_done is.
LoopTest_EmptyFirst(s) ==
  /\ \/ /\ run[s].pc = "loop"
        /\ Advance(s, IF pcm[s] = 0 THEN "drained" ELSE "deadline")
     \/ /\ run[s].pc = "drained"
        /\ Advance(s, IF producer[s].pc = "done" THEN "join" ELSE "deadline")
  /\ UNCHANGED coordinator
  /\ QuietRun

\* while not producer_done.is_set() or not pcm_queue.empty()
LoopTest(s) ==
  /\ \/ /\ run[s].pc = "loop"
        /\ Advance(s, IF producer[s].pc = "done" THEN "drained" ELSE "deadline")
     \/ /\ run[s].pc = "drained"
        /\ Advance(s, IF pcm[s] = 0 THEN "join" ELSE "deadline")
  /\ UNCHANGED coordinator
  /\ QuietRun

\* The deadline, which is looked at again when a chunk was taken, and cancel_event.
CheckDeadline(s) ==
  /\ run[s].pc \in {"deadline", "write"}
  /\ expired[s]
  /\ SignalCancel(s)
  /\ Advance(s, "cancelling")
  /\ UNCHANGED <<coordinator, active, retained, producer, pcm, expired>>

CheckCancelled(s) ==
  /\ run[s].pc = "deadline"
  /\ ~expired[s]
  /\ Advance(s, IF cancelled[s] THEN "join" ELSE "get")
  /\ UNCHANGED coordinator
  /\ QuietRun

GetChunk(s) ==
  /\ run[s].pc = "get"
  /\ IF pcm[s] = 0
     THEN Advance(s, "loop") /\ UNCHANGED pcm
     ELSE Advance(s, "write") /\ pcm' = [pcm EXCEPT ![s] = @ - 1]
  /\ UNCHANGED <<coordinator, active, retained, producer, cancelled, canceller, expired>>

WriteChunk(s) ==
  /\ run[s].pc = "write"
  /\ ~expired[s]
  /\ \/ run' = [run EXCEPT ![s].pc = "loop", ![s].written = @ + 1]
     \/ (SinkFaults \/ run[s].sink = "aborted") /\ Fail(s)
  /\ UNCHANGED coordinator
  /\ QuietRun

\* producer.join(timeout=0.2) returns whether or not the producer has ended.
Join(s) ==
  /\ run[s].pc = "join"
  /\ run' = [run EXCEPT ![s].pc = "drain",
                        ![s].end = IF cancelled[s] THEN "cancelled"
                                   ELSE IF producer[s].error THEN "failed" ELSE "completed"]
  /\ UNCHANGED coordinator
  /\ QuietRun

\* Mutant: the playback lease is given back before the sink is torn down.
Drain_Unlocks(s) ==
  /\ run[s].pc = "drain"
  /\ pcm' = [pcm EXCEPT ![s] = 0]
  /\ run' = [run EXCEPT ![s].pc = "teardown", ![s].playback = FALSE]
  /\ IF run[s].playback THEN ReleasePlayback ELSE UNCHANGED coordinator
  /\ UNCHANGED <<active, retained, producer, cancelled, canceller, expired>>

Drain(s) ==
  /\ run[s].pc = "drain"
  /\ pcm' = [pcm EXCEPT ![s] = 0]
  /\ Advance(s, "teardown")
  /\ UNCHANGED <<coordinator, active, retained, producer, cancelled, canceller, expired>>

TearDown(s) ==
  /\ run[s].pc = "teardown"
  /\ run' = [run EXCEPT ![s].pc = "unlock",
                        ![s].sink = IF @ = "none" THEN "none" ELSE "closed"]
  /\ UNCHANGED coordinator
  /\ QuietRun

ReleaseLease(s) ==
  /\ run[s].pc = "unlock"
  /\ IF run[s].playback THEN ReleasePlayback ELSE UNCHANGED coordinator
  /\ run' = [run EXCEPT ![s].pc = "return", ![s].playback = FALSE]
  /\ QuietRun

ReleaseQuota(s) ==
  /\ run[s].pc = "return"
  /\ IF run[s].quota THEN ReturnQuota(Characters) ELSE UNCHANGED coordinator
  /\ run' = [run EXCEPT ![s].pc = "finish", ![s].quota = FALSE]
  /\ QuietRun

Finish(s) ==
  /\ run[s].pc = "finish"
  /\ ~ServiceLocked
  /\ retained' = [retained EXCEPT ![s] = run[s].end]
  /\ active' = IF active = s THEN None ELSE active
  /\ run' = [run EXCEPT ![s] = NoLocals("ended")]
  /\ UNCHANGED <<coordinator, producer, pcm, cancelled, canceller, expired>>

-----------------------------------------------------------------------------
(* produce.                                                                *)

QuietProducer == UNCHANGED <<active, retained, run, cancelled, canceller, expired>>

\* text_to_speech_stream: the provider charges the request and streams, or refuses.
Connect(s) ==
  /\ producer[s].pc = "connect"
  /\ \/ /\ ~ServiceLocked
        /\ Charge(Characters)
        /\ producer' = [producer EXCEPT ![s].pc = "next", ![s].stream = "open"]
     \/ /\ UNCHANGED coordinator
        /\ producer' = [producer EXCEPT ![s].pc = "close", ![s].error = TRUE]
  /\ UNCHANGED pcm
  /\ QuietProducer

\* Closing the iterator under its reader makes the next read raise.
NextChunk(s) ==
  /\ producer[s].pc = "next"
  /\ \/ /\ producer[s].stream = "open"
        /\ producer[s].produced < MaxChunks
        /\ producer' = [producer EXCEPT ![s].produced = @ + 1,
                                        ![s].pc = IF cancelled[s] THEN "close" ELSE "put"]
     \/ /\ producer[s].stream = "open"
        /\ producer' = [producer EXCEPT ![s].pc = "close"]
     \/ producer' = [producer EXCEPT ![s].pc = "close", ![s].error = TRUE]
  /\ UNCHANGED <<coordinator, pcm>>
  /\ QuietProducer

\* Mutant: the queue is not bounded.
PutChunk_Unbounded(s) ==
  /\ producer[s].pc = "put"
  /\ pcm' = [pcm EXCEPT ![s] = @ + 1]
  /\ producer' = [producer EXCEPT ![s].pc = "next"]
  /\ UNCHANGED coordinator
  /\ QuietProducer

\* A full queue makes the producer try again and again.
PutChunk(s) ==
  /\ producer[s].pc = "put"
  /\ \/ /\ ~cancelled[s]
        /\ pcm[s] < PcmQueueSize
        /\ pcm' = [pcm EXCEPT ![s] = @ + 1]
     \/ cancelled[s] /\ UNCHANGED pcm
  /\ producer' = [producer EXCEPT ![s].pc = "next"]
  /\ UNCHANGED coordinator
  /\ QuietProducer

EndProducer(s) ==
  /\ producer[s].pc = "close"
  /\ producer' = [producer EXCEPT ![s].pc = "done",
                                  ![s].stream = IF @ = "open" THEN "closed" ELSE @]
  /\ UNCHANGED <<coordinator, pcm>>
  /\ QuietProducer

-----------------------------------------------------------------------------
RunStep(s) ==
  \/ ReadQuota(s) \/ ReserveQuota(s) \/ AcquireLease(s) \/ OpenSink(s) \/ StartSink(s)
  \/ LoopTest(s) \/ CheckDeadline(s) \/ CheckCancelled(s) \/ GetChunk(s) \/ WriteChunk(s)
  \/ Join(s) \/ Drain(s) \/ TearDown(s) \/ ReleaseLease(s) \/ ReleaseQuota(s) \/ Finish(s)

ProducerStep(s) == Connect(s) \/ NextChunk(s) \/ PutChunk(s) \/ EndProducer(s)

CancelStep(s) == CancelIterator(s) \/ CancelSink(s)

StreamStep ==
  \E s \in Sessions :
    Start(s) \/ Cancel(s) \/ Expire(s) \/ RunStep(s) \/ ProducerStep(s) \/ CancelStep(s)

=============================================================================
