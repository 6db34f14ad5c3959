---------------------------- MODULE SpeechProofs ----------------------------
(***************************************************************************)
(* Theorems about SpeechDispatch for every set of sessions, playbacks,     *)
(* calls and files, every quota, text length and queue capacity.           *)
(*                                                                         *)
(* They follow from one inductive invariant, IInv: when a session has its  *)
(* reservation, its lease and its outcome (SpanInv, LeaseInv), where every *)
(* chunk is (ChunkInv), and which playback stop() still has before it      *)
(* (StopInv).  The proofs go by component: a session changes its own       *)
(* locals only (OtherRuns, OtherChunks), and the ...Effects lemmas say     *)
(* how, field by field, so that the invariants need not open its actions.  *)
(***************************************************************************)
EXTENDS SpeechDispatch, FiniteSetTheorems, TLAPS

\* TypeOK without the count of reserved characters, which is a natural number
\* only because the ledger balances.
Types ==
  /\ used \in Nat
  /\ owner \in Sessions \cup Plays \cup Files \cup {None}
  /\ StreamsTypeOK
  /\ PlaybacksTypeOK
  /\ call \in [Calls -> Call]
  /\ tool \in [Files -> {"acquire", "play", "release", "done"}]

\* A run thread has its reservation only between ReserveQuota and ReleaseQuota,
\* and has decided how the session ends when it tears it down.
Span(s) ==
  /\ run[s].quota => run[s].pc \notin {"new", "read", "reserve", "finish", "ended"}
  /\ run[s].pc \in {"drain", "teardown", "unlock", "return", "finish"} => run[s].end # "none"

SpanInv == \A s \in Sessions : Span(s)

\* Between the opening of the sink and the end of the loop.
Streaming == {"open", "begin", "loop", "drained", "deadline", "cancelling",
              "get", "write", "join"}

\* Who holds the lease, by party, and for how long.
StreamLease(s) ==
  /\ run[s].playback => owner = s
  /\ run[s].pc \in Streaming => run[s].playback
  /\ run[s].sink = "playing" =>
       /\ run[s].playback
       /\ run[s].pc \in Streaming \cup {"drain", "teardown"}

PlayLease(d) ==
  /\ play[d] \in {"open", "register", "abandon", "wait", "discard", "release"} => owner = d
  /\ native[d] = "playing" =>
       completion[d] # "none" \/ play[d] \in {"register", "abandon", "wait"}

ToolLease(f) == tool[f] \in {"play", "release"} => owner = f

LeaseInv ==
  /\ \A s \in Sessions : StreamLease(s)
  /\ \A d \in Plays : PlayLease(d)
  /\ \A f \in Files : ToolLease(f)

\* A worker that waits for an undecided playback is one that stop() has still
\* to find, or has found and still to cancel.
StopInv ==
  \A d \in Plays :
    /\ play[d] \in {"abandon", "wait", "discard"} => d \in playing
    /\ play[d] = "wait" /\ completion[d] = "none" =>
         \/ stopper.pc \in {"idle", "snapshot"}
         \/ stopper.pc = "cancel" /\ d \in stopper.todo

\* The chunks a producer has received are played, queued, or in somebody's hands.
InHand(s) ==
  (IF producer[s].pc = "put" THEN 1 ELSE 0) + (IF run[s].pc = "write" THEN 1 ELSE 0)

Chunks(s) ==
  /\ run[s].pc \in {"new", "read", "reserve", "acquire", "open", "begin"} =>
       /\ producer[s].pc = "none"
       /\ producer[s].produced = 0
       /\ run[s].written = 0
       /\ pcm[s] = 0
  /\ run[s].pc \in {"begin", "loop", "drained", "deadline", "get", "write", "join"} =>
       cancelled[s] \/ producer[s].produced = run[s].written + pcm[s] + InHand(s)
  /\ run[s].pc = "drained" => producer[s].pc = "done"
  /\ run[s].pc = "cancelling" => cancelled[s]
  /\ run[s].pc = "join" => cancelled[s] \/ (producer[s].pc = "done" /\ pcm[s] = 0)
  /\ run[s].end = "completed" =>
       /\ run[s].pc \in {"drain", "teardown", "unlock", "return", "finish"}
       /\ producer[s].pc = "done"
       /\ ~producer[s].error
       /\ run[s].written = producer[s].produced

ChunkInv == \A s \in Sessions : Chunks(s)

IInv == Types /\ SpanInv /\ QuotaLedger /\ LeaseInv /\ StopInv /\ ChunkInv

-----------------------------------------------------------------------------
(* Types.                                                                  *)

\* The update of one field of a run thread leaves it well-formed.
LEMMA RunFields ==
  ASSUME NEW x \in Run
  PROVE  /\ \A pc \in RunPC : [x EXCEPT !.pc = pc] \in Run
         /\ \A n \in Nat : [x EXCEPT !.seen = n] \in Run
         /\ \A n \in Nat : [x EXCEPT !.written = n] \in Run
         /\ \A b \in BOOLEAN : [x EXCEPT !.quota = b] \in Run
         /\ \A b \in BOOLEAN : [x EXCEPT !.playback = b] \in Run
         /\ \A k \in Sink : [x EXCEPT !.sink = k] \in Run
         /\ \A e \in Terminal : [x EXCEPT !.end = e] \in Run
BY DEF Run

\* And of one field of a producer.
LEMMA ProducerFields ==
  ASSUME NEW x \in Producer
  PROVE  /\ \A pc \in {"none", "connect", "next", "put", "close", "done"} :
              [x EXCEPT !.pc = pc] \in Producer
         /\ \A k \in {"none", "open", "closed"} : [x EXCEPT !.stream = k] \in Producer
         /\ \A n \in Nat : [x EXCEPT !.produced = n] \in Producer
         /\ \A b \in BOOLEAN : [x EXCEPT !.error = b] \in Producer
BY DEF Producer

\* Every step of a run thread leaves it a well-formed record.
LEMMA RunTyped ==
  ASSUME NEW s \in Sessions, run \in [Sessions -> Run], used \in Nat, RunStep(s)
  PROVE  run' \in [Sessions -> Run]
<1> DEFINE At(pc) == [run[s] EXCEPT !.pc = pc]
<1>0. \A pc \in RunPC : At(pc) \in Run
  BY RunFields
<1>1. Fail(s) => run' \in [Sessions -> Run]
  <2> DEFINE a == [At("drain") EXCEPT !.seen = 0]
             b == [a EXCEPT !.end = "failed"]
  <2>1. b \in Run
    BY <1>0, RunFields DEF RunPC, Terminal
  <2>2. Fail(s) => run' = [run EXCEPT ![s] = b]
    BY DEF Fail
  <2> QED
    BY <2>1, <2>2
<1>2. \A pc \in RunPC : Advance(s, pc) => run' \in [Sessions -> Run]
  BY RunFields DEF Advance
<1> HIDE DEF At
<1>3. CASE ReadQuota(s)
  <2> DEFINE a == [At("reserve") EXCEPT !.seen = used]
  <2>1. a \in Run
    BY <1>0, RunFields DEF RunPC
  <2>2. Fail(s) \/ run' = [run EXCEPT ![s] = a]
    BY <1>3 DEF ReadQuota, At
  <2> QED
    BY <1>1, <2>1, <2>2
<1>4. CASE ReserveQuota(s)
  <2> DEFINE a == [At("acquire") EXCEPT !.seen = 0]
             b == [a EXCEPT !.quota = TRUE]
  <2>1. b \in Run
    BY <1>0, RunFields DEF RunPC
  <2>2. Fail(s) \/ run' = [run EXCEPT ![s] = b]
    BY <1>4 DEF ReserveQuota, At
  <2> QED
    BY <1>1, <2>1, <2>2
<1>5. CASE AcquireLease(s)
  <2> DEFINE a == [At("open") EXCEPT !.playback = TRUE]
  <2>1. a \in Run
    BY <1>0, RunFields DEF RunPC
  <2>2. run' = [run EXCEPT ![s] = a]
    BY <1>5 DEF AcquireLease, At
  <2> QED
    BY <2>1, <2>2
<1>6. CASE OpenSink(s)
  <2> DEFINE a == [At("begin") EXCEPT !.sink = "open"]
  <2>1. a \in Run
    BY <1>0, RunFields DEF RunPC, Sink
  <2>2. Fail(s) \/ run' = [run EXCEPT ![s] = a]
    BY <1>6 DEF OpenSink, At
  <2> QED
    BY <1>1, <2>1, <2>2
<1>7. CASE StartSink(s)
  <2> DEFINE a == [At("loop") EXCEPT !.sink = "playing"]
  <2>1. a \in Run
    BY <1>0, RunFields DEF RunPC, Sink
  <2>2. Fail(s) \/ run' = [run EXCEPT ![s] = a]
    BY <1>7 DEF StartSink, At
  <2> QED
    BY <1>1, <2>1, <2>2
<1>8. CASE LoopTest(s) \/ CheckDeadline(s) \/ CheckCancelled(s) \/ GetChunk(s) \/ Drain(s)
  BY <1>8, <1>2 DEF LoopTest, CheckDeadline, CheckCancelled, GetChunk, Drain, RunPC
<1>9. CASE WriteChunk(s)
  <2> DEFINE a == [At("loop") EXCEPT !.written = run[s].written + 1]
  <2>1. a \in Run
    <3>1. run[s].written + 1 \in Nat
      BY DEF Run
    <3> QED
      BY <1>0, <3>1, RunFields DEF RunPC
  <2>2. Fail(s) \/ run' = [run EXCEPT ![s] = a]
    BY <1>9 DEF WriteChunk, At
  <2> QED
    BY <1>1, <2>1, <2>2
<1>10. CASE Join(s)
  <2>1. PICK e \in Terminal : run' = [run EXCEPT ![s].pc = "drain", ![s].end = e]
    BY <1>10 DEF Join, Terminal
  <2> DEFINE a == [At("drain") EXCEPT !.end = e]
  <2>2. a \in Run
    BY <1>0, RunFields DEF RunPC
  <2>3. run' = [run EXCEPT ![s] = a]
    BY <2>1 DEF At
  <2> QED
    BY <2>2, <2>3
<1>11. CASE TearDown(s)
  <2>1. PICK e \in Sink : run' = [run EXCEPT ![s].pc = "unlock", ![s].sink = e]
    BY <1>11 DEF TearDown, Sink
  <2> DEFINE a == [At("unlock") EXCEPT !.sink = e]
  <2>2. a \in Run
    BY <1>0, RunFields DEF RunPC
  <2>3. run' = [run EXCEPT ![s] = a]
    BY <2>1 DEF At
  <2> QED
    BY <2>2, <2>3
<1>12. CASE ReleaseLease(s)
  <2> DEFINE a == [At("return") EXCEPT !.playback = FALSE]
  <2>1. a \in Run
    BY <1>0, RunFields DEF RunPC
  <2>2. run' = [run EXCEPT ![s] = a]
    BY <1>12 DEF ReleaseLease, At
  <2> QED
    BY <2>1, <2>2
<1>13. CASE ReleaseQuota(s)
  <2> DEFINE a == [At("finish") EXCEPT !.quota = FALSE]
  <2>1. a \in Run
    BY <1>0, RunFields DEF RunPC
  <2>2. run' = [run EXCEPT ![s] = a]
    BY <1>13 DEF ReleaseQuota, At
  <2> QED
    BY <2>1, <2>2
<1>14. CASE Finish(s)
  <2>1. NoLocals("ended") \in Run
    BY DEF NoLocals, Run, RunPC, Sink, Terminal
  <2> QED
    BY <1>14, <2>1 DEF Finish
<1> QED
  BY <1>3, <1>4, <1>5, <1>6, <1>7, <1>8, <1>9, <1>10, <1>11, <1>12, <1>13, <1>14 DEF RunStep

\* Every step of a producer leaves it a well-formed record.
LEMMA ProducerTyped ==
  ASSUME NEW s \in Sessions, producer \in [Sessions -> Producer],
         ProducerStep(s) \/ StartSink(s)
  PROVE  producer' \in [Sessions -> Producer]
<1> DEFINE At(pc) == [producer[s] EXCEPT !.pc = pc]
           Failed == [At("close") EXCEPT !.error = TRUE]
<1>0. \A pc \in {"none", "connect", "next", "put", "close", "done"} : At(pc) \in Producer
  BY ProducerFields
<1>1. Failed \in Producer
  BY <1>0, ProducerFields
<1> HIDE DEF At
<1>2. CASE Connect(s)
  <2> DEFINE a == [At("next") EXCEPT !.stream = "open"]
  <2>1. a \in Producer
    BY <1>0, ProducerFields
  <2>2. producer' = [producer EXCEPT ![s] = a] \/ producer' = [producer EXCEPT ![s] = Failed]
    BY <1>2 DEF Connect, At
  <2> QED
    BY <1>1, <2>1, <2>2
<1>3. CASE NextChunk(s)
  <2> DEFINE a == [producer[s] EXCEPT !.produced = producer[s].produced + 1]
             b == [a EXCEPT !.pc = IF cancelled[s] THEN "close" ELSE "put"]
  <2>1. b \in Producer
    <3>1. a \in Producer
      <4>1. producer[s].produced + 1 \in Nat
        BY DEF Producer
      <4> QED
        BY <4>1, ProducerFields
    <3> QED
      BY <3>1, ProducerFields
  <2>2. \/ producer' = [producer EXCEPT ![s] = b]
        \/ producer' = [producer EXCEPT ![s] = At("close")]
        \/ producer' = [producer EXCEPT ![s] = Failed]
    BY <1>3 DEF NextChunk, At
  <2> QED
    BY <1>0, <1>1, <2>1, <2>2
<1>4. CASE PutChunk(s)
  <2>1. producer' = [producer EXCEPT ![s] = At("next")]
    BY <1>4 DEF PutChunk, At
  <2> QED
    BY <1>0, <2>1
<1>5. CASE EndProducer(s)
  <2>1. PICK k \in {"none", "open", "closed"} :
          producer' = [producer EXCEPT ![s].pc = "done", ![s].stream = k]
    BY <1>5 DEF EndProducer, Producer
  <2> DEFINE a == [At("done") EXCEPT !.stream = k]
  <2>2. a \in Producer
    BY <1>0, ProducerFields
  <2>3. producer' = [producer EXCEPT ![s] = a]
    BY <2>1 DEF At
  <2> QED
    BY <2>2, <2>3
<1>6. CASE StartSink(s)
  <2>1. producer' = [producer EXCEPT ![s] = At("connect")] \/ producer' = producer
    BY <1>6 DEF StartSink, At
  <2> QED
    BY <1>0, <2>1
<1> QED
  BY <1>2, <1>3, <1>4, <1>5, <1>6 DEF ProducerStep

\* A step of a run thread keeps the types.
LEMMA RunKeepsTypes ==
  ASSUME Types, SpanInv, NEW s \in Sessions, RunStep(s), UNCHANGED <<playbacks, synchronous>>
  PROVE  Types'
<1>1. run' \in [Sessions -> Run]
  BY RunTyped DEF Types, StreamsTypeOK
<1>2. used' \in Nat /\ owner' \in Sessions \cup Plays \cup Files \cup {None}
  <2> USE DEF Types, coordinator
  <2>1. CASE ReadQuota(s) \/ ReserveQuota(s) \/ AcquireLease(s) \/ OpenSink(s) \/ StartSink(s)
    BY <2>1
    DEF ReadQuota, ReserveQuota, AcquireLease, OpenSink, StartSink, Reserve, AcquirePlayback
  <2>2. CASE LoopTest(s) \/ CheckDeadline(s) \/ CheckCancelled(s) \/ GetChunk(s) \/ WriteChunk(s)
    BY <2>2 DEF LoopTest, CheckDeadline, CheckCancelled, GetChunk, WriteChunk
  <2>3. CASE Join(s) \/ Drain(s) \/ TearDown(s) \/ ReleaseLease(s) \/ ReleaseQuota(s) \/ Finish(s)
    BY <2>3
    DEF Join, Drain, TearDown, ReleaseLease, ReleaseQuota, Finish, ReleasePlayback,
        ReturnQuota
  <2> QED
    BY <2>1, <2>2, <2>3 DEF RunStep
<1>3. StartSink(s) => producer' \in [Sessions -> Producer]
  BY ProducerTyped DEF Types, StreamsTypeOK
<1>4. StreamsTypeOK'
  <2> USE <1>1, StreamingAssumption DEF StreamsTypeOK, QuietRun, Types
  <2>1. CASE ReadQuota(s) \/ ReserveQuota(s) \/ AcquireLease(s) \/ OpenSink(s)
    BY <2>1 DEF ReadQuota, ReserveQuota, AcquireLease, OpenSink
  <2>2. CASE StartSink(s)
    BY <2>2, <1>3 DEF StartSink
  <2>3. CASE CheckDeadline(s)
    BY <2>3 DEF CheckDeadline, SignalCancel
  <2>4. CASE GetChunk(s)
    BY <2>4 DEF GetChunk
  <2>5. CASE Drain(s)
    BY <2>5 DEF Drain
  <2>6. CASE LoopTest(s) \/ CheckCancelled(s) \/ WriteChunk(s) \/ Join(s) \/ TearDown(s)
    BY <2>6 DEF LoopTest, CheckCancelled, WriteChunk, Join, TearDown
  <2>7. CASE ReleaseLease(s) \/ ReleaseQuota(s)
    BY <2>7 DEF ReleaseLease, ReleaseQuota
  <2>8. CASE Finish(s)
    <3>1. run[s].end \in Terminal
      BY <2>8 DEF Finish, SpanInv, Span, Run
    <3> QED
      BY <2>8, <3>1 DEF Finish
  <2> QED
    BY <2>1, <2>2, <2>3, <2>4, <2>5, <2>6, <2>7, <2>8 DEF RunStep
<1> QED
  BY <1>2, <1>4 DEF Types, PlaybacksTypeOK, playbacks, synchronous

\* A step of a producer, of a cancellation, of a caller or of time keeps them.
LEMMA StreamKeepsTypes ==
  ASSUME Types, SpanInv, StreamStep, UNCHANGED <<playbacks, synchronous>>
  PROVE  Types'
<1> PICK s \in Sessions :
      \/ RunStep(s) \/ ProducerStep(s) \/ CancelStep(s)
      \/ Start(s) \/ Cancel(s) \/ Expire(s)
  BY DEF StreamStep
<1>1. CASE RunStep(s)
  BY <1>1, RunKeepsTypes
<1>2. ~RunStep(s) => used' \in Nat /\ UNCHANGED owner
  <2> USE DEF Types, coordinator
  <2>1. CASE ProducerStep(s)
    BY <2>1, StreamingAssumption
    DEF ProducerStep, Connect, NextChunk, PutChunk, EndProducer, Charge
  <2>2. CASE CancelStep(s) \/ Start(s) \/ Cancel(s) \/ Expire(s)
    BY <2>2 DEF CancelStep, CancelIterator, CancelSink, Start, Cancel, Expire
  <2> QED
    BY <2>1, <2>2
<1>3. ProducerStep(s) => producer' \in [Sessions -> Producer]
  BY ProducerTyped DEF Types, StreamsTypeOK
<1>4. ~RunStep(s) => StreamsTypeOK'
  <2> USE StreamingAssumption DEF StreamsTypeOK, QuietProducer, Types
  <2>1. CASE Connect(s) \/ NextChunk(s) \/ EndProducer(s)
    BY <2>1, <1>3 DEF ProducerStep, Connect, NextChunk, EndProducer
  <2>2. CASE PutChunk(s)
    <3>1. pcm' \in [Sessions -> 0 .. PcmQueueSize]
      BY <2>2 DEF PutChunk
    <3> QED
      BY <2>2, <3>1, <1>3 DEF ProducerStep, PutChunk
  <2>3. CASE CancelIterator(s)
    BY <2>3 DEF CancelIterator, Producer
  <2>4. CASE CancelSink(s)
    <3>1. PICK k \in Sink, pc \in RunPC : run' = [run EXCEPT ![s].sink = k, ![s].pc = pc]
      BY <2>4 DEF CancelSink, Run, Sink, RunPC
    <3> DEFINE a == [run[s] EXCEPT !.sink = k]
               b == [a EXCEPT !.pc = pc]
    <3>2. b \in Run
      BY RunFields
    <3>3. run' = [run EXCEPT ![s] = b]
      BY <3>1
    <3>4. run' \in [Sessions -> Run]
      BY <3>2, <3>3
    <3> QED
      BY <2>4, <3>4 DEF CancelSink
  <2>5. CASE Start(s)
    <3>1. run' \in [Sessions -> Run]
      BY <2>5, RunFields DEF Start, RunPC
    <3>2. retained' \in [Sessions -> Terminal \cup {"unknown"}]
      BY <2>5 DEF Start, Purged
    <3> QED
      BY <2>5, <3>1, <3>2 DEF Start
  <2>6. CASE Cancel(s)
    BY <2>6 DEF Cancel, SignalCancel, Purged
  <2>7. CASE Expire(s)
    BY <2>7 DEF Expire
  <2> QED
    BY <2>1, <2>2, <2>3, <2>4, <2>5, <2>6, <2>7 DEF ProducerStep, CancelStep
<1> QED
  BY <1>1, <1>2, <1>4 DEF Types, PlaybacksTypeOK, playbacks, synchronous

\* So do playbacks, their watchers and stop().
LEMMA PlaybackKeepsTypes ==
  ASSUME Types, PlaybackStep, UNCHANGED <<streams, synchronous>>
  PROVE  Types'
<1> USE DEF PlaybacksTypeOK, Types
<1>1. used' \in Nat /\ owner' \in Sessions \cup Plays \cup Files \cup {None}
  BY DEF PlaybackStep, WorkerStep, PlayAcquire, PlayOpen, PlayRegister, PlayAbandon, PlayWait,
     PlayDiscard, PlayRelease, CloseAlias, NativeEnds, Watch, StopCancel, StopSignal,
     StopSnapshot, AcquirePlayback, ReleasePlayback, coordinator
<1>2. PlaybacksTypeOK'
  <2>1. ASSUME NEW d \in Plays, WorkerStep(d) PROVE PlaybacksTypeOK'
    <3> USE DEF Goes, PlayPC
    <3>1. CASE PlayAcquire(d) \/ PlayOpen(d) \/ PlayWait(d) \/ PlayRelease(d)
      BY <3>1 DEF PlayAcquire, PlayOpen, PlayWait, PlayRelease
    <3>2. CASE PlayRegister(d) \/ PlayDiscard(d)
      BY <3>2 DEF PlayRegister, PlayDiscard
    <3>3. CASE PlayAbandon(d)
      BY <3>3 DEF PlayAbandon, Finishes
    <3> QED
      BY <2>1, <3>1, <3>2, <3>3 DEF WorkerStep
  <2>2. ASSUME NEW d \in Plays, CloseAlias(d) \/ NativeEnds(d) PROVE PlaybacksTypeOK'
    BY <2>2 DEF CloseAlias, NativeEnds
  <2>3. ASSUME NEW d \in Plays, Watch(d) PROVE PlaybacksTypeOK'
    BY <2>3 DEF Watch, Finishes
  <2>4. ASSUME NEW d \in Plays, StopCancel(d) PROVE PlaybacksTypeOK'
    BY <2>4 DEF StopCancel, Finishes
  <2>5. CASE StopSignal \/ StopSnapshot
    BY <2>5 DEF StopSignal, StopSnapshot
  <2> QED
    BY <2>1, <2>2, <2>3, <2>4, <2>5 DEF PlaybackStep
<1> QED
  BY <1>1, <1>2 DEF StreamsTypeOK, streams, synchronous

\* And the synchronous tools.
LEMMA ToolsKeepTypes ==
  ASSUME Types, UNCHANGED <<streams, playbacks>>,
         (\E c \in Calls : CallStep(c)) \/ (\E f \in Files : ToolStep(f))
  PROVE  Types'
<1> USE DEF Types, coordinator
<1>1. ASSUME NEW c \in Calls, CallStep(c)
      PROVE  used' \in Nat /\ UNCHANGED <<owner, tool>> /\ call' \in [Calls -> Call]
  BY <1>1, StreamingAssumption DEF CallStep, CallReads, CallReserves, CallRequests, CallReturns,
     CallGoes, Call, Reserve, Charge, ReturnQuota
<1>2. ASSUME NEW f \in Files, ToolStep(f)
      PROVE  /\ UNCHANGED <<used, call>>
             /\ owner' \in Sessions \cup Plays \cup Files \cup {None}
             /\ tool' \in [Files -> {"acquire", "play", "release", "done"}]
  BY <1>2 DEF ToolStep, ToolAcquires, ToolPlays, ToolReleases, ToolGoes, AcquirePlayback,
     ReleasePlayback
<1> QED
  BY <1>1, <1>2 DEF StreamsTypeOK, PlaybacksTypeOK, streams, playbacks

-----------------------------------------------------------------------------
(* What the steps do to a thread's locals, field by field.                 *)

\* The thread goes to pc and keeps what is not a program counter, but for its
\* snapshot of the quota.
Moves(s, pc) ==
  /\ run'[s].pc = pc
  /\ run'[s].quota = run[s].quota
  /\ run'[s].playback = run[s].playback
  /\ run'[s].sink = run[s].sink
  /\ run'[s].written = run[s].written
  /\ run'[s].end = run[s].end

\* It goes to its finally block.
Fails(s) ==
  /\ run'[s].pc = "drain"
  /\ run'[s].quota = run[s].quota
  /\ run'[s].playback = run[s].playback
  /\ run'[s].sink = run[s].sink
  /\ run'[s].written = run[s].written
  /\ run'[s].end = "failed"

\* A step of a thread changes that thread only.
LEMMA OtherRuns ==
  ASSUME run \in [Sessions -> Run], NEW s \in Sessions, RunStep(s) \/ CancelSink(s) \/ Start(s)
  PROVE  \A r \in Sessions \ {s} : run'[r] = run[r]
<1>1. CASE ReadQuota(s) \/ ReserveQuota(s) \/ AcquireLease(s) \/ OpenSink(s) \/ StartSink(s)
  BY <1>1 DEF ReadQuota, ReserveQuota, AcquireLease, OpenSink, StartSink, Fail
<1>2. CASE LoopTest(s) \/ CheckDeadline(s) \/ CheckCancelled(s) \/ GetChunk(s) \/ WriteChunk(s)
  BY <1>2 DEF LoopTest, CheckDeadline, CheckCancelled, GetChunk, WriteChunk, Fail, Advance
<1>3. CASE Join(s) \/ Drain(s) \/ TearDown(s) \/ ReleaseLease(s) \/ ReleaseQuota(s) \/ Finish(s)
  BY <1>3 DEF Join, Drain, TearDown, ReleaseLease, ReleaseQuota, Finish, Advance
<1> QED
  BY <1>1, <1>2, <1>3 DEF RunStep, CancelSink, Start

\* Up to the loop.
LEMMA BeginEffects ==
  ASSUME run \in [Sessions -> Run], NEW s \in Sessions
  PROVE  /\ Start(s) => run[s].pc = "new" /\ Moves(s, "read")
         /\ ReadQuota(s) => run[s].pc = "read" /\ (Moves(s, "reserve") \/ Fails(s))
         /\ ReserveQuota(s) =>
              /\ run[s].pc = "reserve"
              /\ \/ /\ Admits(Characters, run[s].seen)
                    /\ Reserve(Characters)
                    /\ run'[s].quota = TRUE
                    /\ run'[s].pc = "acquire"
                    /\ run'[s].playback = run[s].playback
                    /\ run'[s].sink = run[s].sink
                    /\ run'[s].written = run[s].written
                    /\ run'[s].end = run[s].end
                 \/ Fails(s) /\ UNCHANGED coordinator
         /\ AcquireLease(s) =>
              /\ run[s].pc = "acquire"
              /\ run'[s].playback = TRUE
              /\ run'[s].pc = "open"
              /\ run'[s].quota = run[s].quota
              /\ run'[s].sink = run[s].sink
              /\ run'[s].written = run[s].written
              /\ run'[s].end = run[s].end
         /\ OpenSink(s) =>
              /\ run[s].pc = "open"
              /\ \/ /\ run'[s].sink = "open"
                    /\ run'[s].pc = "begin"
                    /\ run'[s].quota = run[s].quota
                    /\ run'[s].playback = run[s].playback
                    /\ run'[s].written = run[s].written
                    /\ run'[s].end = run[s].end
                 \/ Fails(s)
         /\ StartSink(s) =>
              /\ run[s].pc = "begin"
              /\ \/ /\ run'[s].sink = "playing"
                    /\ run'[s].pc = "loop"
                    /\ run'[s].quota = run[s].quota
                    /\ run'[s].playback = run[s].playback
                    /\ run'[s].written = run[s].written
                    /\ run'[s].end = run[s].end
                    /\ producer' = [producer EXCEPT ![s].pc = "connect"]
                 \/ Fails(s) /\ UNCHANGED producer
<1> USE DEF Run, Moves, Fails, Fail
<1>1. Start(s) => run[s].pc = "new" /\ Moves(s, "read")
  BY DEF Start
<1>2. ReadQuota(s) => run[s].pc = "read" /\ (Moves(s, "reserve") \/ Fails(s))
  BY DEF ReadQuota
<1> QED
  BY <1>1, <1>2 DEF ReserveQuota, AcquireLease, OpenSink, StartSink

\* In the loop.
LEMMA LoopEffects ==
  ASSUME run \in [Sessions -> Run], NEW s \in Sessions
  PROVE  /\ LoopTest(s) =>
              \/ /\ run[s].pc = "loop"
                 /\ \/ producer[s].pc = "done" /\ Moves(s, "drained")
                    \/ producer[s].pc # "done" /\ Moves(s, "deadline")
              \/ /\ run[s].pc = "drained"
                 /\ (pcm[s] = 0 /\ Moves(s, "join")) \/ (pcm[s] # 0 /\ Moves(s, "deadline"))
         /\ CheckDeadline(s) => run[s].pc \in {"deadline", "write"} /\ Moves(s, "cancelling")
         /\ CheckCancelled(s) =>
              /\ run[s].pc = "deadline"
              /\ (cancelled[s] /\ Moves(s, "join")) \/ (~cancelled[s] /\ Moves(s, "get"))
         /\ GetChunk(s) =>
              /\ run[s].pc = "get"
              /\ \/ pcm[s] = 0 /\ Moves(s, "loop") /\ UNCHANGED pcm
                 \/ /\ pcm[s] # 0
                    /\ Moves(s, "write")
                    /\ pcm' = [pcm EXCEPT ![s] = @ - 1]
         /\ WriteChunk(s) =>
              /\ run[s].pc = "write"
              /\ \/ /\ run'[s].written = run[s].written + 1
                    /\ run'[s].pc = "loop"
                    /\ run'[s].quota = run[s].quota
                    /\ run'[s].playback = run[s].playback
                    /\ run'[s].sink = run[s].sink
                    /\ run'[s].end = run[s].end
                 \/ Fails(s)
<1> USE DEF Run, Moves, Advance
<1>1. \A pc : Advance(s, pc) => Moves(s, pc)
  OBVIOUS
<1> HIDE DEF Moves, Advance
<1>2. LoopTest(s) =>
        \/ /\ run[s].pc = "loop"
           /\ \/ producer[s].pc = "done" /\ Moves(s, "drained")
              \/ producer[s].pc # "done" /\ Moves(s, "deadline")
        \/ /\ run[s].pc = "drained"
           /\ (pcm[s] = 0 /\ Moves(s, "join")) \/ (pcm[s] # 0 /\ Moves(s, "deadline"))
  <2>1. LoopTest(s) =>
          \/ run[s].pc = "loop" /\ producer[s].pc = "done" /\ Advance(s, "drained")
          \/ run[s].pc = "loop" /\ producer[s].pc # "done" /\ Advance(s, "deadline")
          \/ run[s].pc = "drained" /\ pcm[s] = 0 /\ Advance(s, "join")
          \/ run[s].pc = "drained" /\ pcm[s] # 0 /\ Advance(s, "deadline")
    BY DEF LoopTest
  <2> QED
    BY <1>1, <2>1
<1>3. CheckDeadline(s) => run[s].pc \in {"deadline", "write"} /\ Moves(s, "cancelling")
  BY <1>1 DEF CheckDeadline
<1>4. CheckCancelled(s) =>
        /\ run[s].pc = "deadline"
        /\ (cancelled[s] /\ Moves(s, "join")) \/ (~cancelled[s] /\ Moves(s, "get"))
  <2>1. CheckCancelled(s) =>
          /\ run[s].pc = "deadline"
          /\ (cancelled[s] /\ Advance(s, "join")) \/ (~cancelled[s] /\ Advance(s, "get"))
    BY DEF CheckCancelled
  <2> QED
    BY <1>1, <2>1
<1>5. GetChunk(s) =>
        /\ run[s].pc = "get"
        /\ \/ pcm[s] = 0 /\ Moves(s, "loop") /\ UNCHANGED pcm
           \/ /\ pcm[s] # 0
              /\ Moves(s, "write")
              /\ pcm' = [pcm EXCEPT ![s] = @ - 1]
  BY <1>1 DEF GetChunk
<1> QED
  BY <1>2, <1>3, <1>4, <1>5 DEF WriteChunk, Fail, Fails

\* From the loop's end to the thread's.
LEMMA EndEffects ==
  ASSUME run \in [Sessions -> Run], NEW s \in Sessions
  PROVE  /\ Join(s) =>
              /\ run[s].pc = "join"
              /\ run'[s].pc = "drain"
              /\ run'[s].end = IF cancelled[s] THEN "cancelled"
                               ELSE IF producer[s].error THEN "failed" ELSE "completed"
              /\ run'[s].quota = run[s].quota
              /\ run'[s].playback = run[s].playback
              /\ run'[s].sink = run[s].sink
              /\ run'[s].written = run[s].written
         /\ Drain(s) => run[s].pc = "drain" /\ Moves(s, "teardown")
         /\ TearDown(s) =>
              /\ run[s].pc = "teardown"
              /\ run'[s].pc = "unlock"
              /\ run'[s].sink \in {"none", "closed"}
              /\ run'[s].quota = run[s].quota
              /\ run'[s].playback = run[s].playback
              /\ run'[s].written = run[s].written
              /\ run'[s].end = run[s].end
         /\ ReleaseLease(s) =>
              /\ run[s].pc = "unlock"
              /\ run'[s].pc = "return"
              /\ run'[s].playback = FALSE
              /\ run'[s].quota = run[s].quota
              /\ run'[s].sink = run[s].sink
              /\ run'[s].written = run[s].written
              /\ run'[s].end = run[s].end
         /\ ReleaseQuota(s) =>
              /\ run[s].pc = "return"
              /\ run'[s].pc = "finish"
              /\ run'[s].quota = FALSE
              /\ run'[s].playback = run[s].playback
              /\ run'[s].sink = run[s].sink
              /\ run'[s].written = run[s].written
              /\ run'[s].end = run[s].end
         /\ Finish(s) =>
              /\ run[s].pc = "finish"
              /\ run'[s].pc = "ended"
              /\ run'[s].quota = FALSE
              /\ run'[s].playback = FALSE
              /\ run'[s].sink = "none"
              /\ run'[s].end = "none"
         /\ CancelSink(s) =>
              /\ IF run[s].pc = "cancelling" THEN run'[s].pc = "join" ELSE run'[s].pc = run[s].pc
              /\ run'[s].sink \in {run[s].sink, "aborted"}
              /\ run'[s].quota = run[s].quota
              /\ run'[s].playback = run[s].playback
              /\ run'[s].written = run[s].written
              /\ run'[s].end = run[s].end
BY DEF Run, Moves, Join, Drain, Advance, TearDown, ReleaseLease, ReleaseQuota, Finish, NoLocals,
   CancelSink

-----------------------------------------------------------------------------
(* The span of a reservation and of a session's outcome.                   *)

\* Every step of a session keeps the spans.
LEMMA SpanKept ==
  ASSUME Types, SpanInv, StreamStep
  PROVE  SpanInv'
<1> PICK s \in Sessions :
      \/ RunStep(s) \/ ProducerStep(s) \/ CancelStep(s)
      \/ Start(s) \/ Cancel(s) \/ Expire(s)
  BY DEF StreamStep
<1>1. run \in [Sessions -> Run] /\ Span(s)
  BY DEF Types, StreamsTypeOK, SpanInv, Span
<1>2. CASE RunStep(s) \/ CancelSink(s) \/ Start(s)
  <2>1. Span(s)'
    <3>1. CASE Start(s) \/ ReadQuota(s) \/ ReserveQuota(s) \/ AcquireLease(s) \/ OpenSink(s)
               \/ StartSink(s)
      BY <3>1, <1>1, BeginEffects DEF Span, Moves, Fails
    <3>2. CASE LoopTest(s) \/ CheckDeadline(s) \/ CheckCancelled(s) \/ GetChunk(s)
               \/ WriteChunk(s)
      BY <3>2, <1>1, LoopEffects DEF Span, Moves, Fails
    <3>3. CASE Join(s) \/ Drain(s) \/ TearDown(s) \/ ReleaseLease(s) \/ ReleaseQuota(s)
               \/ Finish(s) \/ CancelSink(s)
      BY <3>3, <1>1, EndEffects DEF Span, Moves
    <3> QED
      BY <1>2, <3>1, <3>2, <3>3 DEF RunStep
  <2> QED
    BY <1>1, <1>2, <2>1, OtherRuns DEF SpanInv, Span
<1>3. CASE ProducerStep(s) \/ CancelIterator(s) \/ Cancel(s) \/ Expire(s)
  BY <1>3 DEF ProducerStep, Connect, NextChunk, PutChunk, EndProducer, QuietProducer,
     CancelIterator, Cancel, Expire, SpanInv, Span
<1> QED
  BY <1>2, <1>3 DEF CancelStep

-----------------------------------------------------------------------------
(* The ledger.                                                             *)

StreamLoans == {s \in Sessions : run[s].quota}
CallLoans == {c \in Calls : call[c].pc \in {"request", "return"}}

\* The borrowers are finitely many sessions and calls.
LEMMA LoansCounted ==
  /\ IsFiniteSet(StreamLoans) /\ Cardinality(StreamLoans) \in Nat
  /\ IsFiniteSet(CallLoans) /\ Cardinality(CallLoans) \in Nat
  /\ Loans = Cardinality(StreamLoans) + Cardinality(CallLoans)
<1>1. StreamLoans \subseteq Sessions /\ CallLoans \subseteq Calls
  BY DEF StreamLoans, CallLoans
<1>2. IsFiniteSet(StreamLoans) /\ IsFiniteSet(CallLoans)
  BY <1>1, SpeechAssumption, FS_Subset
<1> QED
  BY <1>2, FS_CardinalityType DEF Loans, StreamLoans, CallLoans

\* Nobody borrows and nobody returns.
LEMMA LedgerStays ==
  ASSUME QuotaLedger, reserved' = reserved, StreamLoans' = StreamLoans, CallLoans' = CallLoans
  PROVE  QuotaLedger'
<1>1. Loans' = Loans
  BY DEF Loans, StreamLoans, CallLoans
<1> QED
  BY <1>1 DEF QuotaLedger

\* One borrows within the limit ...
LEMMA LedgerGrows ==
  ASSUME QuotaLedger, reserved' = reserved + Characters, reserved' <= Limit, Loans' = Loans + 1
  PROVE  QuotaLedger'
<1>1. Loans \in Nat
  BY LoansCounted
<1>2. Characters * (Loans + 1) = Characters * Loans + Characters
  BY <1>1, StreamingAssumption
<1> QED
  BY <1>2 DEF QuotaLedger

\* ... or one returns.
LEMMA LedgerShrinks ==
  ASSUME QuotaLedger, NEW L \in Nat, Loans = L + 1, Loans' = L, reserved' = reserved - Characters
  PROVE  QuotaLedger'
<1>1. Characters * (L + 1) = Characters * L + Characters /\ Characters * L \in Nat
  BY StreamingAssumption
<1> QED
  BY <1>1, StreamingAssumption, CoordinatorAssumption DEF QuotaLedger

\* A session reserves once, and returns what it reserved.
LEMMA StreamsKeepLedger ==
  ASSUME Types, SpanInv, QuotaLedger, StreamStep, UNCHANGED <<playbacks, synchronous>>
  PROVE  QuotaLedger'
<1> PICK s \in Sessions :
      \/ RunStep(s) \/ ProducerStep(s) \/ CancelStep(s)
      \/ Start(s) \/ Cancel(s) \/ Expire(s)
  BY DEF StreamStep
<1>1. run \in [Sessions -> Run] /\ run[s].quota \in BOOLEAN /\ Span(s)
  BY DEF Types, StreamsTypeOK, SpanInv, Span, Run
<1>2. CallLoans' = CallLoans
  BY DEF CallLoans, synchronous
<1>3. CASE RunStep(s) \/ CancelSink(s) \/ Start(s)
  <2>1. \A r \in Sessions \ {s} : run'[r] = run[r]
    BY <1>1, <1>3, OtherRuns
  <2>2. CASE reserved' = reserved /\ run'[s].quota = run[s].quota
    <3>1. StreamLoans' = StreamLoans
      BY <2>1, <2>2 DEF StreamLoans
    <3> QED
      BY <1>2, <2>2, <3>1, LedgerStays
  <2>3. CASE ReserveQuota(s) /\ run'[s].quota # run[s].quota
    <3>1. /\ run[s].quota = FALSE /\ run'[s].quota = TRUE
          /\ Admits(Characters, run[s].seen) /\ Reserve(Characters)
      BY <1>1, <2>3, BeginEffects DEF Span, Fails
    <3>2. StreamLoans' = StreamLoans \cup {s} /\ s \notin StreamLoans
      BY <2>1, <3>1 DEF StreamLoans
    <3>3. Loans' = Loans + 1
      <4>1. Cardinality(StreamLoans') = Cardinality(StreamLoans) + 1
        BY <3>2, LoansCounted, FS_AddElement
      <4>2. Loans' = Cardinality(StreamLoans') + Cardinality(CallLoans')
        BY DEF Loans, StreamLoans, CallLoans
      <4> QED
        BY <4>1, <4>2, <1>2, LoansCounted
    <3>4. reserved' = reserved + Characters /\ reserved' <= Limit
      <4>1. run[s].seen \in Nat /\ Characters * Loans \in Nat
        BY <1>1, LoansCounted, StreamingAssumption DEF Run
      <4> QED
        BY <3>1, <4>1, StreamingAssumption, CoordinatorAssumption
        DEF Admits, Reserve, QuotaLedger
    <3> QED
      BY <3>3, <3>4, LedgerGrows
  <2>4. CASE ReleaseQuota(s) /\ run[s].quota
    <3>1. run'[s].quota = FALSE /\ reserved' = reserved - Characters
      BY <1>1, <2>4, EndEffects DEF ReleaseQuota, ReturnQuota
    <3>2. StreamLoans' = StreamLoans \ {s} /\ s \in StreamLoans
      BY <2>1, <2>4, <3>1 DEF StreamLoans
    <3> DEFINE L == Cardinality(StreamLoans) - 1 + Cardinality(CallLoans)
    <3>3. L \in Nat /\ Loans = L + 1 /\ Loans' = L
      <4>1. Cardinality(StreamLoans') = Cardinality(StreamLoans) - 1
            /\ Cardinality(StreamLoans') \in Nat
        BY <3>2, LoansCounted, FS_RemoveElement, FS_CardinalityType
      <4>2. Loans' = Cardinality(StreamLoans') + Cardinality(CallLoans')
        BY DEF Loans, StreamLoans, CallLoans
      <4> QED
        BY <4>1, <4>2, <1>2, LoansCounted
    <3> QED
      BY <3>1, <3>3, LedgerShrinks
  <2>5. \/ reserved' = reserved /\ run'[s].quota = run[s].quota
        \/ ReserveQuota(s) /\ run'[s].quota # run[s].quota
        \/ ReleaseQuota(s) /\ run[s].quota
    <3>1. CASE Start(s) \/ ReadQuota(s) \/ AcquireLease(s) \/ OpenSink(s) \/ StartSink(s)
      <4>1. reserved' = reserved
        BY <3>1
        DEF Start, ReadQuota, AcquireLease, OpenSink, StartSink, AcquirePlayback,
            coordinator
      <4> QED
        BY <3>1, <4>1, <1>1, BeginEffects DEF Moves, Fails
    <3>2. CASE ReserveQuota(s)
      BY <3>2, <1>1, BeginEffects DEF Span, Fails, coordinator
    <3>3. CASE LoopTest(s) \/ CheckDeadline(s) \/ CheckCancelled(s) \/ GetChunk(s)
               \/ WriteChunk(s)
      <4>1. reserved' = reserved
        BY <3>3 DEF LoopTest, CheckDeadline, CheckCancelled, GetChunk, WriteChunk, coordinator
      <4> QED
        BY <3>3, <4>1, <1>1, LoopEffects DEF Moves, Fails
    <3>4. CASE Join(s) \/ Drain(s) \/ TearDown(s) \/ ReleaseLease(s) \/ Finish(s) \/ CancelSink(s)
      <4>1. reserved' = reserved
        BY <3>4
        DEF Join, Drain, TearDown, ReleaseLease, Finish, CancelSink, ReleasePlayback,
            coordinator
      <4> QED
        BY <3>4, <4>1, <1>1, EndEffects DEF Moves, Span
    <3>5. CASE ReleaseQuota(s)
      BY <3>5, <1>1, EndEffects DEF ReleaseQuota, coordinator
    <3> QED
      BY <1>3, <3>1, <3>2, <3>3, <3>4, <3>5 DEF RunStep
  <2> QED
    BY <2>2, <2>3, <2>4, <2>5
<1>4. CASE ProducerStep(s) \/ CancelIterator(s) \/ Cancel(s) \/ Expire(s)
  <2>1. UNCHANGED <<run, reserved>>
    BY <1>4 DEF ProducerStep, Connect, NextChunk, PutChunk, EndProducer, QuietProducer,
       CancelIterator, Cancel, Expire, Charge, coordinator
  <2> QED
    BY <1>2, <2>1, LedgerStays DEF StreamLoans
<1> QED
  BY <1>3, <1>4 DEF CancelStep

\* A call reserves once, and returns what it reserved.
LEMMA CallsKeepLedger ==
  ASSUME Types, QuotaLedger, NEW c \in Calls, CallStep(c), UNCHANGED streams
  PROVE  QuotaLedger'
<1>1. call \in [Calls -> Call] /\ call[c].seen \in Nat
  BY DEF Types, Call
<1>2. StreamLoans' = StreamLoans
  BY DEF StreamLoans, streams
<1>3. \A b \in Calls \ {c} : call'[b] = call[b]
  BY <1>1 DEF CallStep, CallReads, CallReserves, CallRequests, CallReturns, CallGoes
<1>4. \A pc : CallGoes(c, pc) => call'[c].pc = pc
  BY <1>1 DEF CallGoes
<1>5. CASE CallReads(c)
  <2>1. call[c].pc = "read" /\ call'[c].pc \in {"reserve", "done"} /\ UNCHANGED reserved
    BY <1>1, <1>5 DEF CallReads, CallGoes, coordinator
  <2>2. CallLoans' = CallLoans
    BY <1>3, <2>1 DEF CallLoans
  <2> QED
    BY <1>2, <2>1, <2>2, LedgerStays
<1>6. CASE CallReserves(c)
  <2>1. CASE Admits(Characters, call[c].seen)
    <3>1. call[c].pc = "reserve" /\ call'[c].pc = "request" /\ reserved' = reserved + Characters
      BY <1>1, <1>6, <2>1 DEF CallReserves, CallGoes, Reserve
    <3>2. CallLoans' = CallLoans \cup {c} /\ c \notin CallLoans
      BY <1>3, <3>1 DEF CallLoans
    <3>3. Loans' = Loans + 1
      <4>1. Cardinality(CallLoans') = Cardinality(CallLoans) + 1
        BY <3>2, LoansCounted, FS_AddElement
      <4>2. Loans' = Cardinality(StreamLoans') + Cardinality(CallLoans')
        BY DEF Loans, StreamLoans, CallLoans
      <4> QED
        BY <4>1, <4>2, <1>2, LoansCounted
    <3>4. reserved' <= Limit
      <4>1. Characters * Loans \in Nat
        BY LoansCounted, StreamingAssumption
      <4> QED
        BY <1>1, <2>1, <3>1, <4>1, StreamingAssumption, CoordinatorAssumption
        DEF Admits, QuotaLedger
    <3> QED
      BY <3>1, <3>3, <3>4, LedgerGrows
  <2>2. CASE ~Admits(Characters, call[c].seen)
    <3>1. call[c].pc = "reserve" /\ call'[c].pc = "done" /\ UNCHANGED reserved
      BY <1>1, <1>6, <2>2 DEF CallReserves, CallGoes, coordinator
    <3>2. CallLoans' = CallLoans
      BY <1>3, <3>1 DEF CallLoans
    <3> QED
      BY <1>2, <3>1, <3>2, LedgerStays
  <2> QED
    BY <2>1, <2>2
<1>7. CASE CallRequests(c)
  <2>1. call[c].pc = "request" /\ call'[c].pc = "return" /\ UNCHANGED reserved
    BY <1>1, <1>7 DEF CallRequests, CallGoes, Charge, coordinator
  <2>2. CallLoans' = CallLoans
    BY <1>3, <2>1 DEF CallLoans
  <2> QED
    BY <1>2, <2>1, <2>2, LedgerStays
<1>8. CASE CallReturns(c)
  <2>1. call[c].pc = "return" /\ call'[c].pc = "done" /\ reserved' = reserved - Characters
    BY <1>1, <1>8 DEF CallReturns, CallGoes, ReturnQuota
  <2>2. CallLoans' = CallLoans \ {c} /\ c \in CallLoans
    BY <1>3, <2>1 DEF CallLoans
  <2> DEFINE L == Cardinality(StreamLoans) + (Cardinality(CallLoans) - 1)
  <2>3. L \in Nat /\ Loans = L + 1 /\ Loans' = L
    <3>1. Cardinality(CallLoans') = Cardinality(CallLoans) - 1 /\ Cardinality(CallLoans') \in Nat
      BY <2>2, LoansCounted, FS_RemoveElement, FS_CardinalityType
    <3>2. Loans' = Cardinality(StreamLoans') + Cardinality(CallLoans')
      BY DEF Loans, StreamLoans, CallLoans
    <3> QED
      BY <3>1, <3>2, <1>2, LoansCounted
  <2> QED
    BY <2>1, <2>3, LedgerShrinks
<1> QED
  BY <1>5, <1>6, <1>7, <1>8 DEF CallStep

-----------------------------------------------------------------------------
(* The playback lease.                                                     *)

\* A session takes a lease that is free and returns the one it holds.
LEMMA StreamsKeepLease ==
  ASSUME Types, LeaseInv, StreamStep, UNCHANGED <<playbacks, synchronous>>
  PROVE  LeaseInv'
<1> PICK s \in Sessions :
      \/ RunStep(s) \/ ProducerStep(s) \/ CancelStep(s)
      \/ Start(s) \/ Cancel(s) \/ Expire(s)
  BY DEF StreamStep
<1>1. /\ run \in [Sessions -> Run] /\ run[s].playback \in BOOLEAN
      /\ \A r \in Sessions : StreamLease(r)
      /\ \A d \in Plays : PlayLease(d)
      /\ \A f \in Files : ToolLease(f)
  BY DEF Types, StreamsTypeOK, LeaseInv, StreamLease, PlayLease, ToolLease, Run
<1>2. CASE UNCHANGED <<run, owner>>
  BY <1>2 DEF LeaseInv, StreamLease, PlayLease, ToolLease, playbacks, synchronous
<1>3. CASE RunStep(s) \/ CancelSink(s) \/ Start(s)
  <2>1. \A r \in Sessions \ {s} : run'[r] = run[r]
    BY <1>1, <1>3, OtherRuns
  <2>2. StreamLease(s)'
    <3>1. CASE Start(s) \/ ReadQuota(s) \/ ReserveQuota(s) \/ OpenSink(s) \/ StartSink(s)
      <4>1. owner' = owner
        BY <3>1 DEF Start, ReadQuota, ReserveQuota, OpenSink, StartSink, Reserve, coordinator
      <4> QED
        BY <3>1, <4>1, <1>1, BeginEffects DEF StreamLease, Streaming, Moves, Fails
    <3>2. CASE AcquireLease(s)
      <4>1. owner' = s
        BY <3>2 DEF AcquireLease, AcquirePlayback
      <4> QED
        BY <3>2, <4>1, <1>1, BeginEffects DEF StreamLease, Streaming
    <3>3. CASE LoopTest(s) \/ CheckDeadline(s) \/ CheckCancelled(s) \/ GetChunk(s)
               \/ WriteChunk(s)
      <4>1. owner' = owner
        BY <3>3 DEF LoopTest, CheckDeadline, CheckCancelled, GetChunk, WriteChunk, coordinator
      <4> QED
        BY <3>3, <4>1, <1>1, LoopEffects DEF StreamLease, Streaming, Moves, Fails
    <3>4. CASE Join(s) \/ Drain(s) \/ TearDown(s) \/ ReleaseQuota(s) \/ Finish(s)
               \/ CancelSink(s)
      <4>1. owner' = owner
        BY <3>4
        DEF Join, Drain, TearDown, ReleaseQuota, Finish, CancelSink, ReturnQuota,
            coordinator
      <4> QED
        BY <3>4, <4>1, <1>1, EndEffects DEF StreamLease, Streaming, Moves
    <3>5. CASE ReleaseLease(s)
      BY <3>5, <1>1, EndEffects DEF StreamLease, Streaming
    <3> QED
      BY <1>3, <3>1, <3>2, <3>3, <3>4, <3>5 DEF RunStep
  <2>3. \/ UNCHANGED owner
        \/ AcquireLease(s) /\ owner = None
        \/ ReleaseLease(s) /\ run[s].playback
    <3>1. CASE Start(s) \/ ReadQuota(s) \/ ReserveQuota(s) \/ OpenSink(s) \/ StartSink(s)
      BY <3>1 DEF Start, ReadQuota, ReserveQuota, OpenSink, StartSink, Reserve, coordinator
    <3>2. CASE LoopTest(s) \/ CheckDeadline(s) \/ CheckCancelled(s) \/ GetChunk(s)
               \/ WriteChunk(s)
      BY <3>2 DEF LoopTest, CheckDeadline, CheckCancelled, GetChunk, WriteChunk, coordinator
    <3>3. CASE Join(s) \/ Drain(s) \/ TearDown(s) \/ ReleaseQuota(s) \/ Finish(s)
               \/ CancelSink(s)
      BY <3>3
      DEF Join, Drain, TearDown, ReleaseQuota, Finish, CancelSink, ReturnQuota, coordinator
    <3>4. CASE AcquireLease(s) \/ ReleaseLease(s)
      BY <3>4, <1>1 DEF AcquireLease, AcquirePlayback, ReleaseLease, coordinator
    <3> QED
      BY <1>3, <3>1, <3>2, <3>3, <3>4 DEF RunStep
  <2>4. \A r \in Sessions \ {s} : StreamLease(r)'
    <3> SUFFICES ASSUME NEW r \in Sessions \ {s}
                 PROVE  StreamLease(r)'
      OBVIOUS
    <3>1. StreamLease(r) /\ run'[r] = run[r]
      BY <1>1, <2>1
    <3>2. UNCHANGED owner \/ ~run[r].playback
      BY <2>3, <1>1, StreamingAssumption DEF StreamLease
    <3> QED
      BY <3>1, <3>2 DEF StreamLease
  <2>5. \A d \in Plays : PlayLease(d)'
    BY <1>1, <2>3, PlaybackAssumption, SpeechAssumption DEF PlayLease, StreamLease, playbacks
  <2>6. \A f \in Files : ToolLease(f)'
    BY <1>1, <2>3, SpeechAssumption DEF ToolLease, StreamLease, synchronous
  <2> QED
    BY <2>2, <2>4, <2>5, <2>6 DEF LeaseInv, StreamLease, PlayLease, ToolLease
<1>4. CASE ProducerStep(s) \/ CancelIterator(s) \/ Cancel(s) \/ Expire(s)
  <2>1. UNCHANGED <<run, owner>>
    BY <1>4 DEF ProducerStep, Connect, NextChunk, PutChunk, EndProducer, QuietProducer,
       CancelIterator, Cancel, Expire, Charge, coordinator
  <2> QED
    BY <1>2, <2>1
<1> QED
  BY <1>3, <1>4 DEF CancelStep

\* So does a playback, which may leave a decided device to its closer.
LEMMA PlaybacksKeepLease ==
  ASSUME Types, LeaseInv, PlaybackStep, UNCHANGED <<streams, synchronous>>
  PROVE  LeaseInv'
<1>1. /\ \A r \in Sessions : StreamLease(r)
      /\ \A d \in Plays : PlayLease(d)
      /\ \A f \in Files : ToolLease(f)
      /\ PlaybacksTypeOK
  BY DEF Types, LeaseInv, StreamLease, PlayLease, ToolLease
<1>2. CASE UNCHANGED owner
  <2>1. \A d \in Plays : PlayLease(d)'
    <3>1. ASSUME NEW d \in Plays, WorkerStep(d)
          PROVE  \A e \in Plays : PlayLease(e)'
      <4> SUFFICES ASSUME NEW e \in Plays
                   PROVE  PlayLease(e)'
        OBVIOUS
      <4> USE <1>1, <1>2 DEF PlayLease, PlaybacksTypeOK, Goes
      <4>1. CASE PlayAcquire(d)
        BY <4>1, PlaybackAssumption DEF PlayAcquire, AcquirePlayback
      <4>2. CASE PlayOpen(d)
        BY <4>2 DEF PlayOpen
      <4>3. CASE PlayRegister(d)
        BY <4>3 DEF PlayRegister
      <4>4. CASE PlayAbandon(d)
        BY <4>4 DEF PlayAbandon, Finishes
      <4>5. CASE PlayWait(d)
        BY <4>5 DEF PlayWait
      <4>6. CASE PlayDiscard(d) \/ PlayRelease(d)
        BY <4>6 DEF PlayDiscard, PlayRelease
      <4> QED
        BY <3>1, <4>1, <4>2, <4>3, <4>4, <4>5, <4>6 DEF WorkerStep
    <3>2. ASSUME NEW d \in Plays, CloseAlias(d) \/ NativeEnds(d) \/ Watch(d) \/ StopCancel(d)
          PROVE  \A e \in Plays : PlayLease(e)'
      BY <3>2, <1>1, <1>2
      DEF PlayLease, PlaybacksTypeOK, CloseAlias, NativeEnds, Watch, StopCancel,
         Finishes
    <3>3. CASE StopSignal \/ StopSnapshot
      BY <3>3, <1>1, <1>2 DEF PlayLease, StopSignal, StopSnapshot
    <3> QED
      BY <3>1, <3>2, <3>3 DEF PlaybackStep
  <2> QED
    BY <1>1, <1>2, <2>1 DEF LeaseInv, StreamLease, PlayLease, ToolLease, streams, synchronous
<1>3. ASSUME NEW d \in Plays, PlayAcquire(d) \/ PlayRelease(d)
      PROVE  LeaseInv'
  <2>1. /\ \A e \in Plays \ {d} : play'[e] = play[e]
        /\ UNCHANGED <<native, completion>>
    BY <1>1, <1>3 DEF PlayAcquire, PlayRelease, Goes, PlaybacksTypeOK
  <2>2. owner = None \/ owner = d
    BY <1>1, <1>3 DEF PlayAcquire, PlayRelease, AcquirePlayback, PlayLease
  <2>3. \A r \in Sessions : StreamLease(r)'
    BY <1>1, <2>2, SpeechAssumption, StreamingAssumption DEF StreamLease, streams
  <2>4. \A f \in Files : ToolLease(f)'
    BY <1>1, <2>2, SpeechAssumption DEF ToolLease, synchronous
  <2>5. \A e \in Plays \ {d} : PlayLease(e)'
    BY <1>1, <2>1, <2>2, PlaybackAssumption DEF PlayLease
  <2>6. PlayLease(d)'
    BY <1>1, <1>3, PlaybackAssumption
   
    DEF PlayLease, PlayAcquire, PlayRelease, AcquirePlayback, ReleasePlayback, Goes,
        PlaybacksTypeOK
  <2> QED
    BY <2>3, <2>4, <2>5, <2>6 DEF LeaseInv, StreamLease, PlayLease, ToolLease
<1>4. UNCHANGED owner \/ \E d \in Plays : PlayAcquire(d) \/ PlayRelease(d)
  BY DEF PlaybackStep, WorkerStep, PlayOpen, PlayRegister, PlayAbandon, PlayWait, PlayDiscard,
     CloseAlias, NativeEnds, Watch, StopCancel, StopSignal, StopSnapshot, coordinator
<1> QED
  BY <1>2, <1>3, <1>4

\* So does play_audio_file.
LEMMA ToolsKeepLease ==
  ASSUME Types, LeaseInv, NEW f \in Files, ToolStep(f), UNCHANGED <<streams, playbacks>>
  PROVE  LeaseInv'
<1>1. /\ \A r \in Sessions : StreamLease(r)
      /\ \A d \in Plays : PlayLease(d)
      /\ \A g \in Files : ToolLease(g)
      /\ tool \in [Files -> {"acquire", "play", "release", "done"}]
  BY DEF Types, LeaseInv, StreamLease, PlayLease, ToolLease
<1>2. \A g \in Files \ {f} : tool'[g] = tool[g]
  BY <1>1 DEF ToolStep, ToolAcquires, ToolPlays, ToolReleases, ToolGoes
<1>3. UNCHANGED owner \/ owner = None \/ owner = f
  BY <1>1
  DEF ToolStep, ToolAcquires, ToolPlays, ToolReleases, AcquirePlayback, ToolLease,
      coordinator
<1>4. \A r \in Sessions : StreamLease(r)'
  BY <1>1, <1>3, SpeechAssumption, StreamingAssumption DEF StreamLease, streams
<1>5. \A d \in Plays : PlayLease(d)'
  BY <1>1, <1>3, SpeechAssumption, PlaybackAssumption DEF PlayLease, playbacks
<1>6. \A g \in Files \ {f} : ToolLease(g)'
  BY <1>1, <1>2, <1>3, SpeechAssumption DEF ToolLease
<1>7. ToolLease(f)'
  BY <1>1
  DEF ToolLease, ToolStep, ToolAcquires, ToolPlays, ToolReleases, ToolGoes, AcquirePlayback,
     coordinator
<1> QED
  BY <1>4, <1>5, <1>6, <1>7 DEF LeaseInv, StreamLease, PlayLease, ToolLease

-----------------------------------------------------------------------------
(* stop().                                                                 *)

\* Registration and the flag of stop() exclude a playback stop() overlooks.
LEMMA PlaybacksKeepStop ==
  ASSUME Types, StopInv, PlaybackStep
  PROVE  StopInv'
<1>1. PlaybacksTypeOK
  BY DEF Types
<1>2. ASSUME NEW d \in Plays, WorkerStep(d)
      PROVE  StopInv'
  <2> USE <1>1 DEF StopInv, PlaybacksTypeOK, Goes
  <2>1. CASE PlayAcquire(d) \/ PlayOpen(d)
    BY <2>1 DEF PlayAcquire, PlayOpen
  <2>2. CASE PlayRegister(d)
    BY <2>2 DEF PlayRegister
  <2>3. CASE PlayAbandon(d)
    BY <2>3 DEF PlayAbandon, Finishes
  <2>4. CASE PlayWait(d) \/ PlayDiscard(d) \/ PlayRelease(d)
    BY <2>4 DEF PlayWait, PlayDiscard, PlayRelease
  <2> QED
    BY <1>2, <2>1, <2>2, <2>3, <2>4 DEF WorkerStep
<1>3. ASSUME NEW d \in Plays, CloseAlias(d) \/ NativeEnds(d) \/ Watch(d)
      PROVE  StopInv'
  BY <1>1, <1>3 DEF StopInv, PlaybacksTypeOK, CloseAlias, NativeEnds, Watch, Finishes
<1>4. ASSUME NEW d \in Plays, StopCancel(d)
      PROVE  StopInv'
  BY <1>1, <1>4 DEF StopInv, PlaybacksTypeOK, StopCancel, Finishes
<1>5. CASE StopSignal
  BY <1>5 DEF StopInv, StopSignal
<1>6. CASE StopSnapshot
  BY <1>6 DEF StopInv, StopSnapshot
<1> QED
  BY <1>2, <1>3, <1>4, <1>5, <1>6 DEF PlaybackStep

-----------------------------------------------------------------------------
(* The chunks.                                                             *)

\* What the steps do to a producer, field by field.
LEMMA ProducerEffects ==
  ASSUME producer \in [Sessions -> Producer], NEW s \in Sessions
  PROVE  /\ Connect(s) =>
              /\ producer[s].pc = "connect"
              /\ producer'[s].pc \in {"next", "close"}
              /\ producer'[s].produced = producer[s].produced
         /\ NextChunk(s) =>
              /\ producer[s].pc = "next"
              /\ \/ /\ producer'[s].produced = producer[s].produced + 1
                    /\ producer'[s].pc = IF cancelled[s] THEN "close" ELSE "put"
                 \/ /\ producer'[s].produced = producer[s].produced
                    /\ producer'[s].pc = "close"
         /\ PutChunk(s) =>
              /\ producer[s].pc = "put"
              /\ producer'[s].pc = "next"
              /\ producer'[s].produced = producer[s].produced
         /\ EndProducer(s) =>
              /\ producer[s].pc = "close"
              /\ producer'[s].pc = "done"
              /\ producer'[s].produced = producer[s].produced
         /\ CancelIterator(s) =>
              /\ producer'[s].pc = producer[s].pc
              /\ producer'[s].produced = producer[s].produced
              /\ producer'[s].error = producer[s].error
         /\ producer' = [producer EXCEPT ![s].pc = "connect"] =>
              /\ producer'[s].pc = "connect"
              /\ producer'[s].produced = producer[s].produced
<1> USE DEF Producer
<1>1. Connect(s) =>
        /\ producer[s].pc = "connect"
        /\ producer'[s].pc \in {"next", "close"}
        /\ producer'[s].produced = producer[s].produced
  BY DEF Connect
<1>2. NextChunk(s) =>
        /\ producer[s].pc = "next"
        /\ \/ /\ producer'[s].produced = producer[s].produced + 1
              /\ producer'[s].pc = IF cancelled[s] THEN "close" ELSE "put"
           \/ /\ producer'[s].produced = producer[s].produced
              /\ producer'[s].pc = "close"
  BY DEF NextChunk
<1> QED
  BY <1>1, <1>2 DEF PutChunk, EndProducer, CancelIterator

\* A step of a session leaves the others their chunks.
LEMMA OtherChunks ==
  ASSUME Types, NEW s \in Sessions,
         \/ RunStep(s) \/ ProducerStep(s) \/ CancelStep(s)
         \/ Start(s) \/ Cancel(s) \/ Expire(s)
  PROVE  \A r \in Sessions \ {s} :
           /\ run'[r] = run[r]
           /\ producer'[r] = producer[r]
           /\ pcm'[r] = pcm[r]
           /\ cancelled'[r] = cancelled[r]
<1> USE DEF Types, StreamsTypeOK
<1>1. \A r \in Sessions \ {s} : run'[r] = run[r]
  <2>1. CASE ProducerStep(s) \/ CancelIterator(s) \/ Cancel(s) \/ Expire(s)
    BY <2>1 DEF ProducerStep, Connect, NextChunk, PutChunk, EndProducer, QuietProducer,
       CancelIterator, Cancel, Expire
  <2> QED
    BY <2>1, OtherRuns DEF CancelStep
<1>2. CASE ReadQuota(s) \/ ReserveQuota(s) \/ AcquireLease(s) \/ OpenSink(s) \/ StartSink(s)
  BY <1>1, <1>2 DEF ReadQuota, ReserveQuota, AcquireLease, OpenSink, StartSink, QuietRun
<1>3. CASE LoopTest(s) \/ CheckDeadline(s) \/ CheckCancelled(s) \/ GetChunk(s) \/ WriteChunk(s)
  BY <1>1, <1>3 DEF LoopTest, CheckDeadline, CheckCancelled, GetChunk, WriteChunk, QuietRun,
     SignalCancel
<1>4. CASE Join(s) \/ Drain(s) \/ TearDown(s) \/ ReleaseLease(s) \/ ReleaseQuota(s) \/ Finish(s)
  BY <1>1, <1>4 DEF Join, Drain, TearDown, ReleaseLease, ReleaseQuota, Finish, QuietRun
<1>5. CASE ProducerStep(s)
  BY <1>1, <1>5 DEF ProducerStep, Connect, NextChunk, PutChunk, EndProducer, QuietProducer
<1>6. CASE CancelStep(s) \/ Start(s) \/ Cancel(s) \/ Expire(s)
  BY <1>1, <1>6 DEF CancelStep, CancelIterator, CancelSink, Start, Cancel, SignalCancel, Expire
<1> QED
  BY <1>2, <1>3, <1>4, <1>5, <1>6 DEF RunStep

\* No step of a session, of its producer or of a canceller loses a chunk.
LEMMA StreamsKeepChunks ==
  ASSUME Types, ChunkInv, StreamStep
  PROVE  ChunkInv'
<1> PICK s \in Sessions :
      \/ RunStep(s) \/ ProducerStep(s) \/ CancelStep(s)
      \/ Start(s) \/ Cancel(s) \/ Expire(s)
  BY DEF StreamStep
<1>1. /\ run \in [Sessions -> Run] /\ run[s].written \in Nat
      /\ producer \in [Sessions -> Producer] /\ producer[s].produced \in Nat
      /\ producer[s].error \in BOOLEAN
      /\ pcm \in [Sessions -> 0 .. PcmQueueSize] /\ pcm[s] \in Nat
      /\ cancelled \in [Sessions -> BOOLEAN]
      /\ Chunks(s)
  BY StreamingAssumption DEF Types, StreamsTypeOK, Run, Producer, ChunkInv, Chunks
<1>2. Chunks(s)'
  <2> USE <1>1 DEF Chunks, InHand
  <2>1. CASE Start(s) \/ ReadQuota(s) \/ ReserveQuota(s) \/ AcquireLease(s) \/ OpenSink(s)
    <3>1. UNCHANGED <<producer, pcm, cancelled>>
      BY <2>1 DEF Start, ReadQuota, ReserveQuota, AcquireLease, OpenSink, QuietRun
    <3>2. CASE Start(s) \/ ReadQuota(s)
      BY <3>1, <3>2, BeginEffects DEF Moves, Fails
    <3>3. CASE ReserveQuota(s)
      BY <3>1, <3>3, BeginEffects DEF Fails
    <3>4. CASE AcquireLease(s)
      BY <3>1, <3>4, BeginEffects
    <3>5. CASE OpenSink(s)
      <4>1. /\ run[s].pc = "open"
            /\ run'[s].written = run[s].written
            /\ \/ run'[s].pc = "begin" /\ run'[s].end = run[s].end
               \/ run'[s].pc = "drain" /\ run'[s].end = "failed"
        BY <3>5, BeginEffects DEF Fails
      <4> QED
        BY <3>1, <4>1
    <3> QED
      BY <2>1, <3>2, <3>3, <3>4, <3>5
  <2>2. CASE StartSink(s)
    <3>1. UNCHANGED <<pcm, cancelled>>
      BY <2>2 DEF StartSink
    <3> QED
      BY <2>2, <3>1, BeginEffects, ProducerEffects DEF Fails
  <2>3. CASE LoopTest(s) \/ CheckCancelled(s) \/ WriteChunk(s)
    <3>1. UNCHANGED <<producer, pcm, cancelled>>
      BY <2>3 DEF LoopTest, CheckCancelled, WriteChunk, QuietRun
    <3> QED
      BY <2>3, <3>1, LoopEffects DEF Moves, Fails
  <2>4. CASE CheckDeadline(s)
    <3>1. UNCHANGED <<producer, pcm>> /\ cancelled'[s]
      BY <2>4 DEF CheckDeadline, SignalCancel
    <3> QED
      BY <2>4, <3>1, LoopEffects DEF Moves
  <2>5. CASE GetChunk(s)
    <3>1. UNCHANGED <<producer, cancelled>>
      BY <2>5 DEF GetChunk
    <3>2. \/ pcm[s] = 0 /\ pcm'[s] = 0 /\ run'[s].pc = "loop"
          \/ pcm'[s] = pcm[s] - 1 /\ run'[s].pc = "write"
      BY <2>5, LoopEffects DEF Moves
    <3> QED
      BY <2>5, <3>1, <3>2, LoopEffects DEF Moves
  <2>6. CASE Join(s) \/ TearDown(s) \/ ReleaseLease(s) \/ ReleaseQuota(s) \/ Finish(s)
    <3>1. UNCHANGED <<producer, pcm, cancelled>>
      BY <2>6 DEF Join, TearDown, ReleaseLease, ReleaseQuota, Finish, QuietRun
    <3>2. CASE Join(s)
      <4>1. /\ run[s].pc = "join"
            /\ run'[s].pc = "drain"
            /\ run'[s].written = run[s].written
            /\ run'[s].end = "completed" => ~cancelled[s] /\ ~producer[s].error
        BY <3>2, EndEffects
      <4>2. ~cancelled[s] => /\ producer[s].pc = "done"
                             /\ producer[s].produced = run[s].written
        BY <4>1
      <4> QED
        BY <3>1, <4>1, <4>2
    <3>3. CASE TearDown(s) \/ ReleaseLease(s) \/ ReleaseQuota(s)
      BY <3>1, <3>3, EndEffects
    <3>4. CASE Finish(s)
      BY <3>1, <3>4, EndEffects
    <3> QED
      BY <2>6, <3>2, <3>3, <3>4
  <2>7. CASE Drain(s)
    <3>1. UNCHANGED <<producer, cancelled>>
      BY <2>7 DEF Drain
    <3> QED
      BY <2>7, <3>1, EndEffects DEF Moves
  <2>8. CASE CancelSink(s)
    <3>1. UNCHANGED <<producer, pcm, cancelled>>
      BY <2>8 DEF CancelSink
    <3> QED
      BY <2>8, <3>1, EndEffects
  <2>9. CASE Connect(s) \/ NextChunk(s) \/ EndProducer(s)
    <3>1. UNCHANGED <<run, pcm, cancelled>>
      BY <2>9 DEF Connect, NextChunk, EndProducer, QuietProducer
    <3> QED
      BY <2>9, <3>1, ProducerEffects
  <2>10. CASE PutChunk(s)
    <3>1. UNCHANGED <<run, cancelled>> /\ (cancelled[s] \/ pcm'[s] = pcm[s] + 1)
      BY <2>10 DEF PutChunk, QuietProducer
    <3> QED
      BY <2>10, <3>1, ProducerEffects
  <2>11. CASE CancelIterator(s)
    <3>1. UNCHANGED <<run, pcm, cancelled>>
      BY <2>11 DEF CancelIterator
    <3> QED
      BY <2>11, <3>1, ProducerEffects
  <2>12. CASE Cancel(s) \/ Expire(s)
    <3>1. UNCHANGED <<run, producer, pcm>> /\ (cancelled'[s] \/ UNCHANGED cancelled)
      BY <2>12 DEF Cancel, SignalCancel, Expire
    <3> QED
      BY <3>1
  <2> QED
    BY <2>1, <2>2, <2>3, <2>4, <2>5, <2>6, <2>7, <2>8, <2>9, <2>10, <2>11, <2>12
    DEF RunStep, ProducerStep, CancelStep
<1>3. \A r \in Sessions \ {s} : Chunks(r)'
  <2>1. \A r \in Sessions : Chunks(r)
    BY DEF ChunkInv, Chunks
  <2> QED
    BY <2>1, OtherChunks DEF Chunks, InHand
<1> QED
  BY <1>2, <1>3 DEF ChunkInv, Chunks

-----------------------------------------------------------------------------
(* The theorems.                                                           *)

\* The invariant holds at first ...
LEMMA InitInv ==
  ASSUME Init
  PROVE  IInv
<1> USE DEF Init, CoordinatorInit, StreamsInit, PlaybacksInit, NoLocals
<1>1. Types
  <2>1. StreamsTypeOK
    <3>1. NoLocals("new") \in Run
      BY DEF Run, RunPC, Sink, Terminal
    <3>2. run \in [Sessions -> Run]
      BY <3>1
    <3>3. producer \in [Sessions -> Producer]
      BY DEF Producer
    <3> QED
      BY <3>2, <3>3, StreamingAssumption DEF StreamsTypeOK
  <2>2. PlaybacksTypeOK
    BY DEF PlaybacksTypeOK, PlayPC
  <2>3. call \in [Calls -> Call]
    BY DEF Call
  <2> QED
    BY <2>1, <2>2, <2>3 DEF Types
<1>2. SpanInv /\ LeaseInv /\ StopInv /\ ChunkInv
  BY
  DEF SpanInv, Span, LeaseInv, StreamLease, PlayLease, ToolLease, Streaming, StopInv,
      ChunkInv, Chunks
<1>3. QuotaLedger
  <2>1. StreamLoans = {} /\ CallLoans = {}
    BY DEF StreamLoans, CallLoans
  <2>2. Loans = 0
    BY <2>1, FS_EmptySet, LoansCounted
  <2> QED
    BY <2>2, StreamingAssumption, CoordinatorAssumption DEF QuotaLedger
<1> QED
  BY <1>1, <1>2, <1>3 DEF IInv

\* ... and every step of every party keeps it.
LEMMA StepInv ==
  ASSUME IInv, Next
  PROVE  IInv'
<1> USE DEF IInv
<1>1. CASE StreamStep /\ UNCHANGED <<playbacks, synchronous>>
  <2>1. Types'
    BY <1>1, StreamKeepsTypes
  <2>2. StopInv'
    BY <1>1 DEF StopInv, playbacks
  <2> QED
    BY <1>1, <2>1, <2>2, SpanKept, StreamsKeepLedger, StreamsKeepLease, StreamsKeepChunks
<1>2. CASE PlaybackStep /\ UNCHANGED <<streams, synchronous>>
  <2>1. Types'
    BY <1>2, PlaybackKeepsTypes
  <2>2. QuotaLedger'
    <3>1. reserved' = reserved
      BY <1>2 DEF PlaybackStep, WorkerStep, PlayAcquire, PlayOpen, PlayRegister, PlayAbandon,
         PlayWait, PlayDiscard, PlayRelease, CloseAlias, NativeEnds, Watch, StopCancel, StopSignal,
         StopSnapshot, AcquirePlayback, ReleasePlayback, coordinator
    <3> QED
      BY <1>2, <3>1, LedgerStays DEF StreamLoans, CallLoans, streams, synchronous
  <2>3. SpanInv' /\ ChunkInv'
    BY <1>2 DEF SpanInv, Span, ChunkInv, Chunks, InHand, streams
  <2> QED
    BY <1>2, <2>1, <2>2, <2>3, PlaybacksKeepLease, PlaybacksKeepStop
<1>3. ASSUME NEW c \in Calls, CallStep(c), UNCHANGED <<streams, playbacks>>
      PROVE  IInv'
  <2>1. Types'
    BY <1>3, ToolsKeepTypes
  <2>2. SpanInv' /\ ChunkInv' /\ StopInv'
    BY <1>3 DEF SpanInv, Span, ChunkInv, Chunks, InHand, StopInv, streams, playbacks
  <2>3. LeaseInv'
    <3>1. UNCHANGED <<owner, tool>>
      BY <1>3 DEF CallStep, CallReads, CallReserves, CallRequests, CallReturns, Reserve, Charge,
         ReturnQuota, coordinator
    <3> QED
      BY <1>3, <3>1 DEF LeaseInv, StreamLease, PlayLease, ToolLease, streams, playbacks
  <2> QED
    BY <1>3, <2>1, <2>2, <2>3, CallsKeepLedger
<1>4. ASSUME NEW f \in Files, ToolStep(f), UNCHANGED <<streams, playbacks>>
      PROVE  IInv'
  <2>1. Types'
    BY <1>4, ToolsKeepTypes
  <2>2. SpanInv' /\ ChunkInv' /\ StopInv'
    BY <1>4 DEF SpanInv, Span, ChunkInv, Chunks, InHand, StopInv, streams, playbacks
  <2>3. QuotaLedger'
    <3>1. UNCHANGED <<reserved, call>>
      BY <1>4 DEF ToolStep, ToolAcquires, ToolPlays, ToolReleases, AcquirePlayback,
         ReleasePlayback, coordinator
    <3> QED
      BY <1>4, <3>1, LedgerStays DEF StreamLoans, CallLoans, streams
  <2> QED
    BY <1>4, <2>1, <2>2, <2>3, ToolsKeepLease
<1> QED
  BY <1>1, <1>2, <1>3, <1>4 DEF Next

\* The invariant is inductive.
LEMMA Inductive == Spec => []IInv
<1>1. Init => IInv
  BY InitInv
<1>2. IInv /\ UNCHANGED vars => IInv'
  <2> SUFFICES ASSUME IInv, UNCHANGED vars
               PROVE  IInv'
    OBVIOUS
  <2>1. UNCHANGED <<coordinator, streams, playbacks, synchronous>>
    BY DEF vars
  <2>2. Types'
    BY <2>1 DEF IInv, Types, StreamsTypeOK, PlaybacksTypeOK, coordinator, streams, playbacks,
       synchronous
  <2>3. QuotaLedger'
    BY <2>1, LedgerStays DEF IInv, StreamLoans, CallLoans, coordinator, streams, synchronous
  <2>4. SpanInv' /\ LeaseInv' /\ StopInv' /\ ChunkInv'
    BY <2>1
    DEF IInv, SpanInv, Span, LeaseInv, StreamLease, PlayLease, ToolLease, StopInv, ChunkInv,
        Chunks, InHand, coordinator, streams,
       playbacks, synchronous
  <2> QED
    BY <2>2, <2>3, <2>4 DEF IInv
<1>3. IInv /\ [Next]_vars => IInv'
  BY <1>2, StepInv
<1> QED
  BY <1>1, <1>3, PTL DEF Spec

\* Every variable keeps its type; the characters reserved are a natural number
\* because the ledger of the coordinator balances.
THEOREM TypesHold == Spec => []TypeOK
<1>1. IInv => TypeOK
  <2> SUFFICES ASSUME IInv
               PROVE  TypeOK
    OBVIOUS
  <2>1. reserved \in Nat
    BY LoansCounted, StreamingAssumption DEF IInv, QuotaLedger
  <2> QED
    BY <2>1 DEF IInv, Types, TypeOK
<1> QED
  BY <1>1, Inductive, PTL

\* What the coordinator has reserved is what sessions and calls have on loan,
\* and never exceeds the limit, however many there are and whatever order the
\* quota is read, reserved, charged and returned in.
THEOREM LedgerBalances == Spec => []QuotaLedger
<1>1. IInv => QuotaLedger
  BY DEF IInv
<1> QED
  BY <1>1, Inductive, PTL

\* A session, a playback or a file that sounds holds the playback lease, or is
\* a playback that has been decided and not yet silenced.
THEOREM AudibleHolds == Spec => []AudibleHoldsLease
<1>1. IInv => AudibleHoldsLease
  BY DEF IInv, LeaseInv, StreamLease, PlayLease, ToolLease, AudibleHoldsLease, Audible
<1> QED
  BY <1>1, Inductive, PTL

\* stop() misses no playback: one that registers after its snapshot cancels
\* itself, so nobody is left waiting for a completion that stop() should decide.
THEOREM StopReaches == Spec => []StopReachesPlayback
<1>1. IInv => StopReachesPlayback
  BY DEF IInv, StopInv, StopReachesPlayback
<1> QED
  BY <1>1, Inductive, PTL

\* A session that ends as completed has played all that its provider sent,
\* whatever the capacity of its queue and the length of the response.
THEOREM CompletedPlayed == Spec => []CompletedPlayedAll
<1>1. IInv => CompletedPlayedAll
  BY DEF IInv, ChunkInv, Chunks, CompletedPlayedAll
<1> QED
  BY <1>1, Inductive, PTL

-----------------------------------------------------------------------------
(* Playback that nothing ends early.                                       *)

\* When no device fails, no watcher times out and nobody stops the worker, a
\* completion is decided only by a device that has come to its end.
Uncut ==
  /\ stopper.pc = "idle"
  /\ \A d \in Plays :
       /\ play[d] # "abandon"
       /\ play[d] \in {"idle", "open"} => watcher[d] = "none"
       /\ watcher[d] = "none" => completion[d] = "none"
       /\ native[d] = "playing" => completion[d] = "none"

\* No step of a playback cuts it short then.
LEMMA UncutStep ==
  ASSUME Endings = {}, PlaybacksTypeOK, Uncut, [Next]_vars
  PROVE  Uncut'
<1> USE DEF Uncut
<1>1. CASE UNCHANGED playbacks
  BY <1>1 DEF playbacks
<1>2. ASSUME NEW d \in Plays, WorkerStep(d)
      PROVE  Uncut'
  <2> USE <1>2 DEF PlaybacksTypeOK, Goes
  <2>1. CASE PlayAcquire(d) \/ PlayOpen(d)
    BY <2>1 DEF PlayAcquire, PlayOpen
  <2>2. CASE PlayRegister(d)
    BY <2>2 DEF PlayRegister
  <2>3. ~PlayAbandon(d)
    BY DEF PlayAbandon
  <2>4. CASE PlayWait(d) \/ PlayDiscard(d) \/ PlayRelease(d)
    BY <2>4 DEF PlayWait, PlayDiscard, PlayRelease
  <2> QED
    BY <2>1, <2>2, <2>3, <2>4 DEF WorkerStep
<1>3. ASSUME NEW d \in Plays, CloseAlias(d) \/ NativeEnds(d) \/ Watch(d) \/ StopCancel(d)
      PROVE  Uncut'
  BY <1>3 DEF PlaybacksTypeOK, CloseAlias, NativeEnds, Watch, StopCancel, Finishes
<1>4. CASE StopSignal \/ StopSnapshot
  BY <1>4 DEF StopSignal, StopSnapshot
<1> QED
  BY <1>1, <1>2, <1>3, <1>4 DEF Next, PlaybackStep, vars

\* Playback never overlaps as long as no playback of the queue is cut short, for
\* any number of sessions, playbacks and files: a waiter that is woken by
\* _finish before the device is silenced is the only way to it (_terminate,
\* _MciPlaybackCompletion).
THEOREM OnlyCutPlaybacksOverlap ==
  ASSUME Endings = {}
  PROVE  Spec => []PlaybackNeverOverlaps
<1>1. Init => Uncut
  BY DEF Init, PlaybacksInit, Uncut
<1>2. IInv /\ Uncut /\ [Next]_vars => Uncut'
  BY UncutStep DEF IInv, Types
<1>3. IInv /\ Uncut => PlaybackNeverOverlaps
  <2> SUFFICES ASSUME IInv, Uncut
               PROVE  PlaybackNeverOverlaps
    OBVIOUS
  <2>1. Audible \subseteq {owner}
    BY DEF IInv, LeaseInv, StreamLease, PlayLease, ToolLease, Audible, Uncut
  <2>2. IsFiniteSet({owner}) /\ Cardinality({owner}) = 1
    BY FS_Singleton
  <2>3. Cardinality(Audible) <= Cardinality({owner})
    BY <2>1, <2>2, FS_Subset
  <2> QED
    BY <2>2, <2>3 DEF PlaybackNeverOverlaps
<1> QED
  BY <1>1, <1>2, <1>3, Inductive, PTL DEF Spec
=============================================================================
