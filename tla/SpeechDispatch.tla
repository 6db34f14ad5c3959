---------------------------- MODULE SpeechDispatch ----------------------------
(***************************************************************************)
(* All speech dispatch of one process around its shared coordinator:       *)
(* streaming sessions, playbacks of finished queue jobs, and the           *)
(* synchronous tools of the MCP server                                     *)
(* (src/src/integrations/elevenlabs/mcp_server.py): text_to_speech calls,  *)
(* which the queue worker's provider calls are like, and play_audio_file.  *)
(***************************************************************************)
EXTENDS StreamingTts, MciPlayback

CONSTANTS
  Calls,  \* synchronous provider calls, of Characters characters each
  Files   \* calls of play_audio_file

ASSUME SpeechAssumption ==
  /\ IsFiniteSet(Sessions)
  /\ IsFiniteSet(Calls)
  /\ None \notin Files
  /\ Sessions \cap Plays = {}
  /\ Sessions \cap Files = {}
  /\ Plays \cap Files = {}

VARIABLES
  call,  \* call[c]: where text_to_speech or _invoke_provider stands
  tool   \* tool[f]: where play_audio_file stands

synchronous == <<call, tool>>
vars == <<coordinator, streams, playbacks, synchronous>>

Call == [pc : {"read", "reserve", "request", "return", "done"}, seen : Nat]

Init ==
  /\ CoordinatorInit
  /\ StreamsInit
  /\ PlaybacksInit
  /\ call = [c \in Calls |-> [pc |-> "read", seen |-> 0]]
  /\ tool = [f \in Files |-> "acquire"]

TypeOK ==
  /\ used \in Nat
  /\ reserved \in Nat
  /\ owner \in Sessions \cup Plays \cup Files \cup {None}
  /\ StreamsTypeOK
  /\ PlaybacksTypeOK
  /\ call \in [Calls -> Call]
  /\ tool \in [Files -> {"acquire", "play", "release", "done"}]

-----------------------------------------------------------------------------
(* text_to_speech, text_to_speech_base64 and _invoke_provider.             *)

CallGoes(c, pc) == call' = [call EXCEPT ![c] = [pc |-> pc, seen |-> 0]]

\* reserve_quota reads the quota, or fails to.
CallReads(c) ==
  /\ call[c].pc = "read"
  /\ \/ Readable /\ call' = [call EXCEPT ![c] = [pc |-> "reserve", seen |-> used]]
     \/ CallGoes(c, "done")
  /\ UNCHANGED <<coordinator, tool>>

\* ... and takes the quota lock only then.
CallReserves(c) ==
  /\ call[c].pc = "reserve"
  /\ IF Admits(Characters, call[c].seen)
     THEN Reserve(Characters) /\ CallGoes(c, "request")
     ELSE UNCHANGED coordinator /\ CallGoes(c, "done")
  /\ UNCHANGED tool

\* The provider accepts the request and charges it, or refuses it.
CallRequests(c) ==
  /\ call[c].pc = "request"
  /\ Charge(Characters) \/ UNCHANGED coordinator
  /\ CallGoes(c, "return")
  /\ UNCHANGED tool

\* Mutant: the reservation is given back only when the request succeeded.
CallReturns_OnSuccess(c) ==
  /\ call[c].pc = "return"
  /\ ReturnQuota(Characters) \/ UNCHANGED coordinator
  /\ CallGoes(c, "done")
  /\ UNCHANGED tool

CallReturns(c) ==
  /\ call[c].pc = "return"
  /\ ReturnQuota(Characters)
  /\ CallGoes(c, "done")
  /\ UNCHANGED tool

-----------------------------------------------------------------------------
(* play_audio_file.                                                        *)

ToolGoes(f, pc) == tool' = [tool EXCEPT ![f] = pc]

ToolAcquires(f) ==
  /\ tool[f] = "acquire"
  /\ AcquirePlayback(f)
  /\ ToolGoes(f, "play")
  /\ UNCHANGED call

\* play ... wait returns when the audio is over; the alias is closed.
ToolPlays(f) ==
  /\ tool[f] = "play"
  /\ ToolGoes(f, "release")
  /\ UNCHANGED <<coordinator, call>>

ToolReleases(f) ==
  /\ tool[f] = "release"
  /\ ReleasePlayback
  /\ ToolGoes(f, "done")
  /\ UNCHANGED call

-----------------------------------------------------------------------------
CallStep(c) == CallReads(c) \/ CallReserves(c) \/ CallRequests(c) \/ CallReturns(c)
ToolStep(f) == ToolAcquires(f) \/ ToolPlays(f) \/ ToolReleases(f)

Next ==
  \/ StreamStep /\ UNCHANGED <<playbacks, synchronous>>
  \/ PlaybackStep /\ UNCHANGED <<streams, synchronous>>
  \/ \E c \in Calls : CallStep(c) /\ UNCHANGED <<streams, playbacks>>
  \/ \E f \in Files : ToolStep(f) /\ UNCHANGED <<streams, playbacks>>

Spec == Init /\ [][Next]_vars

-----------------------------------------------------------------------------
(* Safety.                                                                 *)

\* The reservations on loan.
Loans ==
  Cardinality({s \in Sessions : run[s].quota})
  + Cardinality({c \in Calls : call[c].pc \in {"request", "return"}})

\* The ledger of the coordinator is exactly what is on loan: no path through
\* admission, failure, cancellation and teardown returns a reservation twice or
\* keeps it.  And the loans fit the subscription together, although each was
\* admitted on a snapshot that was read before the lock was taken.
QuotaLedger == reserved = Characters * Loans /\ reserved <= Limit

\* The devices that make sound.
Audible ==
  {s \in Sessions : run[s].sink = "playing"}
  \cup {d \in Plays : native[d] = "playing"}
  \cup {f \in Files : tool[f] = "play"}

\* Whatever makes sound holds the playback lease, except a queue playback that
\* was decided to end and that its closer has not silenced yet.
AudibleHoldsLease ==
  \A p \in Audible : owner = p \/ (p \in Plays /\ completion[p] # "none")

\* "durable, streaming, and synchronous playback cannot overlap"
\* (docs/tts_queue_operations.md).
PlaybackNeverOverlaps == Cardinality(Audible) <= 1

\* A session reported as completed has played every chunk the provider sent,
\* although its run thread looks at producer_done and at the queue separately
\* and does not wait for the producer without a bound.
CompletedPlayedAll ==
  \A s \in Sessions :
    run[s].end = "completed" =>
      /\ producer[s].pc = "done"
      /\ ~producer[s].error
      /\ run[s].written = producer[s].produced

\* Once stop() has cancelled what it found playing, no worker waits for a
\* playback that nobody cancelled: one that registers later cancels itself.
StopReachesPlayback ==
  stopper.pc = "done" => \A d \in Plays : play[d] = "wait" => completion[d] # "none"

-----------------------------------------------------------------------------
(* Liveness.  Every thread runs, time passes, an audio device ends what it *)
(* plays, a provider answers (its client has a timeout), and a thread that *)
(* keeps asking for the service lock gets it.  Nobody has to cancel, and   *)
(* nothing has to be started.                                              *)
Fairness ==
  /\ \A s \in Sessions :
       /\ WF_vars(RunStep(s) /\ UNCHANGED <<playbacks, synchronous>>)
       /\ WF_vars(ProducerStep(s) /\ UNCHANGED <<playbacks, synchronous>>)
       /\ WF_vars(CancelStep(s) /\ UNCHANGED <<playbacks, synchronous>>)
       /\ WF_vars(Expire(s) /\ UNCHANGED <<playbacks, synchronous>>)
       /\ SF_vars((OpenSink(s) \/ Finish(s) \/ CheckDeadline(s) \/ Connect(s))
                  /\ UNCHANGED <<playbacks, synchronous>>)
  /\ \A d \in Plays :
       /\ WF_vars(WorkerStep(d) /\ UNCHANGED <<streams, synchronous>>)
       /\ WF_vars((CloseAlias(d) \/ NativeEnds(d)) /\ UNCHANGED <<streams, synchronous>>)
       /\ WF_vars(Watch(d) /\ UNCHANGED <<streams, synchronous>>)
  /\ \A f \in Files : WF_vars(ToolStep(f) /\ UNCHANGED <<streams, playbacks>>)

FairSpec == Spec /\ Fairness

\* A session ends: the service accepts the next one.  This needs its quota and
\* playback lease, its provider and its sink to come to an end together, and
\* whoever holds the playback lease before it to give it back.
SessionEnds == \A s \in Sessions : active = s ~> active # s

=============================================================================
