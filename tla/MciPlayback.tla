----------------------------- MODULE MciPlayback -----------------------------
(***************************************************************************)
(* Playback of finished queue jobs through the Windows multimedia          *)
(* interface (PlaybackCompletion, _MciPlaybackCompletion, windows_playback *)
(* and the playback part of _process_job in                                *)
(* src/src/services/tts_queue_worker.py).  A worker thread starts the      *)
(* native playback and waits for its completion; a watcher thread polls    *)
(* the device; stop() cancels what is playing.  Whoever decides the        *)
(* completion first then stops and closes the native alias.                *)
(***************************************************************************)
EXTENDS TtsDispatchCoordinator, FiniteSets

CONSTANTS
  Plays,   \* playbacks the worker threads perform, one alias each
  Endings  \* how the watcher or stop() may end one, beside "completed"

ASSUME PlaybackAssumption ==
  /\ None \notin Plays
  /\ Endings \subseteq {"failed", "timeout", "cancelled"}

VARIABLES
  play,       \* play[d]: where the worker thread stands
  completion, \* completion[d]: _state of the PlaybackCompletion
  closer,     \* closer[d]: who won _finish and still has to close the alias
  native,     \* native[d]: the device, behind the alias
  watcher,    \* watcher[d]: the watcher thread
  playing,    \* _active_playbacks
  stopper     \* stop(): where it stands, and the playbacks it has yet to cancel

playbacks == <<play, completion, closer, native, watcher, playing, stopper>>

PlayPC == {"idle", "open", "register", "abandon", "wait", "discard", "release", "done"}

PlaybacksInit ==
  /\ play = [d \in Plays |-> "idle"]
  /\ completion = [d \in Plays |-> "none"]
  /\ closer = [d \in Plays |-> "none"]
  /\ native = [d \in Plays |-> "none"]
  /\ watcher = [d \in Plays |-> "none"]
  /\ playing = {}
  /\ stopper = [pc |-> "idle", todo |-> {}]

PlaybacksTypeOK ==
  /\ play \in [Plays -> PlayPC]
  /\ completion \in [Plays -> {"none", "completed", "failed", "timeout", "cancelled"}]
  /\ closer \in [Plays -> {"none", "worker", "watcher", "stopper"}]
  /\ native \in [Plays -> {"none", "playing", "ended", "closed"}]
  /\ watcher \in [Plays -> {"none", "polling", "done"}]
  /\ playing \subseteq Plays
  /\ stopper \in [pc : {"idle", "snapshot", "cancel", "done"}, todo : SUBSET Plays]

-----------------------------------------------------------------------------
(* _finish and _terminate.                                                 *)

\* The first call decides the state, wakes the waiting worker, and goes on to
\* the native commands; a later one returns False.
Finishes(d, state, who) ==
  IF completion[d] = "none"
  THEN /\ completion' = [completion EXCEPT ![d] = state]
       /\ closer' = [closer EXCEPT ![d] = who]
  ELSE UNCHANGED <<completion, closer>>

\* stop and close, under _native_lock.
CloseAlias(d) ==
  /\ closer[d] # "none"
  /\ closer' = [closer EXCEPT ![d] = "none"]
  /\ native' = [native EXCEPT ![d] = "closed"]
  /\ UNCHANGED <<coordinator, play, completion, watcher, playing, stopper>>

-----------------------------------------------------------------------------
(* The worker thread.                                                      *)

Goes(d, pc) == play' = [play EXCEPT ![d] = pc]

PlayAcquire(d) ==
  /\ play[d] = "idle"
  /\ AcquirePlayback(d)
  /\ Goes(d, "open")
  /\ UNCHANGED <<completion, closer, native, watcher, playing, stopper>>

\* open and play; a failure of either leaves no alias behind.
PlayOpen(d) ==
  /\ play[d] = "open"
  /\ \/ /\ native' = [native EXCEPT ![d] = "playing"]
        /\ watcher' = [watcher EXCEPT ![d] = "polling"]
        /\ Goes(d, "register")
     \/ Goes(d, "release") /\ UNCHANGED <<native, watcher>>
  /\ UNCHANGED <<coordinator, completion, closer, playing, stopper>>

\* Mutant: the stop flag is not read again once the playback is registered.
PlayRegister_IgnoresStop(d) ==
  /\ play[d] = "register"
  /\ playing' = playing \cup {d}
  /\ Goes(d, "wait")
  /\ UNCHANGED <<coordinator, completion, closer, native, watcher, stopper>>

\* Registered and _stop_event read under the same lock.
PlayRegister(d) ==
  /\ play[d] = "register"
  /\ playing' = playing \cup {d}
  /\ Goes(d, IF stopper.pc = "idle" THEN "wait" ELSE "abandon")
  /\ UNCHANGED <<coordinator, completion, closer, native, watcher, stopper>>

PlayAbandon(d) ==
  /\ play[d] = "abandon"
  /\ Finishes(d, "cancelled", "worker")
  /\ Goes(d, "wait")
  /\ UNCHANGED <<coordinator, native, watcher, playing, stopper>>

\* wait() returns; a worker that cancelled has closed the alias before it waits.
PlayWait(d) ==
  /\ play[d] = "wait"
  /\ completion[d] # "none"
  /\ closer[d] # "worker"
  /\ Goes(d, "discard")
  /\ UNCHANGED <<coordinator, completion, closer, native, watcher, playing, stopper>>

PlayDiscard(d) ==
  /\ play[d] = "discard"
  /\ playing' = playing \ {d}
  /\ Goes(d, "release")
  /\ UNCHANGED <<coordinator, completion, closer, native, watcher, stopper>>

PlayRelease(d) ==
  /\ play[d] = "release"
  /\ ReleasePlayback
  /\ Goes(d, "done")
  /\ UNCHANGED <<completion, closer, native, watcher, playing, stopper>>

-----------------------------------------------------------------------------
(* The device and its watcher.                                             *)

NativeEnds(d) ==
  /\ native[d] = "playing"
  /\ native' = [native EXCEPT ![d] = "ended"]
  /\ UNCHANGED <<coordinator, play, completion, closer, watcher, playing, stopper>>

\* A poll that is the last: the device stopped, reported an error (as a closed
\* alias does), or the timeout passed.
Watch(d) ==
  /\ watcher[d] = "polling"
  /\ watcher' = [watcher EXCEPT ![d] = "done"]
  /\ \/ native[d] = "ended" /\ Finishes(d, "completed", "watcher")
     \/ native[d] = "closed" /\ Finishes(d, "failed", "watcher")
     \/ \E e \in Endings \cap {"failed", "timeout"} : Finishes(d, e, "watcher")
  /\ UNCHANGED <<coordinator, play, native, playing, stopper>>

-----------------------------------------------------------------------------
(* stop().                                                                 *)

StopSignal ==
  /\ stopper.pc = "idle"
  /\ "cancelled" \in Endings
  /\ stopper' = [pc |-> "snapshot", todo |-> {}]
  /\ UNCHANGED <<coordinator, play, completion, closer, native, watcher, playing>>

StopSnapshot ==
  /\ stopper.pc = "snapshot"
  /\ stopper' = [pc |-> IF playing = {} THEN "done" ELSE "cancel", todo |-> playing]
  /\ UNCHANGED <<coordinator, play, completion, closer, native, watcher, playing>>

\* cancel() of one playback, once the one before it has been closed.
StopCancel(d) ==
  /\ stopper.pc = "cancel"
  /\ d \in stopper.todo
  /\ \A e \in Plays : closer[e] # "stopper"
  /\ Finishes(d, "cancelled", "stopper")
  /\ stopper' = [pc |-> IF stopper.todo = {d} THEN "done" ELSE "cancel",
                 todo |-> stopper.todo \ {d}]
  /\ UNCHANGED <<coordinator, play, native, watcher, playing>>

-----------------------------------------------------------------------------
WorkerStep(d) ==
  \/ PlayAcquire(d) \/ PlayOpen(d) \/ PlayRegister(d) \/ PlayAbandon(d)
  \/ PlayWait(d) \/ PlayDiscard(d) \/ PlayRelease(d)

PlaybackStep ==
  \/ \E d \in Plays :
       WorkerStep(d) \/ CloseAlias(d) \/ NativeEnds(d) \/ Watch(d) \/ StopCancel(d)
  \/ StopSignal
  \/ StopSnapshot

=============================================================================
