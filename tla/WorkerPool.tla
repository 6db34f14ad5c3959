----------------------------- MODULE WorkerPool -----------------------------
(***************************************************************************)
(* The life of TtsQueueWorker's threads (tts_queue_worker.py): start()     *)
(* spawns a poll thread and the workers, stop() sets the stop event, puts  *)
(* one sentinel per worker on the bounded internal queue, skipping what    *)
(* does not fit, and joins each thread for ten seconds at most.  TtsQueue  *)
(* models what the threads do to jobs; here a job is only something that   *)
(* takes a place in the queue.                                             *)
(*                                                                         *)
(* start_default_worker makes a new instance, stop_default_worker stops it *)
(* and drops it, both under one lock.  A caller that keeps its own         *)
(* instance may start it again: it finds the old queue, with sentinels     *)
(* nobody took, and perhaps old threads that outlived their join.          *)
(***************************************************************************)
EXTENDS Naturals, Sequences

CONSTANTS
  Instances,   \* objects there can be
  Kept,        \* those whose caller keeps them and may start them again
  Workers,     \* the workers argument
  QueueSize,   \* maxsize of the internal queue, workers * 4 in the code
  MaxStarts,   \* bound: calls of start() in all
  NoInstance   \* None

ASSUME PoolAssumption ==
    /\ Kept \subseteq Instances /\ NoInstance \notin Instances
    /\ Workers \in Nat /\ QueueSize \in Nat /\ MaxStarts \in Nat

VARIABLES stopping,  \* the stop event of each instance
          queue,     \* its internal queue of "job" and "stop" items
          started,   \* the instances start() was called on, call after call
          thread,    \* the threads of each call: thread[n][0] polls, the others work
          held,      \* jobs the poll thread of each call has claimed and not yet put
          default,   \* _default_worker
          caller     \* the stop() call under way: [of, left]

poolVars == <<stopping, queue, started, thread, held, default, caller>>

Slots == 0..Workers
NoCall == [of |-> NoInstance, left |-> 0]

PoolInit ==
    /\ stopping = [k \in Instances |-> FALSE]
    /\ queue = [k \in Instances |-> <<>>]
    /\ started = <<>> /\ thread = <<>> /\ held = <<>>
    /\ default = NoInstance /\ caller = NoCall

Calls == DOMAIN started
Used == {started[n] : n \in Calls}
Alive(n, s) == thread[n][s] # "gone"
Move(n, s, place) == thread' = [thread EXCEPT ![n][s] = place]

\* start(): the event is cleared, the queue is the one __init__ made.
Start(k) ==
    /\ caller = NoCall /\ Len(started) < MaxStarts
    /\ started' = Append(started, k)
    /\ stopping' = [stopping EXCEPT ![k] = FALSE]
    /\ thread' = Append(thread, [s \in Slots |-> "head"])
    /\ held' = Append(held, 0)
    /\ UNCHANGED <<queue, caller>>

\* The instance a call of start_default_worker works on.
\* Mutant: an instance that was stopped is started again.
Fresh_Reused == Instances \ Kept
Fresh == (Instances \ Kept) \ Used
StartDefault ==
    /\ default = NoInstance
    /\ \E k \in Fresh : Start(k) /\ default' = k

StartKept(k) ==
    /\ k \in Kept
    /\ k \in Used => stopping[k]
    /\ Start(k) /\ UNCHANGED default

\* stop() sets the event before it puts the first sentinel.
SetEvent(k) ==
    /\ caller = NoCall /\ k \in Used /\ ~stopping[k]
    /\ k \in Kept \/ k = default
    /\ stopping' = [stopping EXCEPT ![k] = TRUE]
    /\ caller' = [of |-> k, left |-> Workers]
    /\ UNCHANGED <<queue, started, thread, held, default>>

Sentinel ==
    /\ caller.left > 0
    /\ caller' = [caller EXCEPT !.left = @ - 1]
    /\ queue' = [queue EXCEPT ![caller.of] =
                   IF Len(@) < QueueSize THEN Append(@, "stop") ELSE @]
    /\ UNCHANGED <<stopping, started, thread, held, default>>

\* Every thread has been joined, or has been waited for in vain.
Joined ==
    /\ caller # NoCall /\ caller.left = 0
    /\ caller' = NoCall
    /\ default' = IF caller.of = default THEN NoInstance ELSE default
    /\ UNCHANGED <<stopping, queue, started, thread, held>>

-----------------------------------------------------------------------------
\* Mutant: the poll thread does not look at the event.
LoopHead_PollForever(n, s) ==
    /\ thread[n][s] = "head" /\ s # 0
    /\ Move(n, s, IF stopping[started[n]] THEN "gone" ELSE "get")
    /\ UNCHANGED <<queue, held>>

\* The loop condition of both kinds of thread.
LoopHead(n, s) ==
    /\ thread[n][s] = "head"
    /\ \/ stopping[started[n]] /\ Move(n, s, "gone")
       \/ ~stopping[started[n]] /\ s # 0 /\ Move(n, s, "get")
    /\ UNCHANGED <<queue, held>>

\* The poll thread claims as many jobs as there are workers, puts one after
\* the other, giving back what finds no place, and goes back to sleep.
Claim(n) ==
    /\ thread[n][0] = "head" /\ ~stopping[started[n]]
    /\ \E jobs \in 1..Workers : held' = [held EXCEPT ![n] = jobs]
    /\ Move(n, 0, "put") /\ UNCHANGED queue

Put(n) ==
    /\ thread[n][0] = "put"
    /\ queue' = [queue EXCEPT ![started[n]] =
                   IF Len(@) < QueueSize THEN Append(@, "job") ELSE @]
    /\ held' = [held EXCEPT ![n] = @ - 1]
    /\ Move(n, 0, IF held[n] = 1 THEN "head" ELSE "put")

Get(n, s) ==
    LET q == queue[started[n]]
    IN  /\ thread[n][s] = "get" /\ q # <<>>
        /\ queue' = [queue EXCEPT ![started[n]] = Tail(q)]
        /\ Move(n, s, IF Head(q) = "stop" THEN "gone" ELSE "work")
        /\ UNCHANGED held

\* get() times out only when the queue is empty; _process_job comes to an end.
BackToHead(n, s) ==
    /\ \/ thread[n][s] = "get" /\ queue[started[n]] = <<>>
       \/ thread[n][s] = "work"
    /\ Move(n, s, "head") /\ UNCHANGED <<queue, held>>

ThreadStep(n, s) ==
    /\ n \in Calls
    /\ \/ LoopHead(n, s) \/ Get(n, s) \/ BackToHead(n, s)
       \/ s = 0 /\ (Claim(n) \/ Put(n))
    /\ UNCHANGED <<stopping, started, default, caller>>

PoolNext ==
    \/ StartDefault \/ Sentinel \/ Joined
    \/ \E k \in Instances : StartKept(k) \/ SetEvent(k)
    \/ \E n \in Calls, s \in Slots : ThreadStep(n, s)

\* Every thread keeps running: provider calls and playback have timeouts.
PoolFairness ==
    /\ WF_poolVars(Sentinel) /\ WF_poolVars(Joined)
    /\ \A n \in 1..MaxStarts, s \in Slots : WF_poolVars(ThreadStep(n, s))

PoolSpec == PoolInit /\ [][PoolNext]_poolVars /\ PoolFairness

-----------------------------------------------------------------------------
\* The default pool is complete while nobody stops it: no sentinel of an
\* earlier stop() can take away one of its threads.
DefaultPoolComplete ==
    (default # NoInstance /\ ~stopping[default]) =>
        \A n \in Calls, s \in Slots : started[n] = default => Alive(n, s)

\* A stopped pool empties, threads that outlived their join included, unless
\* its keeper starts it again: sentinels that did not fit, or that other
\* threads took, are not needed for that.
StoppedPoolEmpties ==
    \A k \in Instances :
        stopping[k] ~>
            (~stopping[k] \/ \A n \in Calls, s \in Slots : started[n] = k => ~Alive(n, s))
=============================================================================
