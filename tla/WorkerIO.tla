------------------------------ MODULE WorkerIO ------------------------------
(***************************************************************************)
(* server/core/worker_io.py: requests multiplexed over the stdin and the   *)
(* stdout of one worker process.  Coroutines (send_request), threads       *)
(* (request), the reader thread, the owner that closes and the worker      *)
(* itself interleave.                                                      *)
(*                                                                         *)
(* A request carries an id of its own and is used once.  pc[r]:            *)
(*   "new"                                                                 *)
(*   "acquiring"   a coroutine that awaits _sem.acquire in the executor    *)
(*   "admitted"    owns a permit                                           *)
(*   "checked"     saw _closed = False                                     *)
(*   "registered"  its queue is in _inflight                               *)
(*   "waiting"     its line is written; q.get                              *)
(*   "chunk", "end"  suspended at the yield of such an event               *)
(*   "over"                                                                *)
(* job[r] is what the default executor runs for coroutine r: an acquire    *)
(* ("acquired": the thread has the permit and the loop does not know;      *)
(* "delivered": the future is done and r has not resumed) or a get         *)
(* ("stale": the coroutine is gone, the thread still waits).  An acquire   *)
(* goes on, and succeeds, for a coroutine that is over.                    *)
(***************************************************************************)
EXTENDS Integers, Sequences, FiniteSets

CONSTANTS Coroutines,   \* users of send_request
          Threads,      \* users of request
          Slots,        \* _max_slots
          Queueing,     \* _queue_when_saturated
          PoolSizes,    \* threads the loop's default executor may have
          MaxQueued     \* bound: chunks a consumer is behind

Requests == Coroutines \cup Threads

ASSUME WorkerAssumption ==
    /\ IsFiniteSet(Coroutines) /\ IsFiniteSet(Threads)
    /\ Coroutines \cap Threads = {}
    /\ Slots \in Nat \ {0}
    /\ Queueing \in BOOLEAN
    /\ PoolSizes \subseteq Nat \ {0}
    /\ MaxQueued \in Nat

VARIABLES pc, job,
          free,      \* _sem._value
          inflight,  \* keys of _inflight
          inbox,     \* each request's queue.Queue
          closed,    \* close(): "no", "flagged" (_closed is set), "woken"
          alive,     \* the worker process
          reading,   \* the reader thread
          pool,      \* size of the executor, chosen once
          unheard,   \* history: registered with a worker that runs and is not read
          work       \* the worker's view: "none", "running", "flagged", "ended"

client == <<pc, job, free, inflight>>
process == <<alive, reading, pool, unheard>>
worker == <<process, work>>
vars == <<client, inbox, closed, worker>>

Owning == {"admitted", "checked", "registered", "waiting", "chunk", "end"}

TypeOK ==
    /\ pc \in [Requests -> {"new", "acquiring", "over"} \cup Owning]
    /\ job \in [Requests -> {"none", "acquire queued", "acquire running", "acquired",
                             "delivered", "get queued", "get running", "stale"}]
    /\ free \in 0..Slots
    /\ inflight \subseteq Requests
    /\ inbox \in [Requests -> Seq({"chunk", "end", "exit"})]
    /\ closed \in {"no", "flagged", "woken"}
    /\ alive \in BOOLEAN /\ reading \in BOOLEAN
    /\ pool \in PoolSizes
    /\ unheard \subseteq Requests
    /\ work \in [Requests -> {"none", "running", "flagged", "ended"}]

Init ==
    /\ pc = [r \in Requests |-> "new"]
    /\ job = [r \in Requests |-> "none"]
    /\ free = Slots
    /\ inflight = {}
    /\ inbox = [r \in Requests |-> <<>>]
    /\ closed = "no"
    /\ alive = TRUE /\ reading = TRUE
    /\ pool \in PoolSizes
    /\ unheard = {}
    /\ work = [r \in Requests |-> "none"]

-----------------------------------------------------------------------------
Goto(r, where) == pc' = [pc EXCEPT ![r] = where]

Run(r, what) == job' = [job EXCEPT ![r] = what]

\* Threads of the executor that are taken.
Busy == {r \in Requests : job[r] \in {"acquire running", "get running", "stale"}}

\* Coroutines wait for their next event in the executor, threads themselves.
AwaitEvent(r) ==
    /\ Goto(r, "waiting")
    /\ Run(r, IF r \in Coroutines THEN "get queued" ELSE "none")

\* cancel(): the flag the worker looks at before its next chunk.  Nothing is
\* written after close(), and a write to a dead worker fails.
SendCancel(r) ==
    work' = IF closed = "no" /\ alive /\ work[r] = "running"
            THEN [work EXCEPT ![r] = "flagged"] ELSE work

(* Mutants: each is a plausible slip in the code, used to test a property. *)

\* GeneratorExit bypasses the release.
FinishKeepingPermit(r, naturally) ==
    /\ Goto(r, "over")
    /\ inflight' = inflight \ {r}
    /\ free' = IF naturally THEN free + 1 ELSE free
    /\ UNCHANGED work

\* The finally block: unregister, return the permit, and (send_request, unless
\* it finished naturally) tell the worker.
Finish(r, naturally) ==
    /\ Goto(r, "over")
    /\ inflight' = inflight \ {r}
    /\ free' = free + 1
    /\ IF naturally \/ r \in Threads THEN UNCHANGED work ELSE SendCancel(r)

-----------------------------------------------------------------------------
(* Mutants of the steps. *)

\* Without the flush nobody notices that the worker has died.
WriteUnflushed(r) ==
    /\ pc[r] = "registered"
    /\ IF closed = "no"
       THEN /\ AwaitEvent(r)
            /\ work' = [work EXCEPT ![r] = "running"]
            /\ UNCHANGED <<free, inflight>>
       ELSE Finish(r, FALSE) /\ UNCHANGED job
    /\ UNCHANGED <<inbox, closed, process>>

\* The reader ends without waking anybody.
ReaderStopsSilently ==
    /\ reading
    /\ reading' = FALSE
    /\ inflight' = {}
    /\ UNCHANGED <<pc, job, free, inbox, closed, alive, pool, unheard, work>>

-----------------------------------------------------------------------------
(* The permit *)

\* acquire(blocking=False), which raises PoolSaturatedError and changes
\* nothing when there is none, or a thread's own blocking acquire.
AcquireNow(r) ==
    /\ pc[r] = "new"
    /\ r \in Threads \/ ~Queueing
    /\ free > 0
    /\ free' = free - 1
    /\ Goto(r, "admitted")
    /\ UNCHANGED <<job, inflight, inbox, closed, worker>>

\* send_request: run_in_executor(None, self._sem.acquire).
AcquireLater(r) ==
    /\ pc[r] = "new"
    /\ r \in Coroutines /\ Queueing
    /\ Goto(r, "acquiring")
    /\ Run(r, "acquire queued")
    /\ UNCHANGED <<free, inflight, inbox, closed, worker>>

\* A thread of the pool takes up a job.
StartJob(r) ==
    /\ Cardinality(Busy) < pool
    /\ \/ job[r] = "acquire queued" /\ Run(r, "acquire running")
       \/ job[r] = "get queued" /\ Run(r, "get running")
    /\ UNCHANGED <<pc, free, inflight, inbox, closed, worker>>

\* _sem.acquire() returns in the pool's thread, whoever still waits for it.
ThreadAcquires(r) ==
    /\ job[r] = "acquire running"
    /\ free > 0
    /\ free' = free - 1
    /\ Run(r, "acquired")
    /\ UNCHANGED <<pc, inflight, inbox, closed, worker>>

\* The loop completes the future, unless it was cancelled.
Deliver(r) ==
    /\ pc[r] = "acquiring" /\ job[r] = "acquired"
    /\ Run(r, "delivered")
    /\ UNCHANGED <<pc, free, inflight, inbox, closed, worker>>

Resume(r) ==
    /\ pc[r] = "acquiring" /\ job[r] = "delivered"
    /\ Goto(r, "admitted")
    /\ Run(r, "none")
    /\ UNCHANGED <<free, inflight, inbox, closed, worker>>

\* Task.cancel() in `await _fut`.  It cancels the future itself, unless that
\* is done already: the done-callback finds a result, and returns the permit,
\* only in that case.  A job still in the queue of the pool is cancelled with
\* the future; a thread in _sem.acquire(), or just out of it, is not.
CancelAcquire(r) ==
    /\ pc[r] = "acquiring"
    /\ Goto(r, "over")
    /\ Run(r, IF job[r] \in {"acquire queued", "delivered"} THEN "none" ELSE job[r])
    /\ free' = IF job[r] = "delivered" THEN free + 1 ELSE free
    /\ UNCHANGED <<inflight, inbox, closed, worker>>

-----------------------------------------------------------------------------
(* The request *)

\* The fast-path check of _closed.
Check(r) ==
    /\ pc[r] = "admitted"
    /\ IF closed = "no"
       THEN Goto(r, "checked") /\ UNCHANGED <<free, inflight, work>>
       ELSE Finish(r, TRUE)
    /\ UNCHANGED <<job, inbox, closed, process>>

Register(r) ==
    /\ pc[r] = "checked"
    /\ Goto(r, "registered")
    /\ inflight' = inflight \cup {r}
    /\ unheard' = IF alive /\ ~reading THEN unheard \cup {r} ELSE unheard
    /\ UNCHANGED <<job, free, inbox, closed, alive, reading, pool, work>>

\* Under _stdin_lock.  A closed WorkerIO and a dead worker raise.
Write(r) ==
    /\ pc[r] = "registered"
    /\ IF closed = "no" /\ alive
       THEN /\ AwaitEvent(r)
            /\ work' = [work EXCEPT ![r] = "running"]
            /\ UNCHANGED <<free, inflight>>
       ELSE Finish(r, FALSE) /\ UNCHANGED job
    /\ UNCHANGED <<inbox, closed, process>>

\* q.get is in progress in its thread.
Getting(r) == pc[r] = "waiting" /\ (r \in Threads \/ job[r] = "get running")

\* An event: yielded, or _worker_exit, which raises.
TakeEvent(r) ==
    /\ Getting(r)
    /\ inbox[r] # <<>>
    /\ inbox' = [inbox EXCEPT ![r] = Tail(@)]
    /\ Run(r, "none")
    /\ IF Head(inbox[r]) = "exit"
       THEN Finish(r, FALSE)
       ELSE Goto(r, Head(inbox[r])) /\ UNCHANGED <<free, inflight, work>>
    /\ UNCHANGED <<closed, process>>

\* 60 s without an event.
GetTimeout(r) ==
    /\ Getting(r)
    /\ inbox[r] = <<>>
    /\ Run(r, "none")
    /\ Finish(r, FALSE)
    /\ UNCHANGED <<inbox, closed, process>>

\* The consumer asks for the next event, or learns that there is none.
Proceed(r) ==
    /\ \/ pc[r] = "chunk" /\ AwaitEvent(r) /\ UNCHANGED <<free, inflight, work>>
       \/ pc[r] = "end" /\ Finish(r, TRUE) /\ UNCHANGED job
    /\ UNCHANGED <<inbox, closed, process>>

\* The consumer stops: GeneratorExit at the yield.
Abandon(r) ==
    /\ pc[r] \in {"chunk", "end"}
    /\ Finish(r, FALSE)
    /\ UNCHANGED <<job, inbox, closed, process>>

\* Task.cancel() in the await of q.get, whose thread cannot be cancelled.
CancelGet(r) ==
    /\ r \in Coroutines
    /\ pc[r] = "waiting"
    /\ Run(r, IF job[r] = "get running" THEN "stale" ELSE "none")
    /\ Finish(r, FALSE)
    /\ UNCHANGED <<inbox, closed, process>>

\* An event or the 60 s end a get nobody waits for.
StaleEnds(r) ==
    /\ job[r] = "stale"
    /\ Run(r, "none")
    /\ UNCHANGED <<pc, free, inflight, inbox, closed, worker>>

-----------------------------------------------------------------------------
(* close() *)

\* Under _stdin_lock.
CloseFlag ==
    /\ closed = "no"
    /\ closed' = "flagged"
    /\ UNCHANGED <<client, inbox, worker>>

\* Under _inflight_lock: the map is emptied and everybody in it woken.
WakeAll ==
    /\ inflight' = {}
    /\ inbox' = [r \in Requests |-> IF r \in inflight THEN Append(inbox[r], "exit") ELSE inbox[r]]

CloseWake ==
    /\ closed = "flagged"
    /\ closed' = "woken"
    /\ WakeAll
    /\ UNCHANGED <<pc, job, free, worker>>

-----------------------------------------------------------------------------
(* The worker, and the reader thread *)

\* A line of stdout, dispatched to its request, dropped, or read by nobody.
Dispatch(r, event) ==
    inbox' = IF reading /\ r \in inflight THEN [inbox EXCEPT ![r] = Append(@, event)] ELSE inbox

EmitChunk(r) ==
    /\ alive
    /\ work[r] = "running"
    /\ Len(inbox[r]) < MaxQueued
    /\ Dispatch(r, "chunk")
    /\ UNCHANGED <<client, closed, worker>>

\* done, or cancelled for a flagged request.
EmitEnd(r) ==
    /\ alive
    /\ work[r] \in {"running", "flagged"}
    /\ work' = [work EXCEPT ![r] = "ended"]
    /\ Dispatch(r, "end")
    /\ UNCHANGED <<client, closed, process>>

\* The process ends; its stdin is closed before its stdout.
Die ==
    /\ alive
    /\ alive' = FALSE
    /\ UNCHANGED <<client, inbox, closed, reading, pool, unheard, work>>

\* The reader's finally block: it wakes everybody and ends.
ReaderStops ==
    /\ reading
    /\ reading' = FALSE
    /\ WakeAll
    /\ UNCHANGED <<pc, job, free, closed, alive, pool, unheard, work>>

\* EOF on stdout.
ReaderEnds == ~alive /\ ReaderStops

\* "worker stdout reader crashed": a line that does not decode, or that is
\* JSON and no object.  The worker may live on, and takes further requests.
ReaderCrashes == ReaderStops

-----------------------------------------------------------------------------
Pool(r) == StartJob(r) \/ ThreadAcquires(r) \/ StaleEnds(r)

Request(r) ==
    \/ AcquireNow(r) \/ AcquireLater(r) \/ Deliver(r) \/ Resume(r)
    \/ Check(r) \/ Register(r) \/ Write(r)
    \/ TakeEvent(r) \/ Proceed(r)

GivesUp(r) == CancelAcquire(r) \/ GetTimeout(r) \/ Abandon(r) \/ CancelGet(r)

Next ==
    \/ \E r \in Requests : Pool(r) \/ Request(r) \/ GivesUp(r) \/ EmitChunk(r) \/ EmitEnd(r)
    \/ CloseFlag \/ CloseWake \/ Die \/ ReaderEnds \/ ReaderCrashes

Spec == Init /\ [][Next]_vars

\* The loop and the threads run and the reader sees the end of its stream.
\* Nobody has to ask, to give up or to close, the worker owes nothing, and the
\* 60 s pass for requests nobody reads the answer of and for gets nobody waits
\* for: for the others they are no help.
Fairness ==
    /\ \A r \in Requests :
         /\ WF_vars(StartJob(r))
         /\ WF_vars(ThreadAcquires(r))
         /\ WF_vars(StaleEnds(r))
         /\ WF_vars(Deliver(r) \/ Resume(r))
         /\ WF_vars(Check(r) \/ Register(r) \/ Write(r) \/ TakeEvent(r))
         /\ WF_vars(Proceed(r))
         /\ WF_vars(r \in unheard /\ GetTimeout(r))
    /\ WF_vars(CloseWake)
    /\ WF_vars(ReaderEnds)

FairSpec == Spec /\ Fairness

-----------------------------------------------------------------------------
\* Requests that own a permit, or whose permit is on its way to them.
Owners == {r \in Requests :
              \/ pc[r] \in Owning
              \/ pc[r] = "acquiring" /\ job[r] \in {"acquired", "delivered"}}

\* Coroutines for which a thread acquired although they were cancelled inside
\* the executor's acquire: the done-callback finds their future cancelled.
Lost == {r \in Requests : pc[r] = "over" /\ job[r] = "acquired"}

\* Every permit is free, with one live request, or lost to a coroutine that
\* was cancelled inside the executor's acquire, which loses one and no more:
\* closing, dying, crashing, timing out, abandoning and cancelling anywhere
\* else return it once ("cancellation during sem acquire (saturated) must not
\* leak the slot", test_worker_io.py, fails in just that one window).
PermitsConserved == free + Cardinality(Owners) + Cardinality(Lost) = Slots

\* A request that waits has an answer in its queue, or one will come: its
\* queue is registered, the reader runs, and the worker works on it or is
\* about to be found dead.  Left to the 60 s timeout are only those that
\* registered after the reader had crashed under a worker that runs.
AnswerToCome ==
    \A r \in Requests : pc[r] = "waiting" =>
        \/ \E i \in DOMAIN inbox[r] : inbox[r][i] \in {"end", "exit"}
        \/ /\ r \in inflight
           /\ reading
           /\ work[r] = "running" \/ ~alive
        \/ r \in unheard

\* r's get waits for a thread of a pool in which every thread waits for a permit.
Starved(r) ==
    /\ job[r] = "get queued"
    /\ Cardinality({q \in Coroutines : job[q] = "acquire running"}) = pool

\* "When the worker subprocess EOFs, the reader thread wakes every in-flight
\* caller ... instead of hanging on q.get(timeout=...)": without a reader
\* every wait ends, for those it had to wake without help from the timeout.
\* The one thing that can keep it from ending is a pool full of acquires.
ExitWakesWaiters ==
    \A r \in Requests :
        pc[r] = "waiting" /\ ~reading ~> (pc[r] # "waiting" \/ []Starved(r))

=============================================================================
