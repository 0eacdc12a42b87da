--------------------------- MODULE ExecutionSlots ---------------------------
(***************************************************************************)
(* Who may run inference: server/core/coordinator.py (one asyncio.Lock     *)
(* shared by ASR and TTS), the gate in front of it for ASR utterances      *)
(* (main.py, _asr_utterance_slot) and the executor threads that outlive    *)
(* the handlers that started them.                                         *)
(*                                                                         *)
(* The gate and the lock are used through what they promise: both are      *)
(* instances of FairSemaphore.  Loop code runs in steps from one await to  *)
(* the next; a thread ends on its own.                                     *)
(*                                                                         *)
(* pc[t] of a task:                                                        *)
(*   "out"      no request or connection                                   *)
(*   "open"     a stream between utterances that holds no slot             *)
(*   "gate"     suspended in gate.acquire(), granted or not                *)
(*   "lock"     suspended in lock.acquire(), granted or not                *)
(*   "in"       inside `async with coordinator.acquire(...)`               *)
(*   "draining" cancelled in there, waiting for its thread                 *)
(***************************************************************************)
EXTENDS Integers, FiniteSets

CONSTANTS Streams,          \* /asr/stream handlers
          Decodes,          \* execute_asr: one file, one plain executor call
          Joined,           \* execute_tts on Kokoro: the call is joined, always
          Clones,           \* /tts/clone/stream: a thread feeds a generator
          Uncapped,         \* a maxSessions: cap.max_concurrent is None
          GateConcurrency,  \* resolved.asr_infer_concurrency
          QueueDepth,       \* resolved.asr_queue_depth
          Deployments       \* servers to explore: [mode, maxSessions, parallel,
                            \*   tasks, cancelled, insistent, reloads, unloads]

Tasks == Streams \cup Decodes \cup Joined \cup Clones

ASSUME SlotsAssumption ==
    /\ IsFiniteSet(Tasks)
    /\ Streams \cap (Decodes \cup Joined \cup Clones) = {}
    /\ Joined \cap (Decodes \cup Clones) = {}
    /\ Decodes \cap Clones = {}
    /\ Uncapped \notin Nat
    /\ GateConcurrency \in Nat \ {0}
    /\ QueueDepth \in Nat
    /\ \A d \in Deployments :
         /\ d.mode \in {"concurrent", "serialized", "exclusive"}
         /\ d.maxSessions \in Nat \cup {Uncapped}
         /\ d.parallel \in BOOLEAN           \* cap.supports_parallel
         /\ d.tasks \subseteq Tasks          \* those that come at all
         /\ d.cancelled \subseteq d.tasks    \* those that may be cancelled
         /\ d.insistent \subseteq d.tasks    \* and cancelled again while draining
         /\ d.reloads \in Nat               \* bound: manager reloads in a behaviour
         /\ d.unloads \subseteq {"asr", "tts"}  \* whose backend overrides unload()

VARIABLES deployment,  \* the server's configuration, chosen once
          pc,
          thread,    \* "none", "accept" (accept_waveform) or "inference"
          gateHolders, gateWaiting, gateAhead,
          lockHolders, lockWaiting, lockAhead,
          resident,  \* kinds whose backend is_ready()
          active,    \* _active_slot
          reloads    \* reloads so far

gateVars == <<gateHolders, gateWaiting, gateAhead>>
lockVars == <<lockHolders, lockWaiting, lockAhead>>
server == <<deployment, resident, active, reloads>>
vars == <<pc, thread, gateVars, lockVars, server>>

Gate == INSTANCE FairSemaphore
    WITH Permits <- GateConcurrency, holders <- gateHolders,
         waiting <- gateWaiting, ahead <- gateAhead

Lock == INSTANCE FairSemaphore
    WITH Permits <- 1, holders <- lockHolders,
         waiting <- lockWaiting, ahead <- lockAhead

Kinds == {"asr", "tts"}

KindOf(t) == IF t \in Streams \cup Decodes THEN "asr" ELSE "tts"

\* The backends that t's request has to have unloaded, if they can be.
Opposite(t) == deployment.unloads \ {KindOf(t)}

TypeOK ==
    /\ deployment \in Deployments
    /\ pc \in [Tasks -> {"out", "open", "gate", "lock", "in", "draining"}]
    /\ thread \in [Tasks -> {"none", "accept", "inference"}]
    /\ gateHolders \subseteq Streams
    /\ gateWaiting \subseteq Streams
    /\ gateAhead \subseteq Streams \X Streams
    /\ lockHolders \subseteq Tasks
    /\ lockWaiting \subseteq Tasks
    /\ lockAhead \subseteq Tasks \X Tasks
    /\ resident \subseteq Kinds
    /\ active \in Kinds \cup {"none"}
    /\ reloads \in 0..deployment.reloads

\* Startup preloads both backends, or ASR alone under lazy TTS.
Init ==
    /\ deployment \in Deployments
    /\ pc = [t \in Tasks |-> "out"]
    /\ thread = [t \in Tasks |-> "none"]
    /\ Gate!Init
    /\ Lock!Init
    /\ resident \in {Kinds, {"asr"}}
    /\ active = "none"
    /\ reloads = 0

-----------------------------------------------------------------------------
Exclusive == deployment.mode = "exclusive"

\* _set_asr_sentence_level_locking: streams take the slot per utterance, or
\* (FALSE) hold it for the whole connection.
SentenceLevel ==
    /\ ~Exclusive
    /\ IF deployment.maxSessions = Uncapped
       THEN ~deployment.parallel
       ELSE deployment.maxSessions > GateConcurrency

PerUtterance(t) == t \in Streams /\ SentenceLevel
PerConnection(t) == t \in Streams /\ ~SentenceLevel

HasLock == deployment.mode # "concurrent"

-----------------------------------------------------------------------------
(* Mutants: each is a plausible slip in the code, used to test a property. *)

\* Only the slot that was active last is evicted: _active_slot is None first.
AdmitEvictingActiveOnly(t) ==
    /\ pc' = [pc EXCEPT ![t] = "in"]
    /\ thread' = [thread EXCEPT ![t] = IF PerConnection(t) THEN @ ELSE "inference"]
    /\ IF Exclusive
       THEN resident' = (IF active = "none" THEN resident ELSE resident \ Opposite(t)) \cup {KindOf(t)}
       ELSE UNCHANGED resident
    /\ active' = IF HasLock THEN KindOf(t) ELSE active
    /\ UNCHANGED <<deployment, reloads>>

-----------------------------------------------------------------------------
(* coordinator.acquire(slot) and its release *)

\* The coordinator lets t in: in exclusive mode the other backend is unloaded,
\* which does nothing to one that does not override unload(), and t's own is
\* loaded if it is not.  Only a connection-level stream awaits something else
\* before it submits its job.
Admit(t) ==
    /\ pc' = [pc EXCEPT ![t] = "in"]
    /\ thread' = [thread EXCEPT ![t] = IF PerConnection(t) THEN @ ELSE "inference"]
    /\ resident' = IF Exclusive THEN (resident \ Opposite(t)) \cup {KindOf(t)} ELSE resident
    /\ active' = IF HasLock THEN KindOf(t) ELSE active
    /\ UNCHANGED <<deployment, reloads>>

\* The request fails on its way in and _active_slot keeps its value:
\* target.preload() raises, when the other backend is gone already, or
\* backend.unload() does, before or after it has given its memory back.
Refuse(t) ==
    /\ Exclusive
    /\ \/ KindOf(t) \notin resident /\ resident' = resident \ Opposite(t)
       \/ \E k \in Opposite(t) :
             /\ k \in resident \/ active = k
             /\ resident' \in {resident, resident \ {k}}
    /\ pc' = [pc EXCEPT ![t] = "out"]
    /\ UNCHANGED <<deployment, thread, active, reloads>>

\* A free lock is taken without suspending; an occupied one is queued for.
TakeLock(t) ==
    \/ ~HasLock /\ Admit(t) /\ UNCHANGED lockVars
    \/ HasLock /\ Lock!Enter(t) /\ Admit(t)
    \/ /\ HasLock /\ Lock!Wait(t)
       /\ pc' = [pc EXCEPT ![t] = "lock"]
       /\ UNCHANGED <<thread, server>>
    \/ HasLock /\ lockHolders \cup lockWaiting = {} /\ Refuse(t) /\ UNCHANGED lockVars

LeaveGate(t) == IF t \in gateHolders THEN Gate!Return(t) ELSE UNCHANGED gateVars

LeaveLock(t) == IF t \in lockHolders THEN Lock!Return(t) ELSE UNCHANGED lockVars

LeaveSlot(t) == LeaveLock(t) /\ LeaveGate(t)

-----------------------------------------------------------------------------
(* Mutants of the tasks. *)

\* The slot is released on the way out of a cancelled utterance, drain or no
\* drain: `finally: await jobs.drain()` is missing.
DrainOnCancelSkipped(t) ==
    /\ pc[t] = "in" /\ thread[t] = "inference"
    /\ t \in Streams \cup Joined
    /\ LeaveSlot(t)
    /\ pc' = [pc EXCEPT ![t] = "out"]

\* A cancelled utterance gives back the lock and keeps its permit.
CancelWaitKeepingPermit(t) ==
    /\ \/ pc[t] = "gate" /\ t \in gateWaiting /\ Gate!Abandon(t) /\ UNCHANGED lockVars
       \/ pc[t] = "gate" /\ t \in gateHolders /\ Gate!Return(t) /\ UNCHANGED lockVars
       \/ pc[t] = "lock" /\ t \in lockWaiting /\ Lock!Abandon(t) /\ UNCHANGED gateVars
       \/ pc[t] = "lock" /\ t \in lockHolders /\ Lock!Return(t) /\ UNCHANGED gateVars
    /\ pc' = [pc EXCEPT ![t] = "out"]

-----------------------------------------------------------------------------
(* Tasks *)

\* A request or a connection arrives.  A task name is used again only when
\* the thread of its previous use has ended.
Arrive(t) ==
    /\ t \in deployment.tasks
    /\ pc[t] = "out" /\ thread[t] = "none"
    /\ \/ /\ PerUtterance(t)
          /\ pc' = [pc EXCEPT ![t] = "open"]
          /\ UNCHANGED <<thread, lockVars, server>>
       \/ ~PerUtterance(t) /\ TakeLock(t)
    /\ UNCHANGED gateVars

\* Audio: accept_waveform in the executor, whatever slot the stream holds,
\* recorded in no _AsrSlotJobs.
Feed(s) ==
    /\ thread[s] = "none"
    /\ \/ pc[s] = "open"
       \/ pc[s] = "in" /\ PerConnection(s)
    /\ thread' = [thread EXCEPT ![s] = "accept"]
    /\ UNCHANGED <<pc, gateVars, lockVars, server>>

\* An endpoint under sentence-level locking: gate first, lock second.  With
\* the gate's queue full the utterance is dropped and the stream stays open.
Finalize(s) ==
    /\ pc[s] = "open" /\ thread[s] = "none"
    /\ PerUtterance(s)
    /\ \/ Gate!Enter(s) /\ TakeLock(s)
       \/ /\ Cardinality(gateWaiting) < QueueDepth
          /\ Gate!Wait(s)
          /\ pc' = [pc EXCEPT ![s] = "gate"]
          /\ UNCHANGED <<thread, lockVars, server>>

\* The gate's permit arrived: on to the lock.
AfterGate(s) ==
    /\ pc[s] = "gate" /\ s \in gateHolders
    /\ TakeLock(s)
    /\ UNCHANGED gateVars

\* The lock arrived.
AfterLock(t) ==
    /\ pc[t] = "lock" /\ t \in lockHolders
    /\ \/ Admit(t) /\ UNCHANGED <<gateVars, lockVars>>
       \/ Refuse(t) /\ LeaveSlot(t)

\* An endpoint of a stream that holds the lock for its whole connection.
FinalizeInConnection(s) ==
    /\ PerConnection(s)
    /\ pc[s] = "in" /\ thread[s] = "none"
    /\ thread' = [thread EXCEPT ![s] = "inference"]
    /\ UNCHANGED <<pc, gateVars, lockVars, server>>

\* The executor thread leaves the backend.  prepare_finalize and finalize,
\* which follow one another under one slot, are one thread here.
ThreadEnds(t) ==
    /\ thread[t] # "none"
    /\ thread' = [thread EXCEPT ![t] = "none"]
    /\ UNCHANGED <<pc, gateVars, lockVars, server>>

\* The job's result is back (or the connection-level stream ends): the slot
\* is released.
Leave(t) ==
    /\ pc[t] = "in" /\ thread[t] = "none"
    /\ LeaveSlot(t)
    /\ pc' = [pc EXCEPT ![t] = IF PerUtterance(t) THEN "open" ELSE "out"]
    /\ UNCHANGED <<thread, server>>

\* A sentence-level stream ends between utterances.
Disconnect(s) ==
    /\ pc[s] = "open" /\ thread[s] = "none"
    /\ pc' = [pc EXCEPT ![s] = "out"]
    /\ UNCHANGED <<thread, gateVars, lockVars, server>>

-----------------------------------------------------------------------------
(* Cancellation: a reload closes a session, a client goes, the server stops *)

\* A task that queues leaves the queue; one that was granted passes it on.
CancelWait(t) ==
    /\ \/ pc[t] = "gate" /\ t \in gateWaiting /\ Gate!Abandon(t) /\ UNCHANGED lockVars
       \/ pc[t] = "gate" /\ t \in gateHolders /\ Gate!Return(t) /\ UNCHANGED lockVars
       \/ pc[t] = "lock" /\ t \in lockWaiting /\ Lock!Abandon(t) /\ LeaveGate(t)
       \/ pc[t] = "lock" /\ t \in lockHolders /\ LeaveSlot(t)
    /\ pc' = [pc EXCEPT ![t] = "out"]

\* _AsrSlotJobs.drain and _execute_kokoro_call: the slot stays until the
\* thread has left.
DrainOnCancel(t) ==
    /\ pc[t] = "in" /\ thread[t] = "inference"
    /\ t \in Streams \cup Joined
    /\ pc' = [pc EXCEPT ![t] = "draining"]
    /\ UNCHANGED <<gateVars, lockVars>>

\* Everything else leaves at once: an idle handler, accept_waveform, a
\* plain run_in_executor, a generator whose thread feeds a queue.
LeaveOnCancel(t) ==
    /\ pc[t] \in {"in", "open"}
    /\ ~(thread[t] = "inference" /\ t \in Streams \cup Joined)
    /\ LeaveSlot(t)
    /\ pc' = [pc EXCEPT ![t] = "out"]

Cancel(t) ==
    /\ t \in deployment.cancelled
    /\ CancelWait(t) \/ DrainOnCancel(t) \/ LeaveOnCancel(t)
    /\ UNCHANGED <<thread, server>>

\* The thread is out, or drain() is cancelled in its turn ("releasing the
\* slot with a worker still running"); the Kokoro owner ignores that.
EndDrain(t) ==
    /\ pc[t] = "draining"
    /\ thread[t] = "none" \/ t \in deployment.insistent \cap Streams
    /\ LeaveSlot(t)
    /\ pc' = [pc EXCEPT ![t] = "out"]
    /\ UNCHANGED <<thread, server>>

-----------------------------------------------------------------------------
\* A BackendManager reloads a kind nobody is using; it asks no coordinator.
ManagerReload(k) ==
    /\ reloads < deployment.reloads
    /\ \A t \in Tasks : KindOf(t) = k => pc[t] = "out" /\ thread[t] = "none"
    /\ resident' = resident \cup {k}
    /\ reloads' = reloads + 1
    /\ UNCHANGED <<deployment, pc, thread, gateVars, lockVars, active>>

Next ==
    \/ \E t \in Tasks :
         \/ Arrive(t) \/ AfterLock(t) \/ ThreadEnds(t) \/ Leave(t)
         \/ Cancel(t) \/ EndDrain(t)
    \/ \E s \in Streams :
         \/ Feed(s) \/ Finalize(s) \/ AfterGate(s)
         \/ FinalizeInConnection(s) \/ Disconnect(s)
    \/ \E k \in Kinds : ManagerReload(k)

Spec == Init /\ [][Next]_vars

\* The loop runs the tasks that can run, and an inference ends.  Nobody has
\* to send audio or to be cancelled.
Fairness ==
    /\ \A t \in Tasks :
         /\ WF_vars(AfterLock(t))
         /\ WF_vars(ThreadEnds(t))
         /\ WF_vars(Leave(t) /\ ~PerConnection(t))
         /\ WF_vars(EndDrain(t))
    /\ \A s \in Streams : WF_vars(AfterGate(s))

FairSpec == Spec /\ Fairness

-----------------------------------------------------------------------------
Infers(t) == thread[t] = "inference"

\* The deployments in which nobody is cancelled who leaves an inference behind:
\* streams drain once, a Kokoro synthesis always.  A plain decode and a clone
\* stream do not.
StreamsPatient == deployment.insistent \cap Streams = {}
AllPatient ==
    StreamsPatient /\ deployment.cancelled \cap (Decodes \cup Clones) = {}

\* coordinator.py: "single asyncio.Lock shared by both slots; mutually
\* exclusive", for what the lock is there to separate: threads, which outlive
\* a cancelled handler.
InferenceExclusive ==
    HasLock => \A t, u \in Tasks : Infers(t) /\ Infers(u) => t = u

\* The lock separates inferences wherever cancelled tasks drain.
SerializedInferences == AllPatient => InferenceExclusive

\* No more utterances inside the ASR runtime than it may have in flight, in
\* concurrent mode too, where the gate is the only thing in the way.
UtterancesWithinGate ==
    SentenceLevel => Cardinality({s \in Streams : Infers(s)}) <= GateConcurrency

\* _asr_utterance_slot: the gate bounds the ASR backlog on the coordinator
\* lock, which itself is unbounded.
LockBacklogBounded ==
    SentenceLevel => Cardinality({s \in Streams : pc[s] = "lock"}) <= GateConcurrency

\* The permits are with tasks that can give them back: none is stranded by a
\* cancellation at the gate, at the lock or in the drain.
NoStrandedSlot ==
    /\ \A t \in gateHolders : pc[t] \in {"gate", "lock", "in", "draining"}
    /\ \A t \in lockHolders : pc[t] \in {"lock", "in", "draining"}

\* Exclusive mode is a residency contract, "best-effort: backends not overriding
\* unload() stay resident": a task in the slot finds its own backend loaded, and
\* no other that could have been unloaded.
ExclusiveResidency ==
    \A t \in Tasks : pc[t] \in {"in", "draining"} =>
        KindOf(t) \in resident /\ resident \cap Opposite(t) = {}

\* No eviction pulls a backend from under a thread.
ThreadBackendResident ==
    \A t \in Tasks : thread[t] # "none" => KindOf(t) \in resident

\* Both, in exclusive mode, through failed evictions and preloads: without
\* manager reloads, which ask no coordinator, a task in the slot shares the
\* device with no backend that overrides unload(); and if only Kokoro
\* syntheses, which are always joined, are cancelled, every thread keeps its
\* backend.
ExclusiveBackends ==
    Exclusive /\ deployment.reloads = 0 =>
        /\ ExclusiveResidency
        /\ deployment.cancelled \subseteq Joined => ThreadBackendResident

\* Sentence-level locking: every utterance that queues, at the gate or at the
\* lock, is served or dropped.  A clone stream, whose client may read as slowly
\* as it likes, holds the lock for as long.
UtteranceIsServed ==
    \A s \in Streams :
        SentenceLevel /\ deployment.tasks \cap Clones = {} /\ pc[s] \in {"gate", "lock"}
            ~> pc[s] \in {"out", "open", "in"}

\* _asr_no_slot: "a cancelled handler does not return to the caller - which
\* then releases the connection-level lock - while a worker thread is still
\* inside the backend"; the code breaks it.
ConnectionOutlivesWorkers ==
    HasLock => \A s \in Streams : PerConnection(s) /\ thread[s] # "none" => s \in lockHolders

=============================================================================
