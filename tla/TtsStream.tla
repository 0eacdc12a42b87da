----------------------------- MODULE TtsStream -----------------------------
(***************************************************************************)
(* One streamed synthesis request of server/main.py: POST /tts/stream, in  *)
(* its manager and its legacy branch, and the /v1 clone streams.  It ends  *)
(* in four ways at once: the client leaves, the backend fails, the ASGI    *)
(* task is cancelled or the body is complete; and whichever comes first,   *)
(* the leases it owns (session token, manager lease, coordinator slot)     *)
(* must come back, and not before its executor threads left the backend.   *)
(*                                                                         *)
(* The audio is abstract: a queue item is "pcm", "err" or "end" (None).    *)
(* Closing a registered generator from the loop (active_gens) only lets    *)
(* its thread end sooner, which a thread may do here at any time.          *)
(***************************************************************************)
EXTENDS Integers, Sequences, FiniteSets

CONSTANTS NJobs,        \* len(backend_jobs)
          PrefetchMax,  \* prefetch_max
          Workers,      \* threads of _tts_stream_executor left to this stream
          MaxChunks     \* bound: chunks a generator makes

ASSUME StreamAssumption ==
    /\ NJobs \in Nat \ {0}
    /\ PrefetchMax \in Nat \ {0}
    /\ Workers \in Nat \ {0}
    /\ MaxChunks \in Nat

Jobs == 1..NJobs

VARIABLES branch,      \* "manager", "legacy" or "clone"
          cancel_flag,
          job,         \* where the executor thread of each job is
          chunks,      \* chunks its generator made so far
          queue,       \* its bridge queue
          submitted,   \* next_to_submit
          current,     \* current_idx
          taken,       \* chunks taken from the current queue
          gen,         \* where the generator stream() is suspended
          consumer,    \* who drives it
          connected,   \* the client's socket
          watching,    \* the disconnect watcher
          cleanup,     \* the cleanup task
          toDrain,     \* jobs_to_drain
          orphan,      \* _OrphanedTTSStreamCleanup
          leases,
          loop

threads == <<job, chunks, queue>>
pipeline == <<submitted, current, taken>>
cleaning == <<cleanup, toDrain, orphan, leases>>
streamVars ==
    <<branch, cancel_flag, threads, pipeline, gen, consumer, connected, watching,
      cleaning, loop>>

Using == {"generating", "iterating", "closing"}
Started(j) == job[j] \notin {"none", "queued"}
Finished(j) == job[j] = "finished"

StreamTypeOK ==
    /\ branch \in {"manager", "legacy", "clone"}
    /\ cancel_flag \in BOOLEAN /\ connected \in BOOLEAN /\ watching \in BOOLEAN
    /\ job \in [Jobs -> {"none", "queued", "started", "leaving", "finished"} \cup Using]
    /\ chunks \in [Jobs -> 0..MaxChunks]
    /\ queue \in [Jobs -> Seq({"pcm", "err", "end"})]
    /\ submitted \in Jobs /\ current \in Jobs /\ current <= submitted
    /\ taken \in Nat
    /\ gen \in {"awaiting", "suspended", "stopping", "waiting", "done"}
    /\ consumer \in {"priming", "unstarted", "sending", "pulling", "draining",
                     "dropped", "forgotten", "done"}
    /\ cleanup \in {"none", "created", "draining", "releasing", "released",
                    "handed_off", "lost"}
    /\ toDrain \subseteq Jobs
    /\ orphan \in {"none", "waiting", "scheduled", "released", "stranded"}
    /\ leases \in {"held", "released"}
    /\ loop \in {"running", "stopping", "closed"}

(* The leases are taken and stream() runs to its first await: the watcher  *)
(* task exists and the first job is in the executor's queue.               *)
StreamInit ==
    /\ branch \in {"manager", "legacy", "clone"}
    /\ cancel_flag = FALSE
    /\ job = [j \in Jobs |-> IF j = 1 THEN "queued" ELSE "none"]
    /\ chunks = [j \in Jobs |-> 0]
    /\ queue = [j \in Jobs |-> <<>>]
    /\ submitted = 1 /\ current = 1 /\ taken = 0
    /\ gen = "awaiting"
    /\ consumer = "priming"
    /\ connected = TRUE /\ watching = TRUE
    /\ cleanup = "none" /\ toDrain = {} /\ orphan = "none"
    /\ leases = "held"
    /\ loop = "running"

-----------------------------------------------------------------------------
(* Executor threads: _run *)

Running == {j \in Jobs : Started(j) /\ ~Finished(j)}

Thread(j, from, to) == job[j] = from /\ job' = [job EXCEPT ![j] = to]

OnlyThreads == UNCHANGED <<branch, cancel_flag, pipeline, gen, consumer,
                           connected, watching, cleaning, loop>>

(* The executor is first in, first out; the thread's first act is          *)
(* started.set(), before it looks at the flag.                             *)
ThreadStarts(j) ==
    /\ Cardinality(Running) < Workers
    /\ \A i \in 1..(j - 1) : Started(i)
    /\ Thread(j, "queued", "started")
    /\ UNCHANGED <<chunks, queue>> /\ OnlyThreads

ThreadChecksFlag(j) ==
    /\ Thread(j, "started", IF cancel_flag THEN "leaving" ELSE "generating")
    /\ UNCHANGED <<chunks, queue>> /\ OnlyThreads

(* gen_lock: a generator made before the flag was raised and not yet       *)
(* registered is closed by its own thread.                                 *)
ThreadRegisters(j) ==
    /\ Thread(j, "generating", IF cancel_flag THEN "closing" ELSE "iterating")
    /\ UNCHANGED <<chunks, queue>> /\ OnlyThreads

ThreadChunk(j) ==
    /\ job[j] = "iterating" /\ chunks[j] < MaxChunks
    /\ chunks' = [chunks EXCEPT ![j] = @ + 1]
    /\ queue' = IF cancel_flag THEN queue
                ELSE [queue EXCEPT ![j] = Append(@, "pcm")]
    /\ UNCHANGED job /\ OnlyThreads

ThreadExhausts(j) ==
    /\ Thread(j, "iterating", "closing")
    /\ UNCHANGED <<chunks, queue>> /\ OnlyThreads

(* A cancelled Kokoro job raises an error that is not passed on. *)
ThreadFails(j) ==
    /\ \E from \in {"generating", "iterating"} : Thread(j, from, "closing")
    /\ \/ queue' = [queue EXCEPT ![j] = Append(@, "err")]
       \/ cancel_flag /\ UNCHANGED queue
    /\ UNCHANGED chunks /\ OnlyThreads

ThreadFinishes(j) ==
    /\ \E from \in {"leaving", "closing"} : Thread(j, from, "finished")
    /\ queue' = [queue EXCEPT ![j] = Append(@, "end")]
    /\ UNCHANGED chunks /\ OnlyThreads

-----------------------------------------------------------------------------
(* stream(): the pipeline on the loop *)

Last == IF branch = "clone" THEN 1 ELSE NJobs
Owned == branch # "clone"      \* the body is framed by a _TTSFramedStreamOwner

\* mutant: the window counts the job being drained
WindowAllowsStrict == submitted - current + 1 < PrefetchMax

WindowAllows == submitted - current < PrefetchMax    \* _prefetch_window_allows

PrefetchDue ==
    branch = "manager" /\ submitted < NJobs /\ ~cancel_flag /\ WindowAllows

Submit(take, next) ==
    /\ queue' = [queue EXCEPT ![current] = Tail(@)]
    /\ submitted' = next
    /\ job' = IF next = submitted THEN job ELSE [job EXCEPT ![next] = "queued"]
    /\ UNCHANGED chunks
    /\ taken' = take

OnLoop(state) == loop # "closed" /\ gen = state

NextItem(item) == queue[current] # <<>> /\ Head(queue[current]) = item

\* mutant: a raised flag is taken for a started cleanup
CloseStreamOnce ==
    /\ cancel_flag' = TRUE
    /\ gen' = IF Owned THEN "waiting" ELSE "stopping"
    /\ cleanup' = IF Owned /\ ~cancel_flag THEN "created" ELSE cleanup
    /\ watching' = (watching /\ ~Owned)
    /\ UNCHANGED <<toDrain, orphan, leases>>

(* The finally block, to its first await. *)
CloseStream ==
    /\ cancel_flag' = TRUE
    /\ gen' = IF Owned THEN "waiting" ELSE "stopping"
    /\ cleanup' = IF Owned /\ cleanup = "none" THEN "created" ELSE cleanup
    /\ watching' = (watching /\ ~Owned)
    /\ UNCHANGED <<toDrain, orphan, leases>>

TakeChunk ==
    /\ OnLoop("awaiting") /\ NextItem("pcm")
    /\ Submit(taken + 1,
              IF taken = 0 /\ PrefetchDue THEN submitted + 1 ELSE submitted)
    /\ gen' = "suspended"
    /\ consumer' = CASE consumer = "priming" -> "unstarted"
                     [] consumer = "pulling" -> "sending"
                     [] OTHER -> consumer
    /\ UNCHANGED <<branch, cancel_flag, current, connected, watching, cleaning, loop>>

TakeEnd ==
    /\ OnLoop("awaiting") /\ NextItem("end")
    /\ Submit(0, IF PrefetchDue \/ (branch = "legacy" /\ current < Last /\ ~cancel_flag)
                 THEN submitted + 1 ELSE submitted)
    /\ \/ /\ current < Last /\ ~cancel_flag
          /\ current' = current + 1
          /\ UNCHANGED <<cancel_flag, gen, watching, cleaning>>
       \/ /\ current = Last \/ cancel_flag
          /\ CloseStream /\ UNCHANGED current
    /\ UNCHANGED <<branch, consumer, connected, loop>>

TakeError ==
    /\ OnLoop("awaiting") /\ NextItem("err")
    /\ Submit(taken, submitted)
    /\ CloseStream
    /\ UNCHANGED <<branch, current, consumer, connected, loop>>

(* Clone streams stop their watcher before they create the cleanup. *)
StopWatcher ==
    /\ OnLoop("stopping")
    /\ gen' = "waiting"
    /\ watching' = FALSE
    /\ cleanup' = "created"
    /\ UNCHANGED <<branch, cancel_flag, threads, pipeline, consumer, connected,
                   toDrain, orphan, leases, loop>>

(* The wait for the cleanup is bounded: it may end before the cleanup. *)
StreamEnds ==
    /\ OnLoop("waiting")
    /\ gen' = "done"
    /\ consumer' = "done"
    /\ UNCHANGED <<branch, cancel_flag, threads, pipeline, connected, watching,
                   cleaning, loop>>

-----------------------------------------------------------------------------
(* The body: _framed_tts_stream and its owner under StreamingResponse *)

OnlyConsumer == UNCHANGED <<branch, threads, pipeline, connected, watching,
                            cleaning, loop>>

(* Sample rate and first chunk are sent. *)
StartBody ==
    /\ loop # "closed" /\ consumer = "unstarted"
    /\ consumer' = "sending"
    /\ UNCHANGED <<cancel_flag, gen>> /\ OnlyConsumer

Pull ==
    /\ OnLoop("suspended") /\ consumer = "sending"
    /\ consumer' = "pulling" /\ gen' = "awaiting"
    /\ UNCHANGED cancel_flag /\ OnlyConsumer

(* _drain_to_terminal discards a last chunk and asks for the next. *)
DrainNext ==
    /\ OnLoop("suspended") /\ consumer = "draining"
    /\ gen' = "awaiting"
    /\ UNCHANGED <<cancel_flag, consumer>> /\ OnlyConsumer

(* The ASGI task is cancelled.  In the middle of a pull an owned stream is *)
(* drained by its close task; a generator suspended at a yield is dropped. *)
TaskCancelled ==
    /\ loop # "closed"
    /\ \/ /\ consumer = "priming" \/ (consumer = "pulling" /\ ~Owned)
          /\ gen = "awaiting"
          /\ CloseStream
          /\ UNCHANGED <<branch, threads, pipeline, consumer, connected, loop>>
       \/ /\ consumer = "pulling" /\ Owned
          /\ consumer' = "draining" /\ cancel_flag' = TRUE
          /\ UNCHANGED gen /\ OnlyConsumer
       \/ /\ consumer = "sending" /\ consumer' = "dropped"
          /\ UNCHANGED <<cancel_flag, gen>> /\ OnlyConsumer
       \/ /\ consumer = "unstarted" /\ consumer' = "forgotten"
          /\ UNCHANGED <<cancel_flag, gen>> /\ OnlyConsumer

(* A dropped generator is collected: the loop's asyncgen hook runs aclose. *)
Collect ==
    /\ loop # "closed"
    /\ \/ /\ consumer = "dropped" /\ Owned
          /\ consumer' = "draining" /\ cancel_flag' = TRUE
          /\ UNCHANGED gen /\ OnlyConsumer
       \/ /\ consumer = "forgotten" \/ (consumer = "dropped" /\ ~Owned)
          /\ gen = "suspended"
          /\ CloseStream
          /\ UNCHANGED <<branch, threads, pipeline, consumer, connected, loop>>

ClientLeaves ==
    /\ connected /\ connected' = FALSE
    /\ UNCHANGED <<branch, cancel_flag, threads, pipeline, gen, consumer,
                   watching, cleaning, loop>>

(* The watcher starts the cleanup by itself, or, for a clone stream whose  *)
(* job is still queued, wakes the pipeline.                                *)
WatcherSees ==
    /\ loop # "closed" /\ watching /\ ~connected
    /\ watching' = FALSE
    /\ cancel_flag' = TRUE
    /\ cleanup' = IF Owned /\ cleanup = "none" THEN "created" ELSE cleanup
    /\ queue' = IF ~Owned /\ ~Started(1)
                THEN [queue EXCEPT ![1] = Append(@, "end")] ELSE queue
    /\ UNCHANGED <<branch, job, chunks, pipeline, gen, consumer, connected,
                   toDrain, orphan, leases, loop>>

-----------------------------------------------------------------------------
(* _run_tts_stream_cleanup *)

OnlyCleanup == UNCHANGED <<branch, cancel_flag, threads, pipeline, gen,
                           consumer, connected, watching>>

\* mutant: only jobs with a registered generator are waited for
CleanupStartsRegistered ==
    /\ loop # "closed" /\ cleanup = "created"
    /\ cleanup' = "draining"
    /\ toDrain' = {j \in Jobs : job[j] \in {"iterating", "closing"}}
    /\ UNCHANGED <<orphan, leases, loop>> /\ OnlyCleanup

(* Jobs that have not started by now see the flag before the backend. *)
CleanupStarts ==
    /\ loop # "closed" /\ cleanup = "created"
    /\ cleanup' = "draining"
    /\ toDrain' = {j \in Jobs : Started(j)}
    /\ UNCHANGED <<orphan, leases, loop>> /\ OnlyCleanup

CleanupDrained ==
    /\ loop # "closed" /\ cleanup = "draining"
    /\ \A j \in toDrain : Finished(j)
    /\ cleanup' = "releasing"
    /\ UNCHANGED <<toDrain, orphan, leases, loop>> /\ OnlyCleanup

CleanupReleases ==
    /\ loop # "closed" /\ cleanup = "releasing"
    /\ cleanup' = "released" /\ leases' = "released"
    /\ UNCHANGED <<toDrain, orphan, loop>> /\ OnlyCleanup

(* Loop shutdown cancels every task there is.  A cleanup that has not run  *)
(* yet never runs; a drain hands its unfinished jobs to a watcher thread.  *)
Shutdown ==
    /\ loop = "running" /\ loop' = "stopping"
    /\ LET unfinished == {j \in toDrain : ~Finished(j)} IN
       \/ /\ cleanup \in {"created", "releasing"}
          /\ cleanup' = "lost" /\ UNCHANGED <<toDrain, orphan>>
       \/ /\ cleanup = "draining" /\ unfinished # {}
          /\ cleanup' = "handed_off" /\ toDrain' = unfinished /\ orphan' = "waiting"
       \/ /\ cleanup = "draining" /\ unfinished = {}
          /\ cleanup' = "releasing" /\ UNCHANGED <<toDrain, orphan>>
       \/ /\ cleanup \notin {"created", "draining"}
          /\ UNCHANGED <<cleanup, toDrain, orphan>>
    /\ UNCHANGED leases /\ OnlyCleanup

(* The task of the inner __anext__ is among the cancelled ones. *)
PullCancelled ==
    /\ loop = "stopping" /\ gen = "awaiting" /\ consumer \in {"pulling", "draining"}
    /\ CloseStream
    /\ UNCHANGED <<branch, threads, pipeline, consumer, connected, loop>>

LoopCloses ==
    /\ loop = "stopping" /\ consumer \in {"dropped", "forgotten", "done"}
    /\ loop' = "closed"
    /\ UNCHANGED cleaning /\ OnlyCleanup

\* mutant: the watcher thread trusts a finished wrapper of any job
OrphanWatchesAny ==
    /\ orphan = "waiting" /\ \E j \in Jobs : Finished(j)
    /\ orphan' = IF loop = "closed" THEN "stranded" ELSE "scheduled"
    /\ UNCHANGED <<cleanup, toDrain, leases, loop>> /\ OnlyCleanup

OrphanWatches ==
    /\ orphan = "waiting" /\ \A j \in toDrain : Finished(j)
    /\ orphan' = IF loop = "closed" THEN "stranded" ELSE "scheduled"
    /\ UNCHANGED <<cleanup, toDrain, leases, loop>> /\ OnlyCleanup

OrphanReleases ==
    /\ loop # "closed" /\ orphan = "scheduled"
    /\ orphan' = "released" /\ leases' = "released"
    /\ UNCHANGED <<cleanup, toDrain, loop>> /\ OnlyCleanup

-----------------------------------------------------------------------------
JobStep(j) ==
    \/ ThreadStarts(j) \/ ThreadChecksFlag(j) \/ ThreadRegisters(j)
    \/ ThreadChunk(j) \/ ThreadExhausts(j) \/ ThreadFails(j) \/ ThreadFinishes(j)

Pipeline == TakeChunk \/ TakeEnd \/ TakeError \/ StopWatcher \/ StreamEnds

Cleanup == CleanupStarts \/ CleanupDrained \/ CleanupReleases

Orphan == OrphanWatches \/ OrphanReleases

StreamNext ==
    \/ \E j \in Jobs : JobStep(j)
    \/ Pipeline \/ Cleanup \/ Orphan
    \/ StartBody \/ Pull \/ DrainNext \/ TaskCancelled \/ Collect
    \/ ClientLeaves \/ WatcherSees
    \/ Shutdown \/ PullCancelled \/ LoopCloses

StreamFairness ==
    /\ \A j \in Jobs : WF_streamVars(JobStep(j))
    /\ WF_streamVars(Pipeline) /\ WF_streamVars(Cleanup) /\ WF_streamVars(Orphan)
    /\ WF_streamVars(DrainNext) /\ WF_streamVars(Collect) /\ WF_streamVars(WatcherSees)
    \* StreamingResponse listens for the disconnect too and cancels its body
    /\ WF_streamVars(~connected /\ TaskCancelled)

StreamSpec == StreamInit /\ [][StreamNext]_streamVars /\ StreamFairness

-----------------------------------------------------------------------------
(* Properties *)

(* Whatever ends the stream, and in whatever order its flag, its watcher,  *)
(* its cleanup and loop shutdown act: once the leases are given back no    *)
(* executor thread of the stream is inside the backend, or will be.        *)
LeasesOutliveWorkers ==
    leases = "released" => \A j \in Jobs : job[j] \notin Using

(* Loop shutdown in the middle of a drain does not lose it: a watcher      *)
(* thread keeps the jobs that were still running, and the leases until     *)
(* they have ended.                                                        *)
QuarantineIsTracked ==
    cleanup = "handed_off" =>
        \/ leases = "held" /\ orphan \in {"waiting", "scheduled", "stranded"}
        \/ leases = "released" /\ \A j \in toDrain : Finished(j)

(* A stream whose client left, whose body was dropped or that ended gives  *)
(* its leases back, unless the loop is shut down.                          *)
LeasesReturn ==
    (~connected \/ consumer \in {"draining", "dropped", "forgotten", "done"})
        ~> (leases = "released" \/ loop # "running")

(* No pull waits for a job that nobody submits: the prefetch window never  *)
(* closes on the job the pipeline drains next.                             *)
PullsAreAnswered ==
    (consumer \in {"priming", "pulling"})
        ~> (consumer \notin {"priming", "pulling"} \/ loop # "running")

=============================================================================
