# TLA+ verification of OpenVoiceStream

OpenVoiceStream is a voice server and a voice agent.  These modules model the part of it in which things
happen at the same time: who may use a model and when, what happens to a model, a stream or a reply when
somebody is cancelled, how a conversation survives interruptions, and what the language model is told.
TLC checks them on small instances; TLAPS proves their main invariants for every instance.

Contents: 1 the system, 2 the modules, 3 what the runs show, 4 bounds and fairness, 5 what is proved,
6 disagreements between the code and its text, 7 what is not modelled, 8 plan.

## 1. The system

Two processes.  The **server** (`src/server`, FastAPI) owns the speech recognition (ASR) and synthesis
(TTS) models of one device and serves them over HTTP and WebSockets; the **agent**
(`src/agent/ovs_agent`) is a client that turns speech into conversations, tool calls and robot actions.
The engine library *voxedge* is an external dependency and is not in the repository.

| part | state it keeps | operations | what makes it hard |
|---|---|---|---|
| ASR inference gate (`core/asr_infer_gate.py`) | permits running, deque of futures | acquire, release, wake next | cancellation racing a permit hand-off |
| Coordinator (`core/coordinator.py`), utterance slots (`main.py`), `core/api_execution.py` | one lock, active slot, resident backends, executor threads | acquire per utterance or per connection, evict, preload, drain | threads outlive the handlers that started them |
| Backend managers (`core/backend_manager.py`) with the profile loader (`core/profile_loader.py`) | state, backend, request count, session handles, profile references, process environment | start, acquire, release, register, reload | a reload races requests, sessions and the reload of the other kind; every step can fail |
| Session limiter (`core/session_limiter.py`) and v2v admission (`main.py`) | count, tokens, holders, eviction lock | acquire, release, evict, early release, teardown | three releases per session, cancellation at every await |
| Worker IO (`core/worker_io.py`) | semaphore, queues in flight, closed flag, reader thread | send_request, request, cancel, close, dispatch | coroutines, threads, a reader and a process that may die |
| TTS streams (`main.py`) | executor jobs, cancel flag, leases, orphaned cleanups | prefetch, watch for disconnection, drain, hand off | leases must outlive workers, but not for ever |
| Voice to voice, recognition (`main.py`) | one shared `state` dictionary, pending turns, generations | receive, endpoint, finalize, reopen, abort | two tasks use state they read before an await |
| Voice to voice, speech (`main.py`, `core/v2v.py`) | sentence queue, drains, response identifiers | take a sentence, flush, abort, barge-in, teardown | one terminal event per response, from several senders |
| Agent core (`app_base.py`, `app_mode.py`, `slv_client.py`, `audio_io.py`) | conversation state, turn task, playback latch, watchdogs, connection | turns, barge-in, sleep and wake, reconnection | late events of an abandoned turn |
| Agent memory (`session.py`, `tools/runner.py`) | history, messages of the turn, rollback anchor | append, call tools, roll back, trim, recover from echoes | a turn may be cut between any two messages |
| GPU watchdog, provisioning, catalogues, realtime relay, applications | see section 7 | | |

How they interact: a request passes the limiter (admission), then the manager (lease on the backend),
then gate and coordinator (inference), and runs in an executor thread or in a worker process.  Each
stage is released in a `finally`, in reverse order, and each `await` in between may raise
`CancelledError`: from a client that leaves, a reload that closes sessions, an eviction, or shutdown.
A reload crosses all of it: it closes sessions, waits for leases, unloads, rewrites the environment,
builds and preloads.  A voice-to-voice session holds one admission for two halves that share a socket:
recognition turns what the user says into finals, speech turns sentences into audio, and `abort`, speech
start and `tts_flush` cross from one to the other.  The agent sits at the other end of that socket, with
a turn task that feeds it, a dispatcher that takes its events one at a time, a microphone task and three
watchdogs; none of the server's events says which turn it belongs to.  Those crossings are where the
hazards of `PROJECT.json` bite.

## 2. The modules

One step of a model is what the code does from one `await` to the next on the asyncio loop, or one
action of a thread or process of its own.  Cancellation is an action of its own: it is delivered at an
`await`, and what the handler then does is what its `except` and `finally` blocks do.

**FairSemaphore** is the abstract specification of a first-come first-served semaphore: a set of
holders, a set of waiters, and the order of arrival among waiters as a relation.  It is what the gate
promises, and it is also how ExecutionSlots uses the gate and the coordinator's `asyncio.Lock`.

**AsrInferenceGate** is the real gate: `_running` is `running`, `_waiters` the sequence `waiters` of
tasks, and a task's future is `fut[t]` ("pending", "granted", "cancelled", or "revoked" when the cancel
came after the grant).  `WakeNext` is `_wake_next` with its loop over dead futures; `AcquireFast`,
`Enqueue`, `Resume`, `PassOnPermit` and `LeaveQueue` are the paths of `acquire`; `Exit` is its
`finally`.  `ImplementsSemaphore` is the refinement mapping to FairSemaphore.

**BackendManager** has one manager per kind over one process environment.  `state`, `current`,
`lastRef` and `inflight` are the manager's fields; `cache` is the module global behind its factory; a
backend is an index of the history `built`, which records the profile its class came from and the
profiles whose keys configured it.  `conf` is what `apply_profile` works on: the current profile, the
environment and `_APPLIED_KEYS`, each reduced to the set of profiles whose keys are there.
`ReloadBegin`, `CloseHandle`, `Drained`, `DrainTimeout`, `SwapSucceeds`, `SwapRollsBack` and `SwapFails`
are the segments of `reload()`; between the drain and the outcome the code has no `await`, which
`LoopFree` states.  The session part is `/asr/stream`: it registers a handle and takes no lease.
"closing" and "draining" are both `DRAINING` in the code.  Refused reloads (400, 409) change nothing and
are not actions.  A restored instance that fails counts as no instance.

**ExecutionSlots** has streams, file decodes, joined (Kokoro) syntheses and clone streams over gate,
lock and executor.  `pc` says where a handler is suspended and `thread` what its executor thread does,
which goes on after the handler is gone.  `SentenceLevel` is the computation of
`_set_asr_sentence_level_locking`; `Admit` and `Refuse` (an `unload()` or a `preload()` that raises) are the
inside of `coordinator.acquire`, where the deployment's `unloads` are the backends whose `unload()` gives the
memory back: the others inherit one that does nothing (`asr_backend.py:164`) and stay resident; `DrainOnCancel` and `EndDrain` are `_AsrSlotJobs.drain` and the Kokoro owner.
`prepare_finalize` and `finalize`, which follow each other under one slot, are one thread.

**SessionAdmission** has the limiter, its tokens and the v2v handler from connection to teardown, with
the eviction of stale holders; `pc` names the await at which a handler is suspended.

**WorkerIO** has coroutines (`send_request`), threads (`request`), the pool of executor threads they
depend on (`job`, on `pool` threads), the queue of each request (`inbox`), `close()`, the reader thread and
the worker's own view of each request (`work`).  The reader ends with the worker's output (`ReaderEnds`) or on
a line it cannot take (`ReaderCrashes`), after which the worker still takes requests: `unheard` are those that
register from then on.  A coroutine may be cancelled at any await, inside the executor's acquire too.  Identifiers are unique, so a request is used once.  A worker's stdin
closes no later than its stdout, so that a write after the end of the stream raises.

**TtsStream** is one streamed synthesis: the generator `stream()` with its prefetch window (`submitted`,
`current`, `taken`), its jobs in executor threads (`job`, `queue`), whoever drives the generator
(`consumer`: the priming pull, ASGI, or nobody any more), the disconnect watcher, the cleanup task with the jobs it
drains, and the watcher thread that takes over when the loop shuts down (`orphan`).  Three branches share
it: manager, legacy and clone, which differ in what cancels and in whether a watcher runs.  A chunk is
"pcm", "err" or the final None.

**SpeechTurns** is the recognition half of a `/v2v/stream` session.  `disp` and `out` are where
`dispatcher` and `asr_out_task` are suspended, `fin` and `jobs` the tasks they start (finalize, prepare,
cancel), `state` the dictionary they share, `sends` the queue on the send lock, and `mgr` the engine's
session manager with its generations.  Audio is reduced to the utterance it belongs to: `heard[g]` is what
generation g was fed and `finals` what each accepted final transcribes, so that a lost, merged or
overtaken utterance shows.  `history.astray` says that an endpoint was latched with no turn active or a
drain failed: from then on the code promises less (section 6).  The context audio around an utterance,
partials and the coordinator's lock are left out.

**SpeechOutput** is the speech half.  `out` is `tts_out_task`, each sentence has a `drain` with its thread
in the runtime (`worker`), `lease` is the coordinator slot, `sends` the send lock, `adapter` and `wire` the
responses of `RealtimeV2EventAdapter` as the client sees them (`said`: sentences begun in it, `pcm`: whose
audio it carries).  `history.stray` collects the sentences sent while no response was open.  A text frame
is a sentence: the sentence buffer, item and transcript events and the direct-speech tag are left out.
`spawns` is what `asyncio.wait_for` did before Python 3.12: it ran the queue's `get` as a task of its own, in
whose hands an abort finds a sentence out of its reach (`history.slipped`).

**AgentTurns** is the agent: `fsm` is `_state`; `llm` the turn task (`sent` when it has had a token, "token"
from a token to its transmission, "flush" while `tts_flush` waits for the send lock), `disp` the dispatcher in the middle of an
event, `mic` the microphone task with the client's voice activity, `think`, `asrWatch` and `fallback` the
watchdogs, `sleeper` a `sleep()` in progress, `audio` the playback latch (`discard`) with what still plays,
`conn` the connection and `rx` the reader's queue.  The reader ends in three ways: `ConnectionDies` and
`ReaderCrashes` (the socket stays open, "deaf") queue an error, `ConnectionCloses` (1000 or 1001) does not; then the
dispatcher reconnects, or the microphone does before it.  `server` is external: the turns whose text it buffers
(`text`), has queued or speaks, those it last announced with `tts_started` (`begun`), and what it heard.  `_interrupt_current_turn_for_barge_in` is one body for
two tasks (`StopsReply`, `InterruptResets`); a broadcast to hooks counts as an await.  Left out: final
and duplicate finals of `session_complete`, the exit intent, the wake command's single turn, push to
talk, a second server loop, the stall and link watchdogs, and `playback_drain`.

**ConversationMemory** is what the language model is told: `history` is `Session.history`, `prompt` the
messages of the turn in progress without the system prompt, `turn` the tool loop of `stream_with_tools`
with its rollback anchor.  `Trimmed` is `_trim_to_budget` for a history that ends with the user's
message, as every caller's does; `Echoes` and `AddAssistant` are the echo recovery; `Sink` writes history and
prompt together; `Abandoned` is the cancellation, failure or timeout at any await.  The truncation of the
local messages on a rollback is left out: nobody reads them afterwards.

Each `MC...` module is the instance TLC runs.  Where one configuration cannot show every case, several
deployments are in one run: a frozen variable `deployment` is chosen at the start, and the properties say
in which deployment they are claimed.  The `..._proofs` modules hold the theorems, each about the module it
is named after; those about TtsStream are in ExecutionSlots_proofs, those about ConversationMemory in
Agent_proofs.  TypeOK is stated in every module; it is proved for the gate, the managers, the worker, the
agent and both halves of the voice-to-voice session.

## 3. What the runs show

Passing runs:

- `gate` - five tasks, two permits, a queue of two.  Through every race of a cancellation with a hand-off
  the gate implements FairSemaphore, so that no permit is lost, doubled or left idle beside a waiter and
  nobody barges; and nobody starves.
- `manager` - both managers, a request, a session, two profiles.  A request's backend stays loaded until
  it lets go (`HttpHoldsLiveBackend`); manager, cache and loaded backend agree; reloading one kind leaves
  the other's configuration alone (`NoDrift`); a rollback restores exactly what was served; a reload ends.
- `slots` - the coordinator's three modes.  Inference threads exclude each other although cancelled
  handlers leave them behind; in exclusive mode no eviction pulls a backend from under a thread, and whoever is
  in the slot shares the device with no backend that could be unloaded (`ExclusiveBackends`; one that does not
  override `unload()` stays); no permit is stranded; a queued utterance is served or dropped.
- `admission` - the engine path with eviction, and the legacy path with eviction and with two slots.  The
  counter equals the tokens held whatever is released how often; no slot outlives its handler; on
  the engine path the eviction sees exactly the live sessions; every newcomer is answered.
- `worker` - every path returns its permit once, but for a coroutine cancelled inside the executor's acquire,
  which loses it (`PermitsConserved` counts free, owned and lost permits); whoever waits has an answer in its
  queue or one will come, through close, death and a crashed reader, unless it registered after that crash;
  the sentinel ends every wait it has to end, unless acquires fill the pool the wait needs (`Starved`).
- `tts_stream` - three jobs, a window of one, two threads.  However a stream ends, its leases come back
  (`LeasesReturn`) and never while one of its threads is in the backend (`LeasesOutliveWorkers`); a drain
  cut by loop shutdown is kept by a thread (`QuarantineIsTracked`); the window never closes on the job the
  pipeline drains next (`PullsAreAnswered`).
- `turns` - eleven kinds of session.  Undisturbed, the i-th final is the transcript of the i-th utterance
  and every utterance gets one; a queued turn has somebody who takes it up; the cancel an abort leaves
  running never hits a newer turn; no generation is finalized while its utterance is still spoken.
- `output` - nine kinds of session.  A sentence's audio goes out inside the response it was started in;
  one synthesis is in the runtime; a sentence left behind at its deadline says nothing more once a later
  one begins; nothing given before an abort is begun after it, except, on Python before 3.12, the one sentence
  `wait_for` held at that moment; every flush is answered; a client that leaves gives its slot back although a
  sentence hangs.
- `agent` - eleven deployments, with and without client voice activity.  The server never holds text of two
  turns; once a barge-in is carried out nothing plays; thinking ends unless a `tts_started` that was not for this
  turn in this session has stood the watchdog down (`Deceived`); the barged-in state ends unless the connection it
  began on closed without an error, the microphone replaced it, and the user does not speak again.
- `memory` - turns of up to two tool rounds with up to two calls.  Every request is valid for the model's
  interface, is the recent part of the history cut at a user's message and as long as the budget allows,
  and a turn that is abandoned or hits the iteration limit costs nothing of what was said before.

Runs that find a violation, each of one sentence of the repository (section 6): `output_hang` and
`agent_mute`.

Every property of a passing run has a mutant: a definition of the model changed the way a slip in the
code would change it (listed in `PROJECT.json`, defined beside the original), under which TLC finds the
property violated.

## 4. Bounds and fairness

- Tasks: every race in the gate is between a holder, a waiter that is cancelled and one behind it, plus a
  newcomer; five tasks on two permits leave one more and fill the queue.
- `MaxBuilt = 4`: both kinds start and two more backends are built, enough for a reload of each kind,
  a reload and its rollback, or two reloads.  The proofs have no such bound.
- ExecutionSlots: a gate of two with a queue of one, for three streams of which one waits, is refused or
  is cancelled while the others run, beside a file decode, a Kokoro synthesis and a clone; one reload, which
  is only disturbance there, in the deployments that have one.
- `MaxPolls = 2` turns of the eviction's bounded wait; the code has `timeout_s / 0.05` of them.
- `MaxQueued = 1` chunk a consumer may be behind its worker; one slot and three requests make every
  permit contended.  `PoolSizes = {1, 2}`: a pool that one waiting acquire fills, and one with a thread for each
  coroutine.
- `NJobs = 3`, `PrefetchMax = 1`, `Workers = 2`, `MaxChunks = 1`: a job before, in and behind the window, and
  fewer threads than jobs, so that a submitted job may not have started when the stream ends.
- `MaxUtterances = 3`, `MaxGen = 4`: one utterance being finalized, one queued and one spoken, and a
  generation to spare for a reopening.
- `MaxSentences = 2`, `MaxFlushes = 2`: a sentence and the one behind it, a turn and the next.
- `MaxDisturb = 1` of each kind (abort, loss, wedge, ...); which kinds occur together is in the deployments.
- `MaxTurns = 2`, `MaxSegments = 2`, `MaxQueue = 1` for the agent: a turn and the one that supersedes it, with
  an event on its way. Longer queues were not exhausted by TLC; of the properties, those that are proved hold for
  every value of the three bounds.
- `MaxHistory = 5` messages before an utterance and `Budget = 5` tokens: enough for three spoken replies of one
  text (the echo window), for two turns of which one is trimmed, and for an abandoned turn in between.
- `CHECK_DEADLOCK FALSE` stands where the system may really stop: sessions, streams and requests are used
  once, a failed manager has nothing left to do, and a conversation waits for its user.

Fairness is weak and only on what the program itself guarantees: the loop runs a task whose await is
over, a lock or gate hand-off is taken, an executor thread ends, a timer fires, a socket takes what is
sent or fails, the reader sees the end of its stream.  No client is assumed to send, read, leave or be
cancelled, no operator to reload, no worker to answer, no handler to let go of a lease
(`ReloadTerminates` rests on the drain timer alone), and no synthesis to end where the deployment lets it hang.
In WorkerIO the 60 s pass for a request that registered after the reader's crash, and for a `q.get` whose
coroutine is gone; for everybody else the timeout is not assumed.
The liveness of `slots` is claimed without clone streams, whose client may read as slowly as it likes; that
of `tts_stream` while the loop runs.  In AgentTurns a user who has begun to speak stops, a reply
has finitely many tokens (`LlmCompletes`, strong: it is interrupted by each token), and the
server's own steps (`ServerStarts`, `ServerSpeaks`, `ServerDone`) have strong fairness: a full event queue
disables them, and that it is ever full is a bound of the model, not of `asyncio.Queue`.  `patient` marks
the deployments in which the thinking timeout outlasts a reply that is on its way, which the defaults intend; the
liveness of `agent` is claimed for those.  ConversationMemory has no liveness property: its turns end by the
timeouts of the stream, which the model takes as one more way to be abandoned.

## 5. What is proved

All theorems hold for every value of the constants that satisfies the module's assumption (finite sets
of tasks, disjoint roles, positive limits).

- **Gate.**  `GateInv` adds to the types that the deque has no duplicates, holds every pending future and
  only futures of suspended tasks, and that permits are only free when nobody waits.  From it:
  `TypeCorrect`, `MutualExclusion`, `Conservation`, `WorkConserving`, and `Refinement`: initial states map
  to initial states, every step to a step of FairSemaphore or a stutter.
- **Manager.**  `ManagerInv` adds that the counter of each kind is the number of requests that hold a
  backend of it, that a swap starts drained, and that a live manager serves its cache.  From it:
  `TypeCorrect`, `RequestsSafe`, `CacheCoherent`, `NoLeakedBackend`.  A second invariant about the
  environment gives `ConfigurationTracksEnvironment`, and, when there is a startup reference, no lazy kind
  and no conflicting profile, `RollbackIsExact` and `BackendsAreWhole`; without those hypotheses the
  statements are false (section 6).
- **Slots.**  The invariant relates `pc` to the holders and waiters of gate and lock.
  `SlotsAccountedFor` and `BacklogBounded` hold for any tasks, modes and cancellations;
  `UtterancesBounded` assumes that no drain is cancelled a second time, and `InferencesExclusive` that only
  tasks that drain are cancelled: exactly the two holes the code has.  `BackendsExclusive` needs one invariant
  more, `ResidencyInv`: in exclusive mode the backend of whoever has the device is resident, beside it none that
  can be unloaded, and a thread runs only under its own.  It is claimed without reloads, whose preload goes past the lock (section 6).
- **Admission.**  `Counting` and `Bounded` hold on every path.  `SlotsReturned` needs that there is no
  Realtime handshake, `HandlesExact` also the engine path: the two deployments of section 6 break them.
- **Worker.**  `NobodyForgotten`: a request that waits has an answer, will get one, or registered after the
  reader had crashed, for any cancellations and ends.  `DeliveryInv` extends the promise to a consumer that holds
  a chunk and adds what makes it come true: a queue that has left the map was woken, or the write is going to be
  refused.  `OnePermitEach` and `TypeCorrect` (`PermitInv`: every permit is free, owned or lost, and `JobFits`: what
  a request's executor job may be doing where the request is) hold wherever anybody is cancelled.
- **TTS stream.**  `LeasesOutlive` and `QuarantineTracked`, for any number of jobs, threads and chunks.  The
  invariant says what each stage of the cleanup has already established: from the moment it drains, every
  job that has started is among those it waits for, the others have seen the flag and will not enter the
  backend, and what it hands to the watcher thread is all that is left.
- **Recognition turns.**  Three invariants, one on the other, and a fourth beside them.  `CancelInv`: what a
  step may latch or open while the cancel task of an abort runs; with it `CancelSpares`.  `CalmInv`, for sessions
  in which no deadline, timeout or crash occurs: a queued turn comes with a live endpoint or with an
  `asr_out_task` between that endpoint and the drain, and nothing takes the generation away from under it; with it
  `QueuedSpeechServed`, for a detector in the frontend (with backend endpointing a `client_eos` marker of a dead
  generation may queue speech behind a turn that its own endpoint will serve).  `OrderInv`, for undisturbed
  sessions, numbers the utterances: those with a final, the one in the active generation, those in the
  queue and the one on its way to it follow each other without gap, and a generation has heard its own and
  no other; with it `OrderedFinals`.  `EarlyInv`, for sessions with the frontend detector and no forced end,
  whatever aborts, fails or crashes, says where the utterance being spoken is (in the dispatcher's hands, in the
  active generation or in the queue) and that no end is on its way to the generation that has heard it; with
  it, and with who holds `send_lock`, `FinalizedWhenOver`, the action property `NotTooEarly`.  The order it
  rests on: the way was clear before the `vad_event` is sent, so the turn opened after it meets no end; a fresh
  generation has heard nothing; and the turn the drain refeeds is older than all that is queued behind it.
  `TypeCorrect` needs no assumption.
- **Speech.**  `RuntimeExclusive`, for any number of sentences: the lease is with a sentence from its
  admission until its thread has left, though its drain be cancelled again and again in between.
  `SentWhereItBelongs` and `NoLateSpeech` rest on one fact about the drains: one that has not been told to stop is
  the newest and is the one `tts_out_task` waits for; the send lock is first come first served, so nobody who
  may close a response overtakes a sentence that is about to be sent.  `AbortsSilence` follows the queue an abort
  empties to the sentence already taken from it; the `wait_for` before Python 3.12 may hold one sentence out of the
  abort's reach, and the theorem says that no other is ever begun.
- **Agent.**  `BargeInsAreSilent`: the invariant follows the playback latch through every task that can set
  or clear it; a frame on its way into `play()` either finds the latch set or has not been superseded.
  `RepliesStayApart`: only the turn that is sending has text with the server, it ends with a flush or an abort,
  a broken connection holds none, one that nobody reads is replaced with its session, and the next turn
  begins when it has ended; assumed is that a flush never
  waits for the send lock (section 6).  `TypeCorrect` needs no assumption.
- **Memory.**  `PromptsAreValid`, `PromptsAreRecent` and `ConversationSurvives`, for any texts, budget and
  length of history.  `MemoryInv`: the history begins with the user; every call in it is followed by its answers,
  up to the round in progress, whose caller stands as many messages back as answers have come; the turn's
  utterance stands at its anchor, and behind it nothing the user said; the prompt is the recent history.
  Assumed is `~MidTurnClears`: the tool and the dashboard route that clear a history in the middle of a turn make
  the statements false (section 6).

Only model-checked: everything temporal that needs fairness (`NoStarvation`, `ReloadTerminates`,
`UtteranceIsServed`, `NewcomerIsAnswered`, `ExitWakesWaiters`, `LeasesReturn`, `PullsAreAnswered`,
`SpeechIsAnswered`, `FlushIsAnswered`, `LeaveReleases`, `ThinkingEnds`, `BargedInEnds`), since the prover has no
ENABLED.

## 6. Disagreements between the code and its text

Shown by a run, with the sentence and the line in `PROJECT.json` under "findings":

1. `output_hang`: when recognition fails during a sentence, `tts_out_task` takes the teardown's cancellation
   for a barge-in and goes on waiting; the handler waits for it and the session's slot is never released.
2. `agent_mute`: playback is armed for a new turn before the old one has been cancelled, whose handler
   latches it again (`app_base.py:3645`, `app_mode.py:389`); the new reply is dropped.

The following were found the same way.  Each is reproduced by the constants given, with the property
named as the INVARIANT or PROPERTY of the configuration (`SPECIFICATION Spec`, or `FairSpec` for liveness).

Managers, slots, admission and worker:

| module | constants | property | what the code does |
|---|---|---|---|
| BackendManager | `Kinds = {"asr"}`, `Sessions = {s1, s2}`, `MaxBuilt = 3` | `NoThreadInUnloadedBackend` | a reload unloads a backend under an `/asr/stream` executor thread |
| BackendManager | the same | `ReloadClosesSessions` | a session that connects while the manager drains survives the reload (`main.py:5642`) |
| MCExecutionSlots | `Deployments <- LeftBehind` | `ConnectionOutlivesWorkers` | a connection-level stream leaves `accept_waveform` behind when cancelled (`main.py:6148`) |
| MCExecutionSlots | `Deployments <- CancelledClone` | `InferenceExclusive` | a clone stream's thread runs on after the lock is released (`main.py:5254`) |
| MCSessionAdmission | `Deployments <- RealtimeServer` | `NoLeakedSlot` | a failed Realtime handshake leaks the session slot (`main.py:6964`) |
| MCSessionAdmission | `Deployments <- LegacyServer` | `HoldersAreLive` | the legacy path leaves its handle in `_V2V_HOLDERS` |
| MCWorkerIO | those of `worker` | `PermitsConserved` without `Lost` | a permit acquired after its coroutine was cancelled is lost (`worker_io.py:163`) |
| MCWorkerIO | those of `worker` | `AnswerToCome` without `unheard` | after a crash of the reader (`worker_io.py:368`) requests register and write, and wait 60 s for an answer nobody reads |
| MCExecutionSlots | those of `slots` | `ExclusiveBackends` with `resident = {KindOf(t)}` | a backend that does not override `unload()` stays beside the active one, as `coordinator.py:19` says and `coordinator.py:102` denies |

Voice to voice and agent, where `Deployments` names a set of the MC module:

| MC module | deployments or constants | property broken | what happens |
|:--|:--|:--|:--|
| MCSpeechTurns | `Deployments <- AbortedSession` | `OneFinalPerEndpoint` | an end of speech that finds no active turn is never unlatched and is answered again and again (`main.py:8549`; `docs/api/v2v-stream.md:288`) |
| MCSpeechTurns | `Deployments <- ExpiringSession` | `QueuedSpeechHasServer` | a turn that expires while the next is queued strands it: the drain runs only after a final (`main.py:8337`, against the comment at `main.py:8349`) |
| MCSpeechOutput | `Deployments <- InterruptedSession` | `BargeInSilences` | speech start stops one sentence, those behind it are spoken over the user (`main.py:7823`; `docs/api/v2v-stream.md:149`) |
| MCSpeechOutput | a session with `spawns` and an abort | `AbortSilences` without `MayBegin`'s second case | before Python 3.12 a sentence that `wait_for` has just taken from the queue is spoken after the abort that emptied it (`main.py:8737`) |
| MCAgentTurns | `Superseded` of the run | `ThinkingEnds` without `Deceived` | a late `tts_started` of the superseded reply disarms the watchdog of the new turn (`app_base.py:3758`, against the docstring at `app_base.py:2860`) |
| MCAgentTurns | `ServerVad(2, {"loss"})` of the run | `ThinkingEnds` without `Deceived` | the session closes without an error after its `tts_started`, and the microphone replaces it before the dispatcher does (`slv_client.py:1171`, `slv_client.py:862`): nothing resets THINKING |
| MCAgentTurns | `ClientVad(1, 1, {"loss"})` of the run | `BargedInEnds` without `givenUp` | the same close during a barge-in: the fallback drops its `asr_eos` (`app_base.py:2817`), and BARGED_IN lasts until the user speaks again |
| MCAgentTurns | `Deployments <- SleepingAgent` | `StaysAsleep` | a frame, a `tts_done` or a handler on its way ends SLEEPING without a wake (`app_base.py:3262`; `state.py:13`) |
| MCAgentTurns | `MCDeployments` of the run | `KeepsUtterance` | the cancelled turn's plain abort discards the utterance a barge-in asked the server to keep (`app_mode.py:386`) |
| MCAgentTurns | a deployment with `contended` and two turns | `RepliesDontMix` | a turn cancelled while its flush waits for the send lock sends neither flush nor abort (`app_mode.py:424`) |
| MCAgentTurns | `patient = FALSE` | `ThinkingEnds`, `BargedInEnds` without `patient` | a watchdog that fires just before the reply arrives spends itself on the wrong wait |
| MCConversationMemory | `MidTurnClears = TRUE` | `PromptIsValid` | a history cleared during a tool round keeps the round's remaining messages, and the rollback, whose anchor is now behind the end, removes nothing; every later request starts with them (`actuator_actions.py:269`, `debug_dashboard.py:1342`; `runner.py:224` says it stays strict-valid) |

Seen by changing a constant of a passing run, and reflected in the hypotheses of the theorems:

- `InitialRef = NoRef` in `manager`: without a startup reference the first rollback of a kind uses the
  process-wide current profile, which a reload of the other kind may have replaced (`backend_manager.py:366`).
- `Conflicting = {other}`: `apply_profile` raises half way and leaves keys that no later reconciliation
  clears (`profile_loader.py:525`); the rolled-back backend is configured with them.
- `LazyKinds = {"tts"}`: a lazily started TTS takes its class from an ASR reload's profile and its
  configuration from the startup profile (`tts_backend.py:168`).
- A deployment of `slots` in exclusive mode with `reloads` above 0: a TTS reload preloads beside the ASR connection that
  owns the device (`backend_manager.py:430`; `coordinator.py:101` calls exclusive a residency contract).
- Two newcomers and a stale session: the second evicts the first, which was admitted after the second
  arrived (`main.py:96`); the comment at `main.py:81` says they do not both evict.
- `PoolSizes = {1}` in `worker`, and `ExitWakesWaiters` without `Starved`: acquires that wait for a permit fill the
  executor in which the permit's holder would have to run `q.get`; neither sentinel nor timeout ends it
  (`worker_io.py:210`).
- A permit is returned before the worker acknowledges a cancel, so a worker may be given more requests
  than it has slots (`worker_io.py:224`).

Seen while modelling, outside any property: a cancel that arrives while no response is active marks the
next one as cancelled (`v2v.py:344`); an abort during the drain of a pending turn lets the drain go on with
a turn that was dropped (`main.py:8235`); an error of `accept_audio` ends the dispatcher without an answer to
the client (near `main.py:7950`); a tool list that changes while a request is in flight clears
`cache_warmed`, which the end of that request sets again, against `actuator_actions.py:181-186`.

## 7. What is not modelled

Wire formats, audio, text and model output are data no property looks at.  Metrics, logging, sleeping
times and configuration parsing are left out; limits are constants.  `BackendManager.shutdown()` is used
by tests only.  The segmentation of long clips in `execute_asr` runs inside one slot and is one call.
The worker process, voxedge, uvicorn and the executor are modelled by what the code relies on (entries
marked external in the map).

- *Realtime relay and provider*: two pumps around an external provider's socket, with no state of their own
  beside the queue in between.
- *GPU watchdog*: a sequential counter automaton over health probes; its restart is a process exit.
- *Capability resolution, composition, profile selection*: computed once at startup from files; the models
  take the results as constants.
- *Provisioning, authentication, catalogues, signal processing, metrics*: downloads, stateless checks,
  tables and numeric code without shared state.
- *Agent tools, actuators, plugins, applications*: clients of external services and drivers of hardware.
  A tool loop is in ConversationMemory as rounds of calls; what a tool does is its own affair.
- *Agent core*, beyond what section 2 lists: mode switching, the event bus and the dashboard's routes.
- *Side services, benchmarks, deployment, the ASR worker*: not part of the two processes, or external.

`PROJECT.json` lists each with its reason.  The map therefore covers a small share of all lines: most of
the repository is model downloads, robot applications, dashboards and engine configuration, and of the
modelled files much is parsing and logging.  What is covered is the code in which several tasks, threads or
processes meet.

## 8. Plan

Done, most important first: gate, managers, slots, admission, worker, TTS stream, recognition turns,
speech output, the agent's turns, its memory.

Worth doing next:

1. A composition of SpeechTurns and SpeechOutput over one session: the abort and the speech start that
   cross from one half to the other are choices of the environment in each module now.
2. Proofs of the type invariants of slots, admission and TTS stream.
3. The server loop of the agent (tool calls that come from the server and outlive a barge-in), and mode
   switching.
4. The actions file: its etag against memory and file, and crashes between its steps.
5. The Realtime relay with a provider that reconnects.
