---------------------------- MODULE BackendManager ----------------------------
(***************************************************************************)
(* server/core/backend_manager.py: hot swap of the ASR and TTS backends    *)
(* while requests run, with the profile bookkeeping it relies on           *)
(* (profile_loader.apply_profile) and the /asr/stream sessions that        *)
(* register with it (main.py).                                             *)
(*                                                                         *)
(* Managers, handlers and sessions share one asyncio loop.  A reload       *)
(* suspends at every `await ws.close()` and in the drain wait, nowhere     *)
(* else: from _current = None to its outcome it runs alone, so while some  *)
(* manager is "reloading" only executor threads can move (LoopFree).       *)
(*                                                                         *)
(* state[k] is BackendState, with DRAINING split in two:                   *)
(*   "closing"   suspended in _force_close_ws_sessions                     *)
(*   "draining"  suspended in _wait_for_http_drain                         *)
(*                                                                         *)
(* A backend instance is a position of the sequence built, whose element   *)
(* says what it was built from: the profile its class came from and the    *)
(* profiles whose keys were in the environment that configured it.         *)
(***************************************************************************)
EXTENDS Integers, Sequences, FiniteSets

CONSTANTS Kinds,        \* {"asr", "tts"}, or one of them
          LazyKinds,    \* started by the first request: "tts" under LAZY_TTS
          Requests,     \* HTTP handlers, and streams that use acquire()
          Sessions,     \* /asr/stream connections
          SessionKind,  \* the kind of backend they use: "asr"
          Refs,         \* profile references (names or paths)
          Boot,         \* the profile applied at startup
          Conflicting,  \* profiles whose ASR_BACKEND/TTS_BACKEND contradicts the operator's
          InitialRef,   \* OVS_PROFILE_JSON/OVS_PROFILE/OVS_PROFILE_DEFAULT, or NoRef
          NoRef,
          MaxBuilt      \* bound: backends built in a behaviour

ASSUME ManagerAssumption ==
    /\ IsFiniteSet(Requests)
    /\ LazyKinds \subseteq Kinds
    /\ SessionKind \in Kinds
    /\ Boot \in Refs \ Conflicting
    /\ NoRef \notin Refs
    /\ InitialRef \in {Boot, NoRef}
    /\ MaxBuilt \in Nat

VARIABLES serving,   \* the server's startup is over: it takes requests
          state,     \* _state, one per manager
          current,   \* _current: a backend, or 0 for None
          cache,     \* the factory's module global: _asr_backend, tts_service._backend
          lastRef,   \* _last_profile_ref
          target,    \* profile_ref of the reload under way
          oldRef,    \* old_profile_ref, snapshotted before the drain
          toClose,   \* handles the reload has not closed yet
          inflight,  \* _inflight_http
          result,    \* what the last reload returned or raised
          conf,      \* profile_loader: the current profile, os.environ, _APPLIED_KEYS
          built,     \* every backend ever preloaded by a manager, in order
          loaded,    \* those not unloaded
          http,      \* the backend each request holds, or 0
          sess,      \* "none", "open", or "cancelled" by a reload and still unwinding
          bound,     \* the backend each session captured when it connected
          thread     \* an executor thread of the session is inside its backend

managerVars == <<state, current, cache, lastRef, target, oldRef, toClose, result>>
clientVars == <<sess, bound, thread>>
vars == <<serving, managerVars, inflight, conf, built, loaded, http, clientVars>>

Backends == DOMAIN built

Origin == [kind : Kinds, spec : Refs, config : SUBSET Refs]

Configuration ==
    [current : Refs,                      \* _CURRENT_PROFILE
     env : [Kinds -> SUBSET Refs],        \* whose keys of that kind are in os.environ
     applied : [Kinds -> SUBSET Refs]]    \* whose keys are recorded in _APPLIED_KEYS

TypeOK ==
    /\ serving \in BOOLEAN
    /\ state \in [Kinds -> {"init", "ready", "closing", "draining", "reloading", "failed"}]
    /\ current \in [Kinds -> Backends \cup {0}]
    /\ cache \in [Kinds -> Backends \cup {0}]
    /\ lastRef \in [Kinds -> Refs \cup {NoRef}]
    /\ target \in [Kinds -> Refs]
    /\ oldRef \in [Kinds -> Refs]
    /\ toClose \in [Kinds -> SUBSET Sessions]
    /\ inflight \in [Kinds -> Nat]
    /\ result \in [Kinds -> {"none", "reloaded", "rolled_back", "failed", "drain_timeout"}]
    /\ conf \in Configuration
    /\ built \in Seq(Origin)
    /\ loaded \subseteq Backends
    /\ http \in [Requests -> Backends \cup {0}]
    /\ sess \in [Sessions -> {"none", "open", "cancelled"}]
    /\ bound \in [Sessions -> Backends \cup {0}]
    /\ thread \in [Sessions -> BOOLEAN]

Init ==
    /\ serving = FALSE
    /\ state = [k \in Kinds |-> "init"]
    /\ current = [k \in Kinds |-> 0]
    /\ cache = [k \in Kinds |-> 0]
    /\ lastRef = [k \in Kinds |-> NoRef]
    /\ target = [k \in Kinds |-> Boot]
    /\ oldRef = [k \in Kinds |-> Boot]
    /\ toClose = [k \in Kinds |-> {}]
    /\ inflight = [k \in Kinds |-> 0]
    /\ result = [k \in Kinds |-> "none"]
    /\ conf = [current |-> Boot,
               env |-> [k \in Kinds |-> {Boot}],
               applied |-> [k \in Kinds |-> {Boot}]]
    /\ built = <<>>
    /\ loaded = {}
    /\ http = [r \in Requests |-> 0]
    /\ sess = [s \in Sessions |-> "none"]
    /\ bound = [s \in Sessions |-> 0]
    /\ thread = [s \in Sessions |-> FALSE]

-----------------------------------------------------------------------------
(* profile_loader.apply_profile(p, kind=k) *)

\* Mutant: apply_profile without kind=self.name: the keys of every kind.
ReconciledAllKinds(c, k, p) ==
    [current |-> p,
     env |-> [j \in Kinds |-> {p}],
     applied |-> [j \in Kinds |-> {p}]]

\* The keys of kind k only: what the previous profile left is cleared, the
\* keys of p are written, and p becomes the current profile of the process.
Reconciled(c, k, p) ==
    [current |-> p,
     env |-> [c.env EXCEPT ![k] = (@ \ c.applied[k]) \cup {p}],
     applied |-> [c.applied EXCEPT ![k] = {p}]]

\* A critical key contradicts the operator's: RuntimeError in the middle of
\* the write loop, after the clearing and before any bookkeeping, with the keys
\* of p that come before it written.
Torn(c, k, p) ==
    {[c EXCEPT !.env[k] = (@ \ c.applied[k]) \cup written] : written \in SUBSET {p}}

ApplyReturns(c, k, p) == IF p \in Conflicting THEN {} ELSE {Reconciled(c, k, p)}

\* A profile that vanished since the preview raises before any change.
ApplyRaises(c, k, p) == {c} \cup IF p \in Conflicting THEN Torn(c, k, p) ELSE {}

\* A fresh backend: its class from the current profile, its configuration
\* from the environment (create_asr_backend, create_tts_backend).
FreshBackend(c, k) == [kind |-> k, spec |-> c.current, config |-> c.env[k]]

-----------------------------------------------------------------------------
LoopFree == serving /\ \A k \in Kinds : state[k] # "reloading"

Registered(k) == IF k = SessionKind THEN {s \in Sessions : sess[s] # "none"} ELSE {}

-----------------------------------------------------------------------------
(* Mutants: each is a plausible slip in the code, used to test a property. *)

\* The rollback reference is always the current profile's logical name.
ReloadBeginByName(k, p) ==
    /\ LoopFree
    /\ state[k] = "ready"
    /\ Len(built) < MaxBuilt
    /\ target' = [target EXCEPT ![k] = p]
    /\ oldRef' = [oldRef EXCEPT ![k] = conf.current]
    /\ toClose' = [toClose EXCEPT ![k] = Registered(k)]
    /\ state' = [state EXCEPT ![k] = IF Registered(k) # {} THEN "closing"
                                     ELSE IF inflight[k] = 0 THEN "reloading" ELSE "draining"]
    /\ UNCHANGED <<serving, current, cache, lastRef, result,
                   inflight, conf, built, loaded, http, clientVars>>

\* The drain gives up waiting and reloads anyway.
DrainTimeoutForcing(k) ==
    /\ LoopFree
    /\ state[k] = "draining"
    /\ state' = [state EXCEPT ![k] = "reloading"]
    /\ UNCHANGED <<serving, current, cache, lastRef, target, oldRef, toClose, result,
                   inflight, conf, built, loaded, http, clientVars>>

\* A wait without wait_for: only the last release ends it.
DrainTimeoutNever(k) ==
    /\ LoopFree
    /\ state[k] = "draining"
    /\ inflight[k] = 0
    /\ state' = [state EXCEPT ![k] = "ready"]
    /\ result' = [result EXCEPT ![k] = "drain_timeout"]
    /\ UNCHANGED <<serving, current, cache, lastRef, target, oldRef, toClose,
                   inflight, conf, built, loaded, http, clientVars>>

\* The unloader forgets the factory's cache, which serves the old instance.
ServeFromCache(k, c) ==
    /\ conf' = c
    /\ loaded' = loaded \ {current[k]}
    /\ state' = [state EXCEPT ![k] = "ready"]
    /\ UNCHANGED <<built, current, cache>>

-----------------------------------------------------------------------------
(* Lifecycle *)

\* start(): factory and preloader, during the server's startup, which gives up
\* on the managers at the first that fails, or at the first request of a kind
\* that was not started (_ensure_tts_manager_started).
Start(k) ==
    /\ \/ ~serving /\ \A j \in Kinds : state[j] # "failed"
       \/ k \in LazyKinds /\ LoopFree
    /\ state[k] = "init"
    /\ \/ /\ state' = [state EXCEPT ![k] = "ready"]
          /\ built' = Append(built, FreshBackend(conf, k))
          /\ loaded' = loaded \cup {Len(built')}
          /\ current' = [current EXCEPT ![k] = Len(built')]
          /\ cache' = [cache EXCEPT ![k] = Len(built')]
          /\ lastRef' = [lastRef EXCEPT ![k] = InitialRef]
       \/ /\ state' = [state EXCEPT ![k] = "failed"]
          /\ UNCHANGED <<built, loaded, current, cache, lastRef>>
    /\ UNCHANGED <<serving, target, oldRef, toClose, result, inflight, conf, http, clientVars>>

\* The startup hook returns; a manager it did not start (an ASR-only profile,
\* lazy TTS) is still in INIT.
OpenForRequests ==
    /\ ~serving
    /\ serving' = TRUE
    /\ UNCHANGED <<managerVars, inflight, conf, built, loaded, http, clientVars>>

-----------------------------------------------------------------------------
(* Clients *)

\* acquire(), refused with 503 (no change) unless READY.
Acquire(r, k) ==
    /\ LoopFree
    /\ http[r] = 0
    /\ state[k] = "ready"
    /\ http' = [http EXCEPT ![r] = current[k]]
    /\ inflight' = [inflight EXCEPT ![k] = @ + 1]
    /\ UNCHANGED <<serving, managerVars, conf, built, loaded, clientVars>>

\* The end of acquire(): the handler returned, failed or was cancelled.
Release(r) ==
    /\ LoopFree
    /\ http[r] # 0
    /\ http' = [http EXCEPT ![r] = 0]
    /\ inflight' = [inflight EXCEPT ![built[http[r]].kind] = @ - 1]
    /\ UNCHANGED <<serving, managerVars, conf, built, loaded, clientVars>>

\* /asr/stream: register_ws, then _get_asr_backend() reads the module global.
\* No manager state is looked at.  A session name is used again only when the
\* thread of the previous connection has ended.
Connect(s) ==
    /\ LoopFree
    /\ sess[s] = "none" /\ ~thread[s]
    /\ cache[SessionKind] \in loaded
    /\ sess' = [sess EXCEPT ![s] = "open"]
    /\ bound' = [bound EXCEPT ![s] = cache[SessionKind]]
    /\ UNCHANGED <<serving, managerVars, inflight, conf, built, loaded, http, thread>>

\* run_in_executor: a frame goes to the backend the session captured.
StartJob(s) ==
    /\ LoopFree
    /\ sess[s] = "open" /\ ~thread[s]
    /\ thread' = [thread EXCEPT ![s] = TRUE]
    /\ UNCHANGED <<serving, managerVars, inflight, conf, built, loaded, http, sess, bound>>

\* The thread leaves the backend; threads do not wait for the loop.
FinishJob(s) ==
    /\ thread[s]
    /\ thread' = [thread EXCEPT ![s] = FALSE]
    /\ UNCHANGED <<serving, managerVars, inflight, conf, built, loaded, http, sess, bound>>

\* The handler's finally: unregister_ws.  A cancelled handler does not wait
\* for its accept_waveform thread, an undisturbed one does.
Disconnect(s) ==
    /\ LoopFree
    /\ sess[s] # "none"
    /\ thread[s] => sess[s] = "cancelled"
    /\ sess' = [sess EXCEPT ![s] = "none"]
    /\ toClose' = [toClose EXCEPT ![SessionKind] = @ \ {s}]
    /\ UNCHANGED <<serving, state, current, cache, lastRef, target, oldRef, result,
                   inflight, conf, built, loaded, http, bound, thread>>

-----------------------------------------------------------------------------
(* reload() *)

\* Where the reload goes when no handle is left to close: _wait_for_http_drain
\* returns at once when nothing is in flight.
AfterClosing(k) == IF inflight[k] = 0 THEN "reloading" ELSE "draining"

\* POST /admin/backend/reload up to the first await.  A second reload of the
\* same manager, a manager that is not READY and an unusable profile are
\* refused with 409 or 400 and change nothing.
ReloadBegin(k, p) ==
    /\ LoopFree
    /\ state[k] = "ready"
    /\ Len(built) < MaxBuilt
    /\ target' = [target EXCEPT ![k] = p]
    /\ oldRef' = [oldRef EXCEPT ![k] = IF lastRef[k] # NoRef THEN lastRef[k] ELSE conf.current]
    /\ toClose' = [toClose EXCEPT ![k] = Registered(k)]
    /\ state' = [state EXCEPT ![k] = IF Registered(k) # {} THEN "closing" ELSE AfterClosing(k)]
    /\ UNCHANGED <<serving, current, cache, lastRef, result,
                   inflight, conf, built, loaded, http, clientVars>>

\* One turn of _force_close_ws_sessions: `await ws.close()` returned and the
\* handler is cancelled (or had already ended); the last turn runs on into
\* the drain check.
CloseHandle(k) ==
    /\ LoopFree
    /\ state[k] = "closing"
    /\ \/ \E s \in toClose[k] :
            /\ toClose' = [toClose EXCEPT ![k] = @ \ {s}]
            /\ sess' = [sess EXCEPT ![s] = "cancelled"]
       \/ toClose[k] = {} /\ UNCHANGED <<toClose, sess>>
    /\ state' = [state EXCEPT ![k] = IF toClose'[k] = {} THEN AfterClosing(k) ELSE @]
    /\ UNCHANGED <<serving, current, cache, lastRef, target, oldRef, result,
                   inflight, conf, built, loaded, http, bound, thread>>

\* _wait_zero wakes and finds nothing in flight.
Drained(k) ==
    /\ LoopFree
    /\ state[k] = "draining"
    /\ inflight[k] = 0
    /\ state' = [state EXCEPT ![k] = "reloading"]
    /\ UNCHANGED <<serving, current, cache, lastRef, target, oldRef, toClose, result,
                   inflight, conf, built, loaded, http, clientVars>>

\* drain_timeout_s elapsed first: fail closed, the backend stays live.
DrainTimeout(k) ==
    /\ LoopFree
    /\ state[k] = "draining"
    /\ state' = [state EXCEPT ![k] = "ready"]
    /\ result' = [result EXCEPT ![k] = "drain_timeout"]
    /\ UNCHANGED <<serving, current, cache, lastRef, target, oldRef, toClose,
                   inflight, conf, built, loaded, http, clientVars>>

\* Configurations in which the attempt at the target can have failed: the
\* profile did not apply, or it did and the factory or the preloader raised.
AfterFailedAttempt(k) ==
    ApplyRaises(conf, k, target[k]) \cup ApplyReturns(conf, k, target[k])

\* A manager serves a backend built from c, the only one of its kind.
Serve(k, c) ==
    /\ conf' = c
    /\ built' = Append(built, FreshBackend(c, k))
    /\ loaded' = (loaded \ {current[k]}) \cup {Len(built')}
    /\ current' = [current EXCEPT ![k] = Len(built')]
    /\ cache' = [cache EXCEPT ![k] = Len(built')]
    /\ state' = [state EXCEPT ![k] = "ready"]

\* Old backend unloaded, profile applied, new backend built and preloaded.
SwapSucceeds(k) ==
    /\ state[k] = "reloading"
    /\ \E c \in ApplyReturns(conf, k, target[k]) : Serve(k, c)
    /\ lastRef' = [lastRef EXCEPT ![k] = target[k]]
    /\ result' = [result EXCEPT ![k] = "reloaded"]
    /\ UNCHANGED <<serving, target, oldRef, toClose, inflight, http, clientVars>>

\* The attempt failed; the broken instance is unloaded, which empties the
\* factory's cache, and a fresh backend is built from the old profile.
SwapRollsBack(k) ==
    /\ state[k] = "reloading"
    /\ \E c \in AfterFailedAttempt(k) :
         \E d \in ApplyReturns(c, k, oldRef[k]) : Serve(k, d)
    /\ result' = [result EXCEPT ![k] = "rolled_back"]
    /\ UNCHANGED <<serving, lastRef, target, oldRef, toClose, inflight, http, clientVars>>

\* The rollback failed too: FAILED, for good.  A restored instance that could
\* not be preloaded stays in the factory's cache, where is_ready() hides it:
\* it counts as None here.
SwapFails(k) ==
    /\ state[k] = "reloading"
    /\ \E c \in AfterFailedAttempt(k) :
         conf' \in ApplyRaises(c, k, oldRef[k]) \cup ApplyReturns(c, k, oldRef[k])
    /\ loaded' = loaded \ {current[k]}
    /\ current' = [current EXCEPT ![k] = 0]
    /\ cache' = [cache EXCEPT ![k] = 0]
    /\ state' = [state EXCEPT ![k] = "failed"]
    /\ result' = [result EXCEPT ![k] = "failed"]
    /\ UNCHANGED <<serving, lastRef, target, oldRef, toClose, inflight, built, http, clientVars>>

-----------------------------------------------------------------------------
Reload(k) ==
    \/ \E p \in Refs : ReloadBegin(k, p)
    \/ CloseHandle(k)
    \/ Drained(k)
    \/ DrainTimeout(k)
    \/ SwapSucceeds(k)
    \/ SwapRollsBack(k)
    \/ SwapFails(k)

Session(s) == Connect(s) \/ StartJob(s) \/ FinishJob(s) \/ Disconnect(s)

Next ==
    \/ OpenForRequests
    \/ \E k \in Kinds : Start(k) \/ Reload(k)
    \/ \E r \in Requests : Release(r) \/ \E k \in Kinds : Acquire(r, k)
    \/ \E s \in Sessions : Session(s)

Spec == Init /\ [][Next]_vars

\* A reload that can run does, and the drain timer fires.  Handlers may hold
\* a backend for as long as they like.
Fairness ==
    \A k \in Kinds :
        /\ WF_vars(CloseHandle(k))
        /\ WF_vars(DrainTimeout(k))
        /\ WF_vars(SwapSucceeds(k) \/ SwapRollsBack(k) \/ SwapFails(k))

FairSpec == Spec /\ Fairness

-----------------------------------------------------------------------------
\* reload(): "unloading a backend that is still serving an executor thread is
\* unsafe".  For requests that go through acquire() it never happens: the
\* backend a request was given stays loaded, and current, until it lets go.
HttpHoldsLiveBackend ==
    \A r \in Requests : http[r] # 0 =>
        /\ http[r] \in loaded
        /\ http[r] = current[built[http[r]].kind]

\* A READY manager, the factory's cache and the legacy module global that
\* sessions read agree on one loaded backend of the right kind.
ReadyServesCache ==
    \A k \in Kinds : state[k] = "ready" =>
        /\ current[k] \in loaded
        /\ cache[k] = current[k]
        /\ built[current[k]].kind = k

\* Never two loaded backends of a kind (their engines would share the device
\* memory), and none at all after a failed reload.
OneLoadedPerKind ==
    \A b \in loaded : current[built[b].kind] = b

\* The live backend was configured by exactly the keys of its kind that are
\* in the environment now: reloading one kind lets the other drift nowhere.
NoDrift ==
    \A k \in Kinds : state[k] \in {"ready", "closing", "draining"} =>
        built[current[k]].config = conf.env[k]

\* A loaded backend's class and its configuration come from one profile.
BuiltFromOneProfile == \A b \in loaded : built[b].config = {built[b].spec}

\* A rolled-back reload serves what was served before it.
RollbackRestores ==
    [][\A k \in Kinds :
         state[k] = "reloading" /\ result'[k] = "rolled_back" /\ state'[k] = "ready"
            => built'[current'[k]] = built[current[k]]]_vars

\* reload() ends, whatever its requests and sessions do.
ReloadTerminates ==
    \A k \in Kinds :
        state[k] \in {"closing", "draining", "reloading"}
            ~> state[k] \in {"ready", "failed"}

\* As claimed for executor threads of every kind; see the violation run.
NoThreadInUnloadedBackend ==
    \A s \in Sessions : thread[s] => bound[s] \in loaded

\* reload(): "Always closes registered WS sessions": none is still open when
\* the backend they use is unloaded.
ReloadClosesSessions ==
    [][\A k \in Kinds :
         state[k] = "reloading" /\ state'[k] # "reloading"
            => \A s \in Registered(k) : sess[s] = "cancelled"]_vars

=============================================================================
