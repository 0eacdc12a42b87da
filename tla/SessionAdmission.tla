-------------------------- MODULE SessionAdmission --------------------------
(***************************************************************************)
(* Who holds one of the server's session slots: SessionLimiter and its     *)
(* tokens (server/core/session_limiter.py), and the /v2v/stream handler    *)
(* around them (main.py), which may evict a stale session to make room.    *)
(*                                                                         *)
(* A v2v connection is used once, so that a handle left behind in          *)
(* _V2V_HOLDERS can be told from the next connection's.  pc[v]:            *)
(*   "new"       not connected yet                                         *)
(*   "lockwait"  waiting for the eviction lock                             *)
(*   "closing"   holds it; `await ws.close()` on a holder                  *)
(*   "polling"   holds it; waits for the slot in steps of 50 ms            *)
(*   "setup"     admitted; `await ws.send_json(session_created)`           *)
(*   "config"    waits for the config frame, inside the guarded region     *)
(*   "running"   the conversation                                          *)
(*   "joining"   finally: waits for the work tasks                         *)
(*   "farewell"  slot released; cancels the utterance, closes the socket   *)
(*   "rejected", "ended"                                                   *)
(***************************************************************************)
EXTENDS Integers, FiniteSets

CONSTANTS V2V,          \* /v2v/stream connections
          Https,        \* HTTP requests under acquire_http, /asr/stream alike
          EvictOnFull,  \* OVS_V2V_EVICT_ON_FULL
          MaxPolls,     \* timeout_s / 0.05
          Nobody,
          Deployments   \* servers to explore: [limit, realtime, engine]

ASSUME AdmissionAssumption ==
    /\ IsFiniteSet(V2V) /\ IsFiniteSet(Https)
    /\ V2V \cap Https = {}
    /\ EvictOnFull \in BOOLEAN
    /\ MaxPolls \in Nat \ {0}
    /\ Nobody \notin V2V
    /\ \A d \in Deployments :
         /\ d.limit \in Nat \ {0}     \* resolve_limit()
         /\ d.realtime \in BOOLEAN    \* the clients offer the Realtime V2 subprotocol
         /\ d.engine \in BOOLEAN      \* OVS_V2V_ENGINE=voxedge: the engine runs the
                                      \* conversation

VARIABLES deployment, \* the server's configuration, chosen once
          active,     \* SessionLimiter._active
          token,      \* "none", "held", "released" (SessionToken._released)
          holders,    \* _V2V_HOLDERS
          lock,       \* owner of _v2v_evict_lock, or Nobody
          pc,
          toEvict,    \* the rest of list(_V2V_HOLDERS), per evicting handler
          polls,
          cancelled   \* handlers with a CancelledError on its way

limiter == <<deployment, active, token>>
eviction == <<lock, toEvict, polls>>
vars == <<limiter, holders, eviction, pc, cancelled>>

Limit == deployment.limit
Realtime == deployment.realtime
Engine == deployment.engine

Sessions == V2V \cup Https

Before == {"new", "lockwait", "closing", "polling"}
Admitted == {"setup", "config", "running", "joining", "farewell"}
Over == {"rejected", "ended"}

TypeOK ==
    /\ deployment \in Deployments
    /\ active \in 0..Limit
    /\ token \in [Sessions -> {"none", "held", "released"}]
    /\ holders \subseteq V2V
    /\ lock \in V2V \cup {Nobody}
    /\ pc \in [V2V -> Before \cup Admitted \cup Over]
    /\ toEvict \in [V2V -> SUBSET V2V]
    /\ polls \in [V2V -> 0..MaxPolls]
    /\ cancelled \subseteq V2V

Init ==
    /\ deployment \in Deployments
    /\ active = 0
    /\ token = [c \in Sessions |-> "none"]
    /\ holders = {}
    /\ lock = Nobody
    /\ pc = [v \in V2V |-> "new"]
    /\ toEvict = [v \in V2V |-> {}]
    /\ polls = [v \in V2V |-> 0]
    /\ cancelled = {}

-----------------------------------------------------------------------------
(* SessionLimiter *)

\* Mutant: _release without the _released guard.
ReleaseAgain(c) ==
    /\ UNCHANGED deployment
    /\ token' = [token EXCEPT ![c] = "released"]
    /\ active' = IF active > 0 THEN active - 1 ELSE 0

\* try_acquire(): a token, or None (Full).
TryAcquire(c) ==
    /\ active < Limit
    /\ active' = active + 1
    /\ token' = [token EXCEPT ![c] = "held"]
    /\ UNCHANGED deployment

Full == active >= Limit

\* token.release(), any number of times.
Release(c) ==
    IF token[c] = "held"
    THEN /\ token' = [token EXCEPT ![c] = "released"]
         /\ active' = IF active > 0 THEN active - 1 ELSE 0
         /\ UNCHANGED deployment
    ELSE UNCHANGED limiter

-----------------------------------------------------------------------------
(* acquire_http *)

HttpEnter(h) ==
    /\ token[h] # "held"
    /\ TryAcquire(h)
    /\ UNCHANGED <<holders, eviction, pc, cancelled>>

HttpExit(h) ==
    /\ token[h] = "held"
    /\ Release(h)
    /\ UNCHANGED <<holders, eviction, pc, cancelled>>

-----------------------------------------------------------------------------
(* Admission of a v2v connection *)

EvictEnabled == EvictOnFull /\ Limit = 1

Goto(v, where) == pc' = [pc EXCEPT ![v] = where]

\* The token is taken and the handle registered, with no await in between.
\* Only the Realtime handshake has one before the guarded region.
Admit(v) ==
    /\ TryAcquire(v)
    /\ holders' = holders \cup {v}
    /\ Goto(v, IF Realtime THEN "setup" ELSE "config")

\* Mutant: the poll gives up without leaving `async with`.
PollForgettingLock(v) ==
    /\ pc[v] = "polling"
    /\ \/ Admit(v) /\ lock' = Nobody /\ UNCHANGED polls
       \/ /\ Full
          /\ polls' = [polls EXCEPT ![v] = @ + 1]
          /\ Goto(v, IF polls'[v] = MaxPolls THEN "rejected" ELSE "polling")
          /\ UNCHANGED <<limiter, holders, lock>>
    /\ UNCHANGED <<toEvict, cancelled>>

\* The critical section of _v2v_evict_and_reacquire up to its first await:
\* another try, then the snapshot of the holders.  A slot held by an HTTP
\* request alone is not evicted.
TryOrEvict(v) ==
    \/ Admit(v) /\ lock' = Nobody /\ UNCHANGED toEvict
    \/ /\ Full /\ holders = {}
       /\ lock' = Nobody
       /\ Goto(v, "rejected")
       /\ UNCHANGED <<limiter, holders, toEvict>>
    \/ /\ Full /\ holders # {}
       /\ lock' = v
       /\ toEvict' = [toEvict EXCEPT ![v] = holders]
       /\ Goto(v, "closing")
       /\ UNCHANGED <<limiter, holders>>

\* The handler's first try, and what it does when the limiter is full.
Connect(v) ==
    /\ pc[v] = "new"
    /\ \/ Admit(v) /\ UNCHANGED eviction
       \/ /\ Full /\ ~EvictEnabled
          /\ Goto(v, "rejected")
          /\ UNCHANGED <<limiter, holders, eviction>>
       \/ /\ Full /\ EvictEnabled /\ lock = Nobody
          /\ TryOrEvict(v)
          /\ UNCHANGED polls
       \/ /\ Full /\ EvictEnabled /\ lock # Nobody
          /\ Goto(v, "lockwait")
          /\ UNCHANGED <<limiter, holders, eviction>>
    /\ UNCHANGED cancelled

\* Who gets the lock next is left open.
LockGranted(v) ==
    /\ pc[v] = "lockwait" /\ lock = Nobody
    /\ TryOrEvict(v)
    /\ UNCHANGED <<polls, cancelled>>

\* `await ws.close()` returned (or raised); the holder's task is cancelled
\* unless it is done.
CloseHolder(v) ==
    /\ pc[v] = "closing"
    /\ \E h \in toEvict[v] :
         /\ toEvict' = [toEvict EXCEPT ![v] = @ \ {h}]
         /\ cancelled' = IF pc[h] \in Admitted THEN cancelled \cup {h} ELSE cancelled
    /\ Goto(v, IF toEvict'[v] = {} THEN "polling" ELSE "closing")
    /\ UNCHANGED <<limiter, holders, lock, polls>>

\* One turn of the bounded wait.
Poll(v) ==
    /\ pc[v] = "polling"
    /\ \/ Admit(v) /\ lock' = Nobody /\ UNCHANGED polls
       \/ /\ Full
          /\ polls' = [polls EXCEPT ![v] = @ + 1]
          /\ IF polls'[v] = MaxPolls
             THEN Goto(v, "rejected") /\ lock' = Nobody
             ELSE UNCHANGED <<pc, lock>>
          /\ UNCHANGED <<limiter, holders>>
    /\ UNCHANGED <<toEvict, cancelled>>

-----------------------------------------------------------------------------
(* The admitted handler *)

\* The handler's task ends.
End(v) == Goto(v, "ended") /\ cancelled' = cancelled \ {v}

\* Mutant: the helper drops the handle and leaves the token to the finally
\* block that this path does not reach.
EndEarlyKeepingToken(v) ==
    /\ UNCHANGED limiter
    /\ holders' = holders \ {v}
    /\ End(v)

\* Mutant: the helper does not know of the eviction's bookkeeping.
EndEarlyKeepingHandle(v) ==
    /\ Release(v)
    /\ UNCHANGED holders
    /\ End(v)

\* _v2v_release_early(), and the return (or the raise) after it.
EndEarly(v) ==
    /\ Release(v)
    /\ holders' = holders \ {v}
    /\ End(v)

\* The session.created frame was sent.
SetupDone(v) ==
    /\ pc[v] = "setup" /\ v \notin cancelled
    /\ Goto(v, "config")
    /\ UNCHANGED <<limiter, holders, eviction, cancelled>>

\* It was not: the client is gone, or the handler was cancelled meanwhile.
\* This await is outside the region that releases anything.
SetupRaises(v) ==
    /\ pc[v] = "setup"
    /\ End(v)
    /\ UNCHANGED <<limiter, holders, eviction>>

\* A good config frame, and the backends are up.
ConfigDone(v) ==
    /\ pc[v] = "config" /\ v \notin cancelled
    /\ Goto(v, "running")
    /\ UNCHANGED <<limiter, holders, eviction, cancelled>>

\* Idle timeout, disconnect, bad config, no backend, cancellation.
ConfigFails(v) ==
    /\ pc[v] = "config"
    /\ EndEarly(v)
    /\ UNCHANGED eviction

\* The engine path: one finally around the engine.
EngineReturns(v) ==
    /\ Engine
    /\ pc[v] = "running"
    /\ EndEarly(v)
    /\ UNCHANGED eviction

\* The legacy path: the client closed, the turn ended, an error, or a
\* cancellation enters the finally block.  A CancelledError on its way is
\* either swallowed (the client had closed) or stays with the handler.
RunEnds(v) ==
    /\ ~Engine
    /\ pc[v] = "running"
    /\ Goto(v, "joining")
    /\ cancelled' \in {cancelled, cancelled \ {v}}
    /\ UNCHANGED <<limiter, holders, eviction>>

\* The work tasks are joined; the slot is released before the slow part.
TasksJoined(v) ==
    /\ pc[v] = "joining"
    /\ Release(v)
    /\ Goto(v, "farewell")
    /\ UNCHANGED <<holders, eviction, cancelled>>

\* The socket is closed and everything released once more.  The handle is
\* discarded only when a CancelledError goes on to the outer except clause.
Farewell(v) ==
    /\ pc[v] = "farewell"
    /\ Release(v)
    /\ holders' = IF v \in cancelled THEN holders \ {v} ELSE holders
    /\ End(v)
    /\ UNCHANGED eviction

\* A cancellation that arrives inside the finally block.
TeardownCancelled(v) ==
    /\ pc[v] \in {"joining", "farewell"}
    /\ v \in cancelled
    /\ EndEarly(v)
    /\ UNCHANGED eviction

\* /admin/backend/reload closes the sessions registered with its manager.
CancelledByReload(v) ==
    /\ pc[v] \in Admitted
    /\ cancelled' = cancelled \cup {v}
    /\ UNCHANGED <<limiter, holders, eviction, pc>>

-----------------------------------------------------------------------------
Newcomer(v) == Connect(v) \/ LockGranted(v) \/ CloseHolder(v) \/ Poll(v)

Teardown(v) == TasksJoined(v) \/ Farewell(v) \/ TeardownCancelled(v)

Handler(v) ==
    \/ SetupDone(v) \/ SetupRaises(v)
    \/ ConfigDone(v) \/ ConfigFails(v)
    \/ EngineReturns(v) \/ RunEnds(v) \/ Teardown(v)

Next ==
    \/ \E h \in Https : HttpEnter(h) \/ HttpExit(h)
    \/ \E v \in V2V : Newcomer(v) \/ Handler(v) \/ CancelledByReload(v)

Spec == Init /\ [][Next]_vars

\* A close returns and the poll timer fires.  Sessions last as long as they
\* like, cancelled or not.
Fairness ==
    \A v \in V2V : WF_vars(LockGranted(v)) /\ WF_vars(CloseHolder(v)) /\ WF_vars(Poll(v))

FairSpec == Spec /\ Fairness

-----------------------------------------------------------------------------
Held == {c \in Sessions : token[c] = "held"}

\* "Slot release is idempotent so generator finally blocks plus exception
\* paths cannot drive active negative": nor below the sessions that run, which
\* would admit one too many.
ActiveCountsSessions == active = Cardinality(Held)

SessionBound == Cardinality(Held) <= Limit

\* A handler that is gone holds no slot, whatever it died of.
NoLeakedSlot == \A v \in V2V : pc[v] \in Over => token[v] # "held"

\* A handler that is gone holds no slot, whatever ended it, and the newcomer
\* that evicts it can have the slot: where no Realtime handshake precedes the
\* guarded region.
SlotsComeBack == ~Realtime => NoLeakedSlot

\* The eviction sees the sessions there are, and nothing else: "every holder
\* is removed on _v2v_release_early's finally-guaranteed path".
HoldersAreLive ==
    /\ \A v \in holders : pc[v] \in Admitted
    /\ \A v \in V2V : pc[v] \in {"setup", "config", "running"} => v \in holders

\* So it does on the engine path, without that handshake.
EvictionSeesSessions == Engine /\ ~Realtime => HoldersAreLive

\* A newcomer gets an answer, however long the sessions it evicts take.
NewcomerIsAnswered ==
    \A v \in V2V : pc[v] \in {"lockwait", "closing", "polling"} ~> pc[v] \notin Before

=============================================================================
