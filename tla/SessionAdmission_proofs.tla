----------------------- MODULE SessionAdmission_proofs -----------------------
(***************************************************************************)
(* The session limiter counts exactly the sessions that hold a slot and    *)
(* admits no more than its limit, for any number of connections.  Slots    *)
(* and handles are returned by every handler that has no await outside its *)
(* guarded region (not Realtime), handles by those of the engine path.     *)
(***************************************************************************)
EXTENDS SessionAdmission, FiniteSetTheorems, TLAPS

\* A handler that has not been admitted, or was refused, holds nothing; the
\* handles are those of handlers that hold something; without the Realtime
\* handshake nobody ends holding, and on the engine path nobody lingers.
AdmissionInv ==
    /\ deployment \in Deployments
    /\ token \in [Sessions -> {"none", "held", "released"}]
    /\ pc \in [V2V -> Before \cup Admitted \cup Over]
    /\ holders \subseteq V2V
    /\ active \in Nat
    /\ active <= Limit
    /\ active = Cardinality(Held)
    /\ \A v \in V2V : pc[v] \in Before \cup {"rejected"} => token[v] # "held" /\ v \notin holders
    /\ \A v \in V2V : pc[v] \in {"setup", "config", "running"} => v \in holders
    /\ ~Realtime => \A v \in V2V : pc[v] # "setup"
    /\ ~Realtime => \A v \in V2V : pc[v] = "ended" => token[v] # "held"
    /\ Engine => \A v \in V2V : pc[v] \notin {"joining", "farewell"}
    /\ Engine /\ ~Realtime => \A v \in V2V : pc[v] = "ended" => v \notin holders

LEMMA HeldFinite == IsFiniteSet(Held) /\ Cardinality(Held) \in Nat
<1>1. IsFiniteSet(V2V) /\ IsFiniteSet(Https) BY AdmissionAssumption
<1>2. IsFiniteSet(Sessions) BY <1>1, FS_Union DEF Sessions
<1>3. Held \subseteq Sessions BY DEF Held
<1>4. IsFiniteSet(Held) BY <1>2, <1>3, FS_Subset
<1> QED BY <1>4, FS_CardinalityType

\* A token is taken by a session that holds none.
LEMMA Acquired ==
    ASSUME AdmissionInv, NEW c \in Sessions, token[c] # "held", TryAcquire(c)
    PROVE  /\ token' \in [Sessions -> {"none", "held", "released"}]
           /\ active' \in Nat /\ active' <= Limit /\ active' = Cardinality(Held')
           /\ deployment' = deployment
           /\ token'[c] = "held"
           /\ \A d \in Sessions : d # c => token'[d] = token[d]
<1>1. /\ token' = [token EXCEPT ![c] = "held"] /\ active' = active + 1 /\ active < Limit
      /\ deployment' = deployment
  BY DEF TryAcquire
<1>2. token' \in [Sessions -> {"none", "held", "released"}]
  BY <1>1 DEF AdmissionInv
<1>3. token'[c] = "held" /\ \A d \in Sessions : d # c => token'[d] = token[d]
  BY <1>1 DEF AdmissionInv
<1>4. c \notin Held BY DEF Held
<1>5. Held' = Held \cup {c} BY <1>3 DEF Held
<1>6. Cardinality(Held \cup {c}) = Cardinality(Held) + 1
  BY <1>4, HeldFinite, FS_AddElement
<1>7. active' \in Nat /\ active' <= Limit
  BY <1>1, AdmissionAssumption DEF AdmissionInv, Limit
<1>8. active' = Cardinality(Held')
  BY <1>1, <1>5, <1>6 DEF AdmissionInv
<1> QED BY <1>1, <1>2, <1>3, <1>7, <1>8

\* However often a token is released, the count drops once.
LEMMA Released ==
    ASSUME AdmissionInv, NEW c \in Sessions, Release(c)
    PROVE  /\ token' \in [Sessions -> {"none", "held", "released"}]
           /\ active' \in Nat /\ active' <= Limit /\ active' = Cardinality(Held')
           /\ deployment' = deployment
           /\ token'[c] # "held"
           /\ \A d \in Sessions : d # c => token'[d] = token[d]
<1>1. CASE token[c] = "held"
  <2>1. token' = [token EXCEPT ![c] = "released"] BY <1>1 DEF Release
  <2>2. active' = (IF active > 0 THEN active - 1 ELSE 0) /\ deployment' = deployment
    BY <1>1 DEF Release
  <2>3. token' \in [Sessions -> {"none", "held", "released"}]
    BY <2>1 DEF AdmissionInv
  <2>4. token'[c] # "held" /\ \A d \in Sessions : d # c => token'[d] = token[d]
    BY <2>1 DEF AdmissionInv
  <2>5. c \in Held BY <1>1 DEF Held
  <2>6. Held' = Held \ {c} BY <2>4 DEF Held
  <2>7. Cardinality(Held \ {c}) = Cardinality(Held) - 1
    BY <2>5, HeldFinite, FS_RemoveElement
  <2>8. Cardinality(Held) # 0
    BY <2>5, HeldFinite, FS_EmptySet
  <2>9. active' \in Nat /\ active' <= Limit /\ active' = Cardinality(Held')
    BY <2>2, <2>6, <2>7, <2>8, HeldFinite, AdmissionAssumption DEF AdmissionInv, Limit
  <2> QED BY <2>2, <2>3, <2>4, <2>9
<1>2. CASE token[c] # "held"
  <2>1. token' = token /\ active' = active /\ deployment' = deployment BY <1>2 DEF Release, limiter
  <2>2. Held' = Held BY <2>1 DEF Held
  <2> QED BY <1>2, <2>1, <2>2 DEF AdmissionInv
<1> QED BY <1>1, <1>2

\* Nothing happens to the limiter.
LEMMA Untouched ==
    ASSUME AdmissionInv, UNCHANGED limiter
    PROVE  /\ token' \in [Sessions -> {"none", "held", "released"}]
           /\ active' \in Nat /\ active' <= Limit /\ active' = Cardinality(Held')
           /\ deployment' = deployment
           /\ token' = token
<1>1. token' = token /\ active' = active /\ deployment' = deployment BY DEF limiter
<1>2. Held' = Held BY <1>1 DEF Held
<1> QED BY <1>1, <1>2 DEF AdmissionInv

LEMMA V2VAreSessions == \A v \in V2V : v \in Sessions
BY DEF Sessions

-----------------------------------------------------------------------------
\* The three things a step does to a v2v handler.

LEMMA AdmitStep ==
    ASSUME AdmissionInv, NEW v \in V2V, pc[v] \in Before, Admit(v)
    PROVE  AdmissionInv'
<1>0. v \in Sessions /\ token[v] # "held" BY V2VAreSessions DEF AdmissionInv
<1>1. TryAcquire(v) /\ holders' = holders \cup {v} BY DEF Admit
<1>2. pc' = [pc EXCEPT ![v] = IF Realtime THEN "setup" ELSE "config"]
  BY DEF Admit, Goto
<1>3. /\ token' \in [Sessions -> {"none", "held", "released"}]
      /\ active' \in Nat /\ active' <= Limit /\ active' = Cardinality(Held')
      /\ deployment' = deployment
      /\ \A d \in Sessions : d # v => token'[d] = token[d]
  BY <1>0, <1>1, Acquired
<1>4. \A d \in V2V : d # v => token'[d] = token[d] BY <1>3, V2VAreSessions
<1> QED BY <1>1, <1>2, <1>3, <1>4 DEF AdmissionInv, Before, Admitted, Over, Limit, Realtime, Engine

LEMMA EndEarlyStep ==
    ASSUME AdmissionInv, NEW v \in V2V, EndEarly(v)
    PROVE  AdmissionInv'
<1>1. Release(v) /\ holders' = holders \ {v} /\ pc' = [pc EXCEPT ![v] = "ended"]
  BY DEF EndEarly, End, Goto
<1>2. /\ token' \in [Sessions -> {"none", "held", "released"}]
      /\ active' \in Nat /\ active' <= Limit /\ active' = Cardinality(Held')
      /\ deployment' = deployment
      /\ token'[v] # "held"
      /\ \A d \in Sessions : d # v => token'[d] = token[d]
  BY <1>1, Released, V2VAreSessions
<1>3. \A d \in V2V : d # v => token'[d] = token[d] BY <1>2, V2VAreSessions
<1> QED BY <1>1, <1>2, <1>3 DEF AdmissionInv, Before, Admitted, Over, Limit, Realtime, Engine

\* A move between two places that the invariant treats alike.
LEMMA MoveStep ==
    ASSUME AdmissionInv, NEW v \in V2V, NEW where \in Before \cup Admitted \cup Over,
           UNCHANGED <<limiter, holders>>, Goto(v, where),
           \/ pc[v] \in Before /\ where \in Before \cup {"rejected"}
           \/ pc[v] \in {"setup", "config"} /\ where \in {"config", "running"}
           \/ ~Engine /\ where = "joining"
    PROVE  AdmissionInv'
<1>1. pc' = [pc EXCEPT ![v] = where] /\ holders' = holders BY DEF Goto
<1>2. /\ token' \in [Sessions -> {"none", "held", "released"}]
      /\ active' \in Nat /\ active' <= Limit /\ active' = Cardinality(Held')
      /\ deployment' = deployment
      /\ token' = token
  BY Untouched
<1> QED BY <1>1, <1>2 DEF AdmissionInv, Before, Admitted, Over, Limit, Realtime, Engine

\* Nothing of the invariant changes.
LEMMA StillStep ==
    ASSUME AdmissionInv, UNCHANGED <<limiter, holders, pc>>
    PROVE  AdmissionInv'
<1>1. pc' = pc /\ holders' = holders OBVIOUS
<1>2. /\ token' \in [Sessions -> {"none", "held", "released"}]
      /\ active' \in Nat /\ active' <= Limit /\ active' = Cardinality(Held')
      /\ deployment' = deployment
      /\ token' = token
  BY Untouched
<1> QED BY <1>1, <1>2 DEF AdmissionInv, Limit, Realtime, Engine

LEMMA TryOrEvictStep ==
    ASSUME AdmissionInv, NEW v \in V2V, pc[v] \in Before, TryOrEvict(v)
    PROVE  AdmissionInv'
<1>1. CASE Admit(v) BY <1>1, AdmitStep
<1>2. CASE Goto(v, "rejected") /\ UNCHANGED <<limiter, holders>>
  BY <1>2, MoveStep DEF Before, Admitted, Over
<1>3. CASE Goto(v, "closing") /\ UNCHANGED <<limiter, holders>>
  BY <1>3, MoveStep DEF Before, Admitted, Over
<1> QED BY <1>1, <1>2, <1>3 DEF TryOrEvict

-----------------------------------------------------------------------------
LEMMA NewcomerStep ==
    ASSUME AdmissionInv, NEW v \in V2V, Newcomer(v)
    PROVE  AdmissionInv'
<1>1. CASE Connect(v)
  <2>0. pc[v] \in Before BY <1>1 DEF Connect, Before
  <2>1. CASE Admit(v) BY <2>0, <2>1, AdmitStep
  <2>2. CASE Goto(v, "rejected") /\ UNCHANGED <<limiter, holders>>
    BY <2>0, <2>2, MoveStep DEF Before, Admitted, Over
  <2>3. CASE TryOrEvict(v) BY <2>0, <2>3, TryOrEvictStep
  <2>4. CASE Goto(v, "lockwait") /\ UNCHANGED <<limiter, holders>>
    BY <2>0, <2>4, MoveStep DEF Before, Admitted, Over
  <2> QED BY <1>1, <2>1, <2>2, <2>3, <2>4 DEF Connect
<1>2. CASE LockGranted(v)
  BY <1>2, TryOrEvictStep DEF LockGranted, Before
<1>3. CASE CloseHolder(v)
  <2>1. pc[v] = "closing" /\ UNCHANGED <<limiter, holders>> BY <1>3 DEF CloseHolder
  <2>2. Goto(v, "polling") \/ Goto(v, "closing")
    BY <1>3 DEF CloseHolder
  <2>3. CASE Goto(v, "polling")
    BY <2>1, <2>3, MoveStep DEF Before, Admitted, Over
  <2>4. CASE Goto(v, "closing")
    BY <2>1, <2>4, MoveStep DEF Before, Admitted, Over
  <2> QED BY <2>2, <2>3, <2>4
<1>4. CASE Poll(v)
  <2>0. pc[v] \in Before BY <1>4 DEF Poll, Before
  <2>1. CASE Admit(v) BY <2>0, <2>1, AdmitStep
  <2>2. CASE Goto(v, "rejected") /\ UNCHANGED <<limiter, holders>>
    BY <2>0, <2>2, MoveStep DEF Before, Admitted, Over
  <2>3. CASE UNCHANGED <<limiter, holders, pc>> BY <2>3, StillStep
  <2> QED BY <1>4, <2>1, <2>2, <2>3 DEF Poll
<1> QED BY <1>1, <1>2, <1>3, <1>4 DEF Newcomer

LEMMA HandlerStep ==
    ASSUME AdmissionInv, NEW v \in V2V, Handler(v)
    PROVE  AdmissionInv'
<1>1. CASE SetupDone(v)
  BY <1>1, MoveStep DEF SetupDone, Before, Admitted, Over
<1>2. CASE SetupRaises(v)
  <2>1. pc[v] = "setup" /\ pc' = [pc EXCEPT ![v] = "ended"] /\ UNCHANGED <<limiter, holders>>
    BY <1>2 DEF SetupRaises, End, Goto
  <2>2. Realtime BY <2>1 DEF AdmissionInv
  <2>3. /\ token' \in [Sessions -> {"none", "held", "released"}]
        /\ active' \in Nat /\ active' <= Limit /\ active' = Cardinality(Held')
        /\ deployment' = deployment
        /\ token' = token
    BY <2>1, Untouched
  <2> QED BY <2>1, <2>2, <2>3 DEF AdmissionInv, Before, Admitted, Over, Limit, Realtime, Engine
<1>3. CASE ConfigDone(v)
  BY <1>3, MoveStep DEF ConfigDone, Before, Admitted, Over
<1>4. CASE ConfigFails(v) \/ EngineReturns(v) \/ TeardownCancelled(v)
  BY <1>4, EndEarlyStep DEF ConfigFails, EngineReturns, TeardownCancelled
<1>5. CASE RunEnds(v)
  BY <1>5, MoveStep DEF RunEnds, Before, Admitted, Over
<1>6. CASE TasksJoined(v) \/ Farewell(v)
  <2>1. Release(v) /\ pc[v] \in {"joining", "farewell"} /\ holders' \in {holders, holders \ {v}}
    BY <1>6 DEF TasksJoined, Farewell
  <2>2. /\ pc' \in {[pc EXCEPT ![v] = "farewell"], [pc EXCEPT ![v] = "ended"]}
    BY <1>6 DEF TasksJoined, Farewell, End, Goto
  <2>3. /\ token' \in [Sessions -> {"none", "held", "released"}]
        /\ active' \in Nat /\ active' <= Limit /\ active' = Cardinality(Held')
        /\ deployment' = deployment
        /\ token'[v] # "held"
        /\ \A d \in Sessions : d # v => token'[d] = token[d]
    BY <2>1, Released, V2VAreSessions
  <2>4. \A d \in V2V : d # v => token'[d] = token[d] BY <2>3, V2VAreSessions
  <2>5. ~Engine BY <2>1 DEF AdmissionInv
  <2> QED BY <2>1, <2>2, <2>3, <2>4, <2>5 DEF AdmissionInv, Before, Admitted, Over, Limit, Realtime, Engine
<1> QED BY <1>1, <1>2, <1>3, <1>4, <1>5, <1>6 DEF Handler, Teardown

LEMMA HttpStep ==
    ASSUME AdmissionInv, NEW h \in Https, HttpEnter(h) \/ HttpExit(h)
    PROVE  AdmissionInv'
<1>0. h \in Sessions BY DEF Sessions
<1>1. \A v \in V2V : v \in Sessions /\ v # h BY AdmissionAssumption DEF Sessions
<1>2. pc' = pc /\ holders' = holders BY DEF HttpEnter, HttpExit
<1>3. /\ token' \in [Sessions -> {"none", "held", "released"}]
      /\ active' \in Nat /\ active' <= Limit /\ active' = Cardinality(Held')
      /\ deployment' = deployment
      /\ \A d \in Sessions : d # h => token'[d] = token[d]
  <2>1. CASE HttpEnter(h) BY <1>0, <2>1, Acquired DEF HttpEnter
  <2>2. CASE HttpExit(h) BY <1>0, <2>2, Released DEF HttpExit
  <2> QED BY <2>1, <2>2
<1>4. \A v \in V2V : token'[v] = token[v] BY <1>1, <1>3
<1> QED BY <1>2, <1>3, <1>4 DEF AdmissionInv, Limit, Realtime, Engine

LEMMA InvInit == Init => AdmissionInv
<1> SUFFICES ASSUME Init PROVE AdmissionInv OBVIOUS
<1>1. Held = {} BY DEF Init, Held
<1>2. Cardinality(Held) = 0 BY <1>1, FS_EmptySet
<1>3. \A c \in Sessions : token[c] = "none" BY DEF Init
<1>4. \A v \in V2V : token[v] = "none" /\ pc[v] = "new" BY <1>3, V2VAreSessions DEF Init
<1>5. deployment \in Deployments /\ Limit \in Nat \ {0} BY AdmissionAssumption DEF Init, Limit
<1>6. active = 0 /\ active \in Nat /\ active <= Limit /\ active = Cardinality(Held)
  BY <1>2, <1>5 DEF Init
<1>7. /\ token \in [Sessions -> {"none", "held", "released"}]
      /\ pc \in [V2V -> Before \cup Admitted \cup Over]
      /\ holders \subseteq V2V /\ \A v \in V2V : v \notin holders
  BY DEF Init, Before
<1> QED BY <1>4, <1>5, <1>6, <1>7 DEF AdmissionInv

LEMMA InvStep == AdmissionInv /\ [Next]_vars => AdmissionInv'
<1> SUFFICES ASSUME AdmissionInv, [Next]_vars PROVE AdmissionInv' OBVIOUS
<1>1. CASE \E h \in Https : HttpEnter(h) \/ HttpExit(h) BY <1>1, HttpStep
<1>2. CASE \E v \in V2V : Newcomer(v) BY <1>2, NewcomerStep
<1>3. CASE \E v \in V2V : Handler(v) BY <1>3, HandlerStep
<1>4. CASE \E v \in V2V : CancelledByReload(v) BY <1>4, StillStep DEF CancelledByReload
<1>5. CASE UNCHANGED vars BY <1>5, StillStep DEF vars
<1> QED BY <1>1, <1>2, <1>3, <1>4, <1>5 DEF Next

\* The invariant holds in every reachable state of every instance.
THEOREM Invariance == Spec => []AdmissionInv
<1> QED BY InvInit, InvStep, PTL DEF Spec

\* The limiter's counter is the number of unreleased tokens, whatever is
\* released twice.
THEOREM Counting == Spec => []ActiveCountsSessions
<1>1. AdmissionInv => ActiveCountsSessions BY DEF AdmissionInv, ActiveCountsSessions
<1> QED BY <1>1, Invariance, PTL

\* Never more sessions than resolve_limit() allows.
THEOREM Bounded == Spec => []SessionBound
<1>1. AdmissionInv => SessionBound BY DEF AdmissionInv, SessionBound
<1> QED BY <1>1, Invariance, PTL

\* Without the Realtime handshake, whose first await nothing guards, a handler
\* that ended has returned its slot.
THEOREM SlotsReturned == Spec => []SlotsComeBack
<1>1. AdmissionInv => SlotsComeBack
  BY DEF AdmissionInv, SlotsComeBack, NoLeakedSlot, Over
<1> QED BY <1>1, Invariance, PTL

\* On the engine path without that handshake, the eviction's bookkeeping names
\* live sessions only, and all of them.
THEOREM HandlesExact == Spec => []EvictionSeesSessions
<1>1. AdmissionInv => EvictionSeesSessions
  BY DEF AdmissionInv, EvictionSeesSessions, HoldersAreLive, Before, Admitted, Over
<1> QED BY <1>1, Invariance, PTL

=============================================================================
