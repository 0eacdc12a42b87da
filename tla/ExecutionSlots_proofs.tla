------------------------ MODULE ExecutionSlots_proofs ------------------------
(***************************************************************************)
(* The utterance slot for any number of tasks: permits and the lock stay   *)
(* with tasks that will return them, the gate bounds the ASR backlog on    *)
(* the lock; as long as nobody walks away from a running thread, never two *)
(* inferences at once under the lock, never more utterances than the gate  *)
(* admits, and in exclusive mode no backend is evicted, or joined by one   *)
(* that could be unloaded, while one of its threads runs.  The last        *)
(* section is about TtsStream, the request that keeps its slot beyond its  *)
(* own end.                                                                *)
(***************************************************************************)
EXTENDS ExecutionSlots, TtsStream, FiniteSetTheorems, TLAPS

Places == {"out", "open", "gate", "lock", "in", "draining"}

LockInv ==
    /\ lockHolders \subseteq Tasks /\ lockWaiting \subseteq Tasks
    /\ \A t, u \in lockHolders : t = u
    /\ \A t \in lockHolders : pc[t] \in {"lock", "in", "draining"}
    /\ \A t \in lockWaiting : pc[t] = "lock" /\ t \notin lockHolders
    /\ HasLock => \A t \in Tasks : pc[t] \in {"in", "draining"} => t \in lockHolders

GateInv ==
    /\ gateHolders \subseteq Streams /\ gateWaiting \subseteq Streams
    /\ Cardinality(gateHolders) <= GateConcurrency
    /\ \A s \in gateHolders : pc[s] \in {"gate", "lock", "in", "draining"}
    /\ \A s \in gateWaiting : pc[s] = "gate" /\ s \notin gateHolders
    /\ \A s \in Streams : PerUtterance(s) /\ pc[s] \in {"lock", "in", "draining"} => s \in gateHolders

ThreadInv ==
    /\ StreamsPatient => \A s \in Streams : Infers(s) => pc[s] \in {"in", "draining"}
    /\ AllPatient => \A t \in Tasks : Infers(t) => pc[t] \in {"in", "draining"}

\* Where a task may be: only an utterance stream is between utterances or
\* at the gate.
PlaceInv ==
    /\ pc \in [Tasks -> Places]
    /\ thread \in [Tasks -> {"none", "accept", "inference"}]
    /\ \A t \in Tasks : pc[t] \in {"open", "gate"} => PerUtterance(t)

SlotsInv == PlaceInv /\ LockInv /\ GateInv /\ ThreadInv

-----------------------------------------------------------------------------
(* What a step of task t, which goes to w, may do to the lock, to the gate *)
(* and to the threads.                                                     *)

LockStep(t, w) ==
    /\ lockHolders' \subseteq Tasks /\ lockWaiting' \subseteq Tasks
    /\ \A u, v \in lockHolders' : u = v
    /\ \A u \in lockWaiting' : u \notin lockHolders'
    /\ \A u \in Tasks \ {t} :
         /\ u \in lockHolders' => u \in lockHolders \cup lockWaiting
         /\ u \in lockHolders => u \in lockHolders'
         /\ u \in lockWaiting' => u \in lockWaiting
    /\ t \in lockHolders' => w \in {"lock", "in", "draining"}
    /\ t \in lockWaiting' => w = "lock"
    /\ HasLock /\ w \in {"in", "draining"} => t \in lockHolders'

GateStep(t, w) ==
    /\ gateHolders' \subseteq Streams /\ gateWaiting' \subseteq Streams
    /\ Cardinality(gateHolders') <= GateConcurrency
    /\ \A u \in gateWaiting' : u \notin gateHolders'
    /\ \A u \in Streams \ {t} :
         /\ u \in gateHolders' => u \in gateHolders \cup gateWaiting
         /\ u \in gateHolders => u \in gateHolders'
         /\ u \in gateWaiting' => u \in gateWaiting
    /\ t \in gateHolders' => w \in {"gate", "lock", "in", "draining"}
    /\ t \in gateWaiting' => w = "gate"
    /\ PerUtterance(t) /\ w \in {"lock", "in", "draining"} => t \in gateHolders'

ThreadStep(t, w) ==
    /\ thread' \in [Tasks -> {"none", "accept", "inference"}]
    /\ \A u \in Tasks \ {t} : thread'[u] = thread[u]
    /\ StreamsPatient /\ t \in Streams /\ thread'[t] = "inference" => w \in {"in", "draining"}
    /\ AllPatient /\ thread'[t] = "inference" => w \in {"in", "draining"}

\* Such a step preserves the invariant.
LEMMA Preserved ==
    ASSUME SlotsInv, deployment' = deployment, NEW t \in Tasks, NEW w \in Places,
           pc' = [pc EXCEPT ![t] = w],
           w \in {"open", "gate"} => PerUtterance(t),
           LockStep(t, w), GateStep(t, w), ThreadStep(t, w)
    PROVE  SlotsInv'
<1>0. Streams \subseteq Tasks BY DEF Tasks
<1>1. pc'[t] = w /\ \A u \in Tasks \ {t} : pc'[u] = pc[u]
  BY DEF SlotsInv, PlaceInv
<1>2. PlaceInv'
  BY <1>1 DEF SlotsInv, PlaceInv, ThreadStep, PerUtterance, SentenceLevel, Exclusive
<1>3. LockInv'
  BY <1>1 DEF SlotsInv, LockInv, LockStep, HasLock
<1>4. GateInv'
  BY <1>0, <1>1 DEF SlotsInv, GateInv, GateStep, PerUtterance, SentenceLevel, Exclusive
<1>5. ThreadInv'
  BY <1>0, <1>1 DEF SlotsInv, ThreadInv, ThreadStep, Infers, StreamsPatient, AllPatient
<1> QED BY <1>2, <1>3, <1>4, <1>5 DEF SlotsInv

-----------------------------------------------------------------------------
(* The lock *)

LEMMA StreamsFinite == IsFiniteSet(Tasks) /\ IsFiniteSet(Streams)
<1>1. Streams \subseteq Tasks BY DEF Tasks
<1> QED BY <1>1, SlotsAssumption, FS_Subset

LEMMA LockKept ==
    ASSUME SlotsInv, NEW t \in Tasks, NEW w \in Places, UNCHANGED lockVars,
           t \in lockHolders => w \in {"lock", "in", "draining"},
           t \in lockWaiting => w = "lock",
           HasLock /\ w \in {"in", "draining"} => t \in lockHolders
    PROVE  LockStep(t, w)
BY DEF SlotsInv, LockInv, LockStep, lockVars

\* Entering: the lock was free.
LEMMA LockEntered ==
    ASSUME SlotsInv, NEW t \in Tasks, NEW w \in {"lock", "in", "draining"}, Lock!Enter(t)
    PROVE  LockStep(t, w)
<1>1. /\ t \notin lockHolders \cup lockWaiting
      /\ lockWaiting = {} /\ lockWaiting' = lockWaiting
      /\ Lock!Cardinality(lockHolders) < 1
      /\ lockHolders' = lockHolders \cup {t}
  BY DEF Lock!Enter
<1>2. Lock!Cardinality(lockHolders) = Cardinality(lockHolders)
  BY Zenon DEF Lock!Cardinality, Cardinality
<1>3. IsFiniteSet(lockHolders)
  BY StreamsFinite, FS_Subset DEF SlotsInv, LockInv
<1>4. Cardinality(lockHolders) \in Nat BY <1>3, FS_CardinalityType
<1>5. lockHolders = {} BY <1>1, <1>2, <1>3, <1>4, FS_EmptySet
<1> QED BY <1>1, <1>5 DEF SlotsInv, LockInv, LockStep

LEMMA LockQueued ==
    ASSUME SlotsInv, NEW t \in Tasks, Lock!Wait(t)
    PROVE  LockStep(t, "lock")
BY DEF Lock!Wait, SlotsInv, LockInv, LockStep

LEMMA LockAbandoned ==
    ASSUME SlotsInv, NEW t \in Tasks, Lock!Abandon(t)
    PROVE  LockStep(t, "out")
BY DEF Lock!Abandon, SlotsInv, LockInv, LockStep

LEMMA LockReturned ==
    ASSUME SlotsInv, NEW t \in Tasks, NEW w \in {"out", "open"}, Lock!Return(t)
    PROVE  LockStep(t, w)
<1>1. t \in lockHolders /\ lockHolders = {t} BY DEF Lock!Return, SlotsInv, LockInv
<1>2. CASE lockWaiting = {} /\ lockHolders' = lockHolders \ {t} /\ UNCHANGED <<lockWaiting, lockAhead>>
  BY <1>1, <1>2 DEF SlotsInv, LockInv, LockStep
<1>3. CASE \E first \in lockWaiting :
             /\ lockHolders' = (lockHolders \ {t}) \cup {first}
             /\ lockWaiting' = lockWaiting \ {first}
  BY <1>1, <1>3 DEF SlotsInv, LockInv, LockStep
<1> QED BY <1>2, <1>3 DEF Lock!Return

LEMMA LockLeft ==
    ASSUME SlotsInv, NEW t \in Tasks, NEW w \in {"out", "open"}, LeaveLock(t), t \notin lockWaiting
    PROVE  LockStep(t, w)
<1>1. CASE t \in lockHolders BY <1>1, LockReturned DEF LeaveLock
<1>2. CASE t \notin lockHolders
  BY <1>2, LockKept DEF LeaveLock, Places
<1> QED BY <1>1, <1>2

-----------------------------------------------------------------------------
(* The gate *)

LEMMA GateFinite ==
    ASSUME SlotsInv
    PROVE  /\ IsFiniteSet(gateHolders) /\ IsFiniteSet(gateWaiting)
           /\ Cardinality(gateHolders) \in Nat
           /\ Gate!Cardinality(gateHolders) = Cardinality(gateHolders)
<1>1. IsFiniteSet(gateHolders) /\ IsFiniteSet(gateWaiting)
  BY StreamsFinite, FS_Subset DEF SlotsInv, GateInv
<1>2. Gate!Cardinality(gateHolders) = Cardinality(gateHolders)
  BY Zenon DEF Gate!Cardinality, Cardinality
<1> QED BY <1>1, <1>2, FS_CardinalityType

LEMMA GateKept ==
    ASSUME SlotsInv, NEW t \in Tasks, NEW w \in Places, UNCHANGED gateVars,
           t \in gateHolders => w \in {"gate", "lock", "in", "draining"},
           t \in gateWaiting => w = "gate",
           PerUtterance(t) /\ w \in {"lock", "in", "draining"} => t \in gateHolders
    PROVE  GateStep(t, w)
BY DEF SlotsInv, GateInv, GateStep, gateVars

LEMMA GateEntered ==
    ASSUME SlotsInv, NEW t \in Streams, NEW w \in {"gate", "lock", "in", "draining"}, Gate!Enter(t)
    PROVE  GateStep(t, w)
<1>1. /\ t \notin gateHolders \cup gateWaiting
      /\ gateWaiting' = gateWaiting
      /\ Gate!Cardinality(gateHolders) < GateConcurrency
      /\ gateHolders' = gateHolders \cup {t}
  BY DEF Gate!Enter
<1>2. Cardinality(gateHolders \cup {t}) = Cardinality(gateHolders) + 1
  BY <1>1, GateFinite, FS_AddElement
<1>3. Cardinality(gateHolders') <= GateConcurrency
  BY <1>1, <1>2, GateFinite, SlotsAssumption
<1> QED BY <1>1, <1>3 DEF SlotsInv, GateInv, GateStep

LEMMA GateQueued ==
    ASSUME SlotsInv, NEW t \in Streams, Gate!Wait(t)
    PROVE  GateStep(t, "gate")
BY DEF Gate!Wait, SlotsInv, GateInv, GateStep

LEMMA GateAbandoned ==
    ASSUME SlotsInv, NEW t \in Tasks, Gate!Abandon(t)
    PROVE  GateStep(t, "out")
BY DEF Gate!Abandon, SlotsInv, GateInv, GateStep

LEMMA GateReturned ==
    ASSUME SlotsInv, NEW t \in Tasks, NEW w \in {"out", "open"}, Gate!Return(t)
    PROVE  GateStep(t, w)
<1>1. t \in gateHolders /\ t \notin gateWaiting
  BY DEF Gate!Return, SlotsInv, GateInv
<1>2. IsFiniteSet(gateHolders \ {t}) /\ t \notin gateHolders \ {t}
  BY GateFinite, FS_Subset
<1>3. Cardinality(gateHolders \ {t}) = Cardinality(gateHolders) - 1
  BY <1>1, GateFinite, FS_RemoveElement
<1>4. CASE gateWaiting = {} /\ gateHolders' = gateHolders \ {t} /\ UNCHANGED <<gateWaiting, gateAhead>>
  <2>1. Cardinality(gateHolders') <= GateConcurrency
    BY <1>3, <1>4, GateFinite, SlotsAssumption DEF SlotsInv, GateInv
  <2> QED BY <1>1, <1>4, <2>1 DEF SlotsInv, GateInv, GateStep
<1>5. ASSUME NEW first \in gateWaiting,
             gateHolders' = (gateHolders \ {t}) \cup {first},
             gateWaiting' = gateWaiting \ {first}
      PROVE  GateStep(t, w)
  <2>1. first \notin gateHolders \ {t} /\ first # t BY <1>1 DEF SlotsInv, GateInv
  <2>2. Cardinality((gateHolders \ {t}) \cup {first}) = Cardinality(gateHolders \ {t}) + 1
    BY <1>2, <2>1, FS_AddElement
  <2>3. Cardinality(gateHolders') <= GateConcurrency
    BY <1>3, <1>5, <2>2, GateFinite, SlotsAssumption DEF SlotsInv, GateInv
  <2> QED BY <1>1, <1>5, <2>1, <2>3 DEF SlotsInv, GateInv, GateStep
<1> QED BY <1>4, <1>5 DEF Gate!Return

LEMMA GateLeft ==
    ASSUME SlotsInv, NEW t \in Tasks, NEW w \in {"out", "open"}, LeaveGate(t), t \notin gateWaiting
    PROVE  GateStep(t, w)
<1>1. CASE t \in gateHolders BY <1>1, GateReturned DEF LeaveGate
<1>2. CASE t \notin gateHolders BY <1>2, GateKept DEF LeaveGate, Places
<1> QED BY <1>1, <1>2

-----------------------------------------------------------------------------
(* The steps *)

LEMMA ThreadKept ==
    ASSUME SlotsInv, NEW t \in Tasks, NEW w \in Places, UNCHANGED thread,
           \/ ~Infers(t)
           \/ w \in {"in", "draining"}
           \/ ~AllPatient /\ (t \in Streams => ~StreamsPatient)
           \/ pc[t] \notin {"in", "draining"}
    PROVE  ThreadStep(t, w)
<1>1. Streams \subseteq Tasks BY DEF Tasks
<1> QED BY <1>1 DEF SlotsInv, PlaceInv, ThreadInv, ThreadStep, Infers

LEMMA Admitted ==
    ASSUME SlotsInv, NEW t \in Tasks, Admit(t)
    PROVE  pc' = [pc EXCEPT ![t] = "in"] /\ ThreadStep(t, "in") /\ deployment' = deployment
BY DEF Admit, SlotsInv, PlaceInv, ThreadStep

LEMMA Refused ==
    ASSUME SlotsInv, NEW t \in Tasks, Refuse(t), pc[t] \notin {"in", "draining"}
    PROVE  /\ pc' = [pc EXCEPT ![t] = "out"] /\ ThreadStep(t, "out")
           /\ HasLock /\ ~PerUtterance(t) /\ deployment' = deployment
<1>1. ThreadStep(t, "out") BY ThreadKept DEF Refuse, Places
<1> QED BY <1>1 DEF Refuse, HasLock, Exclusive, PerUtterance, SentenceLevel

\* TakeLock by a task that has no part in the lock yet; the gate is the
\* caller's business.
LEMMA TakeLockStep ==
    ASSUME SlotsInv, NEW t \in Tasks, TakeLock(t), pc[t] \in {"out", "open", "gate"},
           PerUtterance(t) => GateStep(t, "in") /\ GateStep(t, "lock"),
           ~PerUtterance(t) => UNCHANGED gateVars
    PROVE  SlotsInv'
<1>1. t \notin lockHolders /\ t \notin lockWaiting
  BY DEF SlotsInv, LockInv
<1>2. ASSUME ~PerUtterance(t), NEW w \in {"in", "lock", "out"}
      PROVE  GateStep(t, w)
  <2>1. t \notin gateHolders /\ t \notin gateWaiting
    <3>1. pc[t] = "out" BY <1>2 DEF SlotsInv, PlaceInv
    <3> QED BY <3>1 DEF SlotsInv, GateInv
  <2> QED BY <1>2, <2>1, GateKept DEF Places
<1>3. CASE ~HasLock /\ Admit(t) /\ UNCHANGED lockVars
  <2>1. LockStep(t, "in") BY <1>1, <1>3, LockKept DEF Places
  <2>2. GateStep(t, "in") BY <1>2
  <2> QED BY <1>3, <2>1, <2>2, Admitted, Preserved DEF Places
<1>4. CASE Lock!Enter(t) /\ Admit(t)
  <2>1. LockStep(t, "in") BY <1>4, LockEntered
  <2>2. GateStep(t, "in") BY <1>2
  <2> QED BY <1>4, <2>1, <2>2, Admitted, Preserved DEF Places
<1>5. CASE Lock!Wait(t) /\ pc' = [pc EXCEPT ![t] = "lock"] /\ UNCHANGED <<thread, server>>
  <2>1. LockStep(t, "lock") BY <1>5, LockQueued
  <2>2. GateStep(t, "lock") BY <1>2
  <2>3. ThreadStep(t, "lock") BY <1>5, ThreadKept DEF Places
  <2> QED BY <1>5, <2>1, <2>2, <2>3, Preserved DEF Places, server
<1>6. CASE Refuse(t) /\ UNCHANGED lockVars
  <2>1. pc' = [pc EXCEPT ![t] = "out"] /\ ThreadStep(t, "out") /\ ~PerUtterance(t) /\ deployment' = deployment
    BY <1>6, Refused
  <2>2. LockStep(t, "out") BY <1>1, <1>6, LockKept DEF Places
  <2>3. GateStep(t, "out") BY <1>2, <2>1
  <2> QED BY <2>1, <2>2, <2>3, Preserved DEF Places
<1> QED BY <1>3, <1>4, <1>5, <1>6 DEF TakeLock

LEMMA ArriveStep ==
    ASSUME SlotsInv, NEW t \in Tasks, Arrive(t)
    PROVE  SlotsInv'
<1>0. pc[t] = "out" /\ UNCHANGED gateVars BY DEF Arrive
<1>1. t \notin lockHolders /\ t \notin lockWaiting /\ t \notin gateHolders /\ t \notin gateWaiting
  BY <1>0 DEF SlotsInv, LockInv, GateInv
<1>2. CASE /\ PerUtterance(t) /\ pc' = [pc EXCEPT ![t] = "open"]
           /\ UNCHANGED <<thread, lockVars, server>>
  <2>1. LockStep(t, "open") BY <1>1, <1>2, LockKept DEF Places
  <2>2. GateStep(t, "open") BY <1>0, <1>1, GateKept DEF Places
  <2>3. ThreadStep(t, "open") BY <1>0, <1>2, ThreadKept DEF Places
  <2> QED BY <1>2, <2>1, <2>2, <2>3, Preserved DEF Places, server
<1>3. CASE ~PerUtterance(t) /\ TakeLock(t)
  BY <1>0, <1>3, TakeLockStep
<1> QED BY <1>2, <1>3 DEF Arrive

LEMMA FinalizeStep ==
    ASSUME SlotsInv, NEW s \in Streams, Finalize(s)
    PROVE  SlotsInv'
<1>0. s \in Tasks /\ pc[s] = "open" /\ PerUtterance(s) BY DEF Finalize, Tasks
<1>1. CASE Gate!Enter(s) /\ TakeLock(s)
  <2>1. GateStep(s, "in") /\ GateStep(s, "lock") BY <1>1, GateEntered
  <2> QED BY <1>0, <1>1, <2>1, TakeLockStep
<1>2. CASE Gate!Wait(s) /\ pc' = [pc EXCEPT ![s] = "gate"] /\ UNCHANGED <<thread, lockVars, server>>
  <2>1. s \notin lockHolders /\ s \notin lockWaiting BY <1>0 DEF SlotsInv, LockInv
  <2>2. LockStep(s, "gate") BY <1>0, <1>2, <2>1, LockKept DEF Places
  <2>3. GateStep(s, "gate") BY <1>2, GateQueued
  <2>4. ThreadStep(s, "gate") BY <1>0, <1>2, ThreadKept DEF Places
  <2> QED BY <1>0, <1>2, <2>2, <2>3, <2>4, Preserved DEF Places, server
<1> QED BY <1>1, <1>2 DEF Finalize

LEMMA AfterGateStep ==
    ASSUME SlotsInv, NEW s \in Streams, AfterGate(s)
    PROVE  SlotsInv'
<1>0. s \in Tasks /\ pc[s] = "gate" /\ s \in gateHolders /\ UNCHANGED gateVars /\ TakeLock(s)
  BY DEF AfterGate, Tasks
<1>1. s \notin gateWaiting BY <1>0 DEF SlotsInv, GateInv
<1>2. GateStep(s, "in") /\ GateStep(s, "lock") BY <1>0, <1>1, GateKept DEF Places
<1> QED BY <1>0, <1>2, TakeLockStep

LEMMA AfterLockStep ==
    ASSUME SlotsInv, NEW t \in Tasks, AfterLock(t)
    PROVE  SlotsInv'
<1>0. pc[t] = "lock" /\ t \in lockHolders BY DEF AfterLock
<1>1. t \notin lockWaiting BY <1>0 DEF SlotsInv, LockInv
<1>2. t \notin gateWaiting /\ (PerUtterance(t) => t \in gateHolders)
  BY <1>0 DEF SlotsInv, GateInv, PerUtterance
<1>3. CASE Admit(t) /\ UNCHANGED <<gateVars, lockVars>>
  <2>1. LockStep(t, "in") BY <1>0, <1>1, <1>3, LockKept DEF Places
  <2>2. GateStep(t, "in") BY <1>2, <1>3, GateKept DEF Places
  <2> QED BY <1>3, <2>1, <2>2, Admitted, Preserved DEF Places
<1>4. CASE Refuse(t) /\ LeaveSlot(t)
  <2>1. pc' = [pc EXCEPT ![t] = "out"] /\ ThreadStep(t, "out") /\ deployment' = deployment
    BY <1>0, <1>4, Refused
  <2>2. LockStep(t, "out") BY <1>1, <1>4, LockLeft DEF LeaveSlot
  <2>3. GateStep(t, "out") BY <1>2, <1>4, GateLeft DEF LeaveSlot
  <2> QED BY <2>1, <2>2, <2>3, Preserved DEF Places
<1> QED BY <1>3, <1>4 DEF AfterLock

\* A task that is in the slot, or between utterances, leaves it.
LEMMA LeaveSlotStep ==
    ASSUME SlotsInv, NEW t \in Tasks, NEW w \in {"out", "open"}, LeaveSlot(t),
           pc[t] \in {"open", "in", "draining"}, pc' = [pc EXCEPT ![t] = w],
           w = "open" => PerUtterance(t), ThreadStep(t, w), deployment' = deployment
    PROVE  SlotsInv'
<1>1. t \notin lockWaiting /\ t \notin gateWaiting
  BY DEF SlotsInv, LockInv, GateInv
<1>2. LockStep(t, w) BY <1>1, LockLeft DEF LeaveSlot
<1>3. GateStep(t, w) BY <1>1, GateLeft DEF LeaveSlot
<1> QED BY <1>2, <1>3, Preserved DEF Places

LEMMA LeaveStep ==
    ASSUME SlotsInv, NEW t \in Tasks, Leave(t)
    PROVE  SlotsInv'
<1>1. PICK w \in {"out", "open"} :
        pc' = [pc EXCEPT ![t] = w] /\ (w = "open" => PerUtterance(t))
  BY DEF Leave
<1>2. pc[t] = "in" /\ ~Infers(t) /\ LeaveSlot(t) /\ UNCHANGED <<thread, deployment>>
  BY DEF Leave, Infers, server
<1>3. ThreadStep(t, w) BY <1>2, ThreadKept DEF Places
<1> QED BY <1>1, <1>2, <1>3, LeaveSlotStep

LEMMA EndDrainStep ==
    ASSUME SlotsInv, NEW t \in Tasks, EndDrain(t)
    PROVE  SlotsInv'
<1>1. /\ pc[t] = "draining" /\ LeaveSlot(t) /\ UNCHANGED <<thread, deployment>>
      /\ pc' = [pc EXCEPT ![t] = "out"]
      /\ ~Infers(t) \/ (~StreamsPatient /\ ~AllPatient)
  BY DEF EndDrain, Infers, StreamsPatient, AllPatient, server
<1>2. ThreadStep(t, "out") BY <1>1, ThreadKept DEF Places
<1> QED BY <1>1, <1>2, LeaveSlotStep

LEMMA CancelStep ==
    ASSUME SlotsInv, NEW t \in Tasks, Cancel(t)
    PROVE  SlotsInv'
<1>0. t \in deployment.cancelled /\ UNCHANGED <<thread, deployment>> BY DEF Cancel, server
<1>1. CASE CancelWait(t)
  <2>1. pc' = [pc EXCEPT ![t] = "out"] /\ pc[t] \in {"gate", "lock"} BY <1>1 DEF CancelWait
  <2>2. ThreadStep(t, "out") BY <1>0, <2>1, ThreadKept DEF Places
  <2>3. CASE pc[t] = "gate"
    <3>1. t \notin lockHolders /\ t \notin lockWaiting /\ UNCHANGED lockVars
      BY <1>1, <2>3 DEF CancelWait, SlotsInv, LockInv
    <3>2. LockStep(t, "out") BY <3>1, LockKept DEF Places
    <3>3. GateStep(t, "out") BY <1>1, <2>3, GateAbandoned, GateReturned DEF CancelWait
    <3> QED BY <2>1, <2>2, <3>2, <3>3, <1>0, Preserved DEF Places
  <2>4. CASE pc[t] = "lock"
    <3>1. t \notin gateWaiting BY <2>4 DEF SlotsInv, GateInv
    <3>2. GateStep(t, "out") BY <1>1, <2>4, <3>1, GateLeft DEF CancelWait, LeaveSlot
    <3>3. CASE t \in lockWaiting /\ Lock!Abandon(t) BY <2>1, <2>2, <3>2, <3>3, LockAbandoned, <1>0, Preserved DEF Places
    <3>4. CASE t \in lockHolders /\ LeaveSlot(t)
      <4>1. t \notin lockWaiting BY <3>4 DEF SlotsInv, LockInv
      <4>2. LockStep(t, "out") BY <3>4, <4>1, LockLeft DEF LeaveSlot
      <4> QED BY <2>1, <2>2, <3>2, <4>2, <1>0, Preserved DEF Places
    <3> QED BY <1>1, <2>4, <3>3, <3>4 DEF CancelWait
  <2> QED BY <2>1, <2>3, <2>4
<1>2. CASE DrainOnCancel(t)
  <2>1. pc[t] = "in" /\ pc' = [pc EXCEPT ![t] = "draining"] /\ UNCHANGED <<gateVars, lockVars>>
    BY <1>2 DEF DrainOnCancel
  <2>2. t \notin lockWaiting /\ t \notin gateWaiting BY <2>1 DEF SlotsInv, LockInv, GateInv
  <2>3. HasLock => t \in lockHolders BY <2>1 DEF SlotsInv, LockInv
  <2>4. PerUtterance(t) => t \in gateHolders BY <2>1 DEF SlotsInv, GateInv, PerUtterance
  <2>5. LockStep(t, "draining") BY <2>1, <2>2, <2>3, LockKept DEF Places
  <2>6. GateStep(t, "draining") BY <2>1, <2>2, <2>4, GateKept DEF Places
  <2>7. ThreadStep(t, "draining") BY <1>0, ThreadKept DEF Places
  <2> QED BY <2>1, <2>5, <2>6, <2>7, <1>0, Preserved DEF Places
<1>3. CASE LeaveOnCancel(t)
  <2>1. /\ pc[t] \in {"in", "open"} /\ LeaveSlot(t) /\ pc' = [pc EXCEPT ![t] = "out"]
        /\ Infers(t) => t \notin Streams \cup Joined
    BY <1>3 DEF LeaveOnCancel, Infers
  <2>2. Infers(t) => ~AllPatient /\ t \notin Streams
    BY <1>0, <2>1 DEF AllPatient, Tasks
  <2>3. ThreadStep(t, "out") BY <1>0, <2>2, ThreadKept DEF Places
  <2> QED BY <2>1, <1>0, <2>3, LeaveSlotStep
<1> QED BY <1>1, <1>2, <1>3 DEF Cancel

\* Steps that move no task.
LEMMA StillStep ==
    ASSUME SlotsInv, UNCHANGED <<deployment, pc, gateVars, lockVars>>,
           thread' \in [Tasks -> {"none", "accept", "inference"}],
           \A t \in Tasks : thread'[t] = "inference" => Infers(t) \/ pc[t] = "in"
    PROVE  SlotsInv'
<1>0. Streams \subseteq Tasks BY DEF Tasks
<1>1. PlaceInv' BY DEF SlotsInv, PlaceInv, PerUtterance, SentenceLevel, Exclusive
<1>2. LockInv' BY DEF SlotsInv, LockInv, lockVars, HasLock
<1>3. GateInv' BY DEF SlotsInv, GateInv, gateVars, PerUtterance, SentenceLevel, Exclusive
<1>4. ThreadInv' BY <1>0 DEF SlotsInv, ThreadInv, Infers, StreamsPatient, AllPatient
<1> QED BY <1>1, <1>2, <1>3, <1>4 DEF SlotsInv

LEMMA WorkStep ==
    ASSUME SlotsInv, NEW t \in Tasks, Feed(t) \/ FinalizeInConnection(t) \/ ThreadEnds(t)
    PROVE  SlotsInv'
<1>1. UNCHANGED <<deployment, pc, gateVars, lockVars>>
  BY DEF Feed, FinalizeInConnection, ThreadEnds, server
<1>2. thread' \in [Tasks -> {"none", "accept", "inference"}]
  BY DEF Feed, FinalizeInConnection, ThreadEnds, SlotsInv, PlaceInv
<1>3. \A u \in Tasks : thread'[u] = "inference" => Infers(u) \/ pc[u] = "in"
  BY DEF Feed, FinalizeInConnection, ThreadEnds, SlotsInv, PlaceInv, Infers
<1> QED BY <1>1, <1>2, <1>3, StillStep

LEMMA DisconnectStep ==
    ASSUME SlotsInv, NEW s \in Streams, Disconnect(s)
    PROVE  SlotsInv'
<1>0. s \in Tasks /\ pc[s] = "open" /\ pc' = [pc EXCEPT ![s] = "out"]
      /\ UNCHANGED <<deployment, thread, gateVars, lockVars>>
  BY DEF Disconnect, Tasks, server
<1>1. s \notin lockHolders /\ s \notin lockWaiting /\ s \notin gateHolders /\ s \notin gateWaiting
  BY <1>0 DEF SlotsInv, LockInv, GateInv
<1>2. LockStep(s, "out") BY <1>0, <1>1, LockKept DEF Places
<1>3. GateStep(s, "out") BY <1>0, <1>1, GateKept DEF Places
<1>4. ThreadStep(s, "out") BY <1>0, ThreadKept DEF Places
<1> QED BY <1>0, <1>2, <1>3, <1>4, Preserved DEF Places

LEMMA InvInit == Init => SlotsInv
<1> SUFFICES ASSUME Init PROVE SlotsInv OBVIOUS
<1>1. Cardinality(gateHolders) = 0 BY FS_EmptySet DEF Init, Gate!Init
<1>2. Streams \subseteq Tasks BY DEF Tasks
<1> QED BY <1>1, <1>2, SlotsAssumption
     DEF Init, Gate!Init, Lock!Init, SlotsInv, PlaceInv, LockInv, GateInv, ThreadInv, Infers, Places

LEMMA InvStep == SlotsInv /\ [Next]_vars => SlotsInv'
<1> SUFFICES ASSUME SlotsInv, [Next]_vars PROVE SlotsInv' OBVIOUS
<1>1. ASSUME NEW t \in Tasks, Arrive(t) \/ AfterLock(t) \/ Leave(t) \/ Cancel(t) \/ EndDrain(t)
      PROVE  SlotsInv'
  BY <1>1, ArriveStep, AfterLockStep, LeaveStep, CancelStep, EndDrainStep
<1>2. ASSUME NEW t \in Tasks, ThreadEnds(t) PROVE SlotsInv' BY <1>2, WorkStep
<1>3. ASSUME NEW s \in Streams, Feed(s) \/ FinalizeInConnection(s) PROVE SlotsInv'
  BY <1>3, WorkStep DEF Tasks
<1>4. ASSUME NEW s \in Streams, Finalize(s) \/ AfterGate(s) \/ Disconnect(s) PROVE SlotsInv'
  BY <1>4, FinalizeStep, AfterGateStep, DisconnectStep
<1>5. ASSUME \E k \in Kinds : ManagerReload(k) PROVE SlotsInv'
  BY <1>5, StillStep DEF ManagerReload, SlotsInv, PlaceInv, Infers
<1>6. CASE UNCHANGED vars
  BY <1>6, StillStep DEF vars, server, SlotsInv, PlaceInv, Infers
<1> QED BY <1>1, <1>2, <1>3, <1>4, <1>5, <1>6 DEF Next

\* The invariant holds in every reachable state of every instance.
THEOREM Invariance == Spec => []SlotsInv
<1> QED BY InvInit, InvStep, PTL DEF Spec

\* No permit and no lock is with a task that is not on its way through the
\* slot, whoever is cancelled where.
THEOREM SlotsAccountedFor == Spec => []NoStrandedSlot
<1>1. SlotsInv => NoStrandedSlot BY DEF SlotsInv, LockInv, GateInv, NoStrandedSlot
<1> QED BY <1>1, Invariance, PTL

\* The docstring of _asr_utterance_slot: the gate, taken first, bounds the
\* utterances that wait for the unbounded lock.
THEOREM BacklogBounded == Spec => []LockBacklogBounded
<1>1. SlotsInv => LockBacklogBounded
  <2> SUFFICES ASSUME SlotsInv, SentenceLevel
               PROVE  Cardinality({s \in Streams : pc[s] = "lock"}) <= GateConcurrency
    BY DEF LockBacklogBounded
  <2> DEFINE Parked == {s \in Streams : pc[s] = "lock"}
  <2>1. Parked \subseteq gateHolders BY DEF SlotsInv, GateInv, PerUtterance
  <2>2. Cardinality(Parked) <= Cardinality(gateHolders) /\ Cardinality(Parked) \in Nat
    BY <2>1, GateFinite, FS_Subset, FS_CardinalityType
  <2> QED BY <2>2, GateFinite, SlotsAssumption DEF SlotsInv, GateInv
<1> QED BY <1>1, Invariance, PTL

\* Cancelled once, a stream waits for its thread: the runtime never serves
\* more utterances than the gate admits.
THEOREM UtterancesBounded == Spec => [](StreamsPatient => UtterancesWithinGate)
<1>1. SlotsInv => (StreamsPatient => UtterancesWithinGate)
  <2> SUFFICES ASSUME SlotsInv, StreamsPatient, SentenceLevel
               PROVE  Cardinality({s \in Streams : Infers(s)}) <= GateConcurrency
    BY DEF UtterancesWithinGate
  <2> DEFINE Busy == {s \in Streams : Infers(s)}
  <2>1. Busy \subseteq gateHolders BY DEF SlotsInv, GateInv, ThreadInv, PerUtterance
  <2>2. Cardinality(Busy) <= Cardinality(gateHolders) /\ Cardinality(Busy) \in Nat
    BY <2>1, GateFinite, FS_Subset, FS_CardinalityType
  <2> QED BY <2>2, GateFinite, SlotsAssumption DEF SlotsInv, GateInv
<1> QED BY <1>1, Invariance, PTL

\* If nobody leaves a thread behind, the lock separates threads and not only
\* the handlers that started them.
THEOREM InferencesExclusive == Spec => []SerializedInferences
<1>1. SlotsInv => SerializedInferences
  BY DEF SlotsInv, LockInv, ThreadInv, InferenceExclusive, SerializedInferences
<1> QED BY <1>1, Invariance, PTL

-----------------------------------------------------------------------------
(* Exclusive mode: beside the backend of whoever is in the slot only those *)
(* are loaded that cannot be unloaded, and a thread is never out of it.    *)

Alone == Exclusive /\ deployment.reloads = 0
Served == {"in", "draining"}

ResidencyInv ==
    Alone =>
        /\ reloads = 0
        /\ \A t \in Tasks : pc[t] \in Served =>
              KindOf(t) \in resident /\ resident \cap Opposite(t) = {}
        /\ \A t \in Tasks \ Streams : thread[t] # "accept"
        /\ \A t \in Tasks : pc[t] = "draining" => t \in deployment.cancelled
        /\ deployment.cancelled \subseteq Joined =>
              \A t \in Tasks : thread[t] # "none" => pc[t] \in Served

\* In exclusive mode a stream holds the slot for its whole connection.
LEMMA NoUtterances ==
    ASSUME SlotsInv, Exclusive
    PROVE  /\ HasLock /\ \A t \in Tasks : ~PerUtterance(t) /\ pc[t] \notin {"open", "gate"}
BY DEF SlotsInv, PlaceInv, PerUtterance, SentenceLevel, Exclusive, HasLock

\* A step that loads nothing and lets nobody in.
LEMMA ResidencyKept ==
    ASSUME SlotsInv, ResidencyInv, NEW t \in Tasks, NEW w \in Places,
           pc' = [pc EXCEPT ![t] = w], UNCHANGED <<thread, server>>,
           w \in Served => pc[t] \in Served,
           w = "draining" => t \in deployment.cancelled,
           \/ w \in Served
           \/ thread[t] = "none"
           \/ ~(deployment.cancelled \subseteq Joined)
    PROVE  ResidencyInv'
<1>1. /\ pc'[t] = w /\ \A u \in Tasks \ {t} : pc'[u] = pc[u]
      /\ thread' = thread /\ deployment' = deployment /\ resident' = resident /\ reloads' = reloads
  BY DEF SlotsInv, PlaceInv, server
<1> QED BY <1>1 DEF ResidencyInv, Alone, Exclusive, Served, Opposite

\* The coordinator lets t in: nobody else is there.
LEMMA AdmitResidency ==
    ASSUME SlotsInv, SlotsInv', ResidencyInv, NEW t \in Tasks, Admit(t)
    PROVE  ResidencyInv'
<1> SUFFICES ASSUME Alone' PROVE ResidencyInv' BY DEF ResidencyInv
<1>1. /\ deployment' = deployment /\ reloads' = reloads
      /\ resident' = (resident \ Opposite(t)) \cup {KindOf(t)}
      /\ pc' = [pc EXCEPT ![t] = "in"] /\ Alone
      /\ thread' \in {[thread EXCEPT ![t] = thread[t]], [thread EXCEPT ![t] = "inference"]}
  BY DEF Admit, Alone, Exclusive
<1>2. pc'[t] = "in" /\ \A u \in Tasks \ {t} : pc'[u] = pc[u] /\ thread'[u] = thread[u]
  BY <1>1 DEF SlotsInv, PlaceInv
<1>3. thread'[t] \in {thread[t], "inference"}
  BY <1>1 DEF SlotsInv, PlaceInv
<1>4. \A u \in Tasks : pc'[u] \in Served => u = t
  <2>1. HasLock' BY NoUtterances, <1>1 DEF HasLock, Alone
  <2> QED BY <1>2, <2>1 DEF SlotsInv, LockInv, Served
<1>5. KindOf(t) \in resident' /\ resident' \cap Opposite(t)' = {} BY <1>1 DEF Opposite
<1> QED BY <1>1, <1>2, <1>3, <1>4, <1>5 DEF ResidencyInv, Served

\* unload() or preload() raises: nobody is in the slot.
LEMMA RaiseResidency ==
    ASSUME SlotsInv, ResidencyInv, NEW t \in Tasks, Refuse(t),
           \/ pc[t] = "out" /\ thread[t] = "none" /\ lockHolders = {}
           \/ pc[t] = "lock" /\ t \in lockHolders
    PROVE  ResidencyInv'
<1> SUFFICES ASSUME Alone' PROVE ResidencyInv' BY DEF ResidencyInv
<1>1. /\ UNCHANGED <<deployment, reloads, thread>> /\ pc' = [pc EXCEPT ![t] = "out"] /\ Alone
  BY DEF Refuse, Alone, Exclusive
<1>2. pc'[t] = "out" /\ \A u \in Tasks \ {t} : pc'[u] = pc[u]
  BY <1>1 DEF SlotsInv, PlaceInv
<1>3. \A u \in Tasks : pc[u] \notin Served
  BY <1>1, NoUtterances DEF Alone, SlotsInv, LockInv, Served
<1>4. deployment.cancelled \subseteq Joined => \A u \in Tasks : thread[u] = "none"
  BY <1>1, <1>3 DEF ResidencyInv
<1> QED BY <1>1, <1>2, <1>3, <1>4 DEF ResidencyInv, Served

LEMMA ArriveResidency ==
    ASSUME SlotsInv, SlotsInv', ResidencyInv, Exclusive, NEW t \in Tasks, Arrive(t)
    PROVE  ResidencyInv'
<1>1. pc[t] = "out" /\ thread[t] = "none" /\ TakeLock(t) /\ HasLock
  BY NoUtterances DEF Arrive
<1>2. CASE Admit(t) BY <1>2, AdmitResidency
<1>3. CASE pc' = [pc EXCEPT ![t] = "lock"] /\ UNCHANGED <<thread, server>>
  BY <1>1, <1>3, ResidencyKept DEF Places, Served
<1>4. CASE lockHolders \cup lockWaiting = {} /\ Refuse(t)
  BY <1>1, <1>4, RaiseResidency
<1> QED BY <1>1, <1>2, <1>3, <1>4 DEF TakeLock

LEMMA CancelResidency ==
    ASSUME SlotsInv, ResidencyInv, Exclusive, NEW t \in Tasks, Cancel(t)
    PROVE  ResidencyInv'
<1> SUFFICES ASSUME Alone PROVE ResidencyInv'
  BY DEF Cancel, server, ResidencyInv, Alone, Exclusive
<1>1. t \in deployment.cancelled /\ UNCHANGED <<thread, server>> BY DEF Cancel
<1>2. CASE CancelWait(t)
  <2>1. pc' = [pc EXCEPT ![t] = "out"] /\ pc[t] \in {"gate", "lock"} BY <1>2 DEF CancelWait
  <2>2. deployment.cancelled \subseteq Joined => thread[t] = "none"
    BY <2>1 DEF ResidencyInv, Served
  <2> QED BY <1>1, <2>1, <2>2, ResidencyKept DEF Places, Served
<1>3. CASE DrainOnCancel(t)
  BY <1>1, <1>3, ResidencyKept DEF DrainOnCancel, Places, Served
<1>4. CASE LeaveOnCancel(t)
  <2>1. /\ pc' = [pc EXCEPT ![t] = "out"]
        /\ thread[t] = "inference" => t \notin Streams \cup Joined
    BY <1>4 DEF LeaveOnCancel
  <2>2. deployment.cancelled \subseteq Joined => thread[t] = "none"
    <3> SUFFICES ASSUME t \in Joined PROVE thread[t] = "none" BY <1>1
    <3>1. t \notin Streams BY SlotsAssumption
    <3> QED BY <2>1, <3>1 DEF ResidencyInv, SlotsInv, PlaceInv
  <2> QED BY <1>1, <2>1, <2>2, ResidencyKept DEF Places, Served
<1> QED BY <1>2, <1>3, <1>4 DEF Cancel

LEMMA EndDrainResidency ==
    ASSUME SlotsInv, ResidencyInv, Alone, NEW t \in Tasks, EndDrain(t)
    PROVE  ResidencyInv'
<1>1. /\ pc[t] = "draining" /\ pc' = [pc EXCEPT ![t] = "out"] /\ UNCHANGED <<thread, server>>
      /\ thread[t] = "none" \/ t \in Streams
  BY DEF EndDrain
<1>2. deployment.cancelled \subseteq Joined => thread[t] = "none"
  BY <1>1, SlotsAssumption DEF ResidencyInv
<1> QED BY <1>1, <1>2, ResidencyKept DEF Places, Served

\* A thread begins only in the slot.
LEMMA WorkResidency ==
    ASSUME SlotsInv, ResidencyInv, Exclusive, NEW t \in Tasks,
           \/ t \in Streams /\ (Feed(t) \/ FinalizeInConnection(t))
           \/ ThreadEnds(t)
    PROVE  ResidencyInv'
<1>1. UNCHANGED <<pc, server>> BY DEF Feed, FinalizeInConnection, ThreadEnds
<1>2. \/ /\ t \in Streams /\ pc[t] = "in"
         /\ thread' \in {[thread EXCEPT ![t] = "accept"], [thread EXCEPT ![t] = "inference"]}
      \/ thread' = [thread EXCEPT ![t] = "none"]
  BY NoUtterances DEF Feed, FinalizeInConnection, ThreadEnds
<1>3. \A u \in Tasks \ {t} : thread'[u] = thread[u]
  BY <1>2 DEF SlotsInv, PlaceInv
<1>4. \/ t \in Streams /\ pc[t] = "in"
      \/ thread'[t] = "none"
  BY <1>2 DEF SlotsInv, PlaceInv
<1> QED BY <1>1, <1>3, <1>4 DEF ResidencyInv, Alone, Exclusive, Served, Opposite, server

LEMMA ResidencyStep == SlotsInv /\ SlotsInv' /\ ResidencyInv /\ [Next]_vars => ResidencyInv'
<1> SUFFICES ASSUME SlotsInv, SlotsInv', ResidencyInv, [Next]_vars, Alone'
             PROVE  ResidencyInv'
  BY DEF ResidencyInv
<1>0. deployment' = deployment
  BY DEF Next, vars, server, Arrive, TakeLock, Admit, Refuse, AfterLock, ThreadEnds, Leave,
         Cancel, EndDrain, Feed, Finalize, AfterGate, FinalizeInConnection, Disconnect, ManagerReload
<1>1. Alone /\ Exclusive BY <1>0 DEF Alone, Exclusive
<1>2. ASSUME NEW t \in Tasks, Arrive(t) PROVE ResidencyInv' BY <1>1, <1>2, ArriveResidency
<1>3. ASSUME NEW t \in Tasks, AfterLock(t) PROVE ResidencyInv'
  BY <1>3, AdmitResidency, RaiseResidency DEF AfterLock
<1>4. ASSUME NEW t \in Tasks, Leave(t) PROVE ResidencyInv'
  BY <1>1, <1>4, NoUtterances, ResidencyKept DEF Leave, Places, Served
<1>5. ASSUME NEW t \in Tasks, Cancel(t) PROVE ResidencyInv' BY <1>1, <1>5, CancelResidency
<1>6. ASSUME NEW t \in Tasks, EndDrain(t) PROVE ResidencyInv' BY <1>1, <1>6, EndDrainResidency
<1>7. ASSUME NEW t \in Tasks, ThreadEnds(t) PROVE ResidencyInv' BY <1>1, <1>7, WorkResidency
<1>8. ASSUME NEW s \in Streams, Feed(s) \/ FinalizeInConnection(s) PROVE ResidencyInv'
  BY <1>1, <1>8, WorkResidency DEF Tasks
<1>9. ASSUME NEW s \in Streams, Finalize(s) \/ AfterGate(s) \/ Disconnect(s) PROVE FALSE
  BY <1>1, <1>9, NoUtterances DEF Finalize, AfterGate, Disconnect, Tasks
<1>10. ASSUME \E k \in Kinds : ManagerReload(k) PROVE FALSE
  BY <1>1, <1>10 DEF ManagerReload, ResidencyInv, Alone
<1>11. CASE UNCHANGED vars
  BY <1>11 DEF vars, server, ResidencyInv, Alone, Exclusive, Served, Opposite
<1> QED BY <1>2, <1>3, <1>4, <1>5, <1>6, <1>7, <1>8, <1>9, <1>10, <1>11 DEF Next

\* The residency contract of exclusive mode: whoever is in the slot, cancelled
\* or not, finds its backend loaded and shares the device with none that could
\* be unloaded, although evictions and preloads fail; and no eviction reaches a
\* thread while only joined calls are cancelled.
THEOREM BackendsExclusive == Spec => []ExclusiveBackends
<1>1. Init => ResidencyInv
  BY DEF Init, ResidencyInv, Served, Tasks
<1>2. SlotsInv /\ ResidencyInv => ExclusiveBackends
  BY DEF ResidencyInv, Alone, Served, ExclusiveBackends, ExclusiveResidency, ThreadBackendResident
<1> QED BY <1>1, <1>2, ResidencyStep, Invariance, PTL DEF Spec

-----------------------------------------------------------------------------
(***************************************************************************)
(* A stream that holds a slot, TtsStream.  LeasesOutliveWorkers and        *)
(* QuarantineIsTracked for every number of jobs, window, pool and chunk    *)
(* bound.  The argument: a cleanup exists only after the flag is raised;   *)
(* from then on no thread enters the backend, so the jobs inside it are    *)
(* among those the cleanup's snapshot waits for.                           *)
(***************************************************************************)
JobStates == {"none", "queued", "started", "leaving", "finished"} \cup Using

(* What a cleanup knows of its jobs, and what it needs to be the only one. *)
Shapes ==
    /\ job \in [Jobs -> JobStates]
    /\ gen \in {"stopping", "waiting", "done"} => cancel_flag
    /\ cleanup # "none" => cancel_flag
    /\ gen = "stopping" => branch = "clone"
    /\ branch = "clone" /\ gen \notin {"waiting", "done"} => cleanup = "none"
    /\ orphan # "none" => cleanup = "handed_off"
    /\ leases \in {"held", "released"}
    /\ orphan \in {"none", "waiting", "scheduled", "released", "stranded"}

Snapshot ==
    cleanup \in {"draining", "releasing", "released", "handed_off"} =>
        /\ toDrain \subseteq Jobs
        /\ \A j \in Jobs : job[j] \in Using => j \in toDrain

DrainedFirst ==
    /\ cleanup \in {"releasing", "released"} => \A j \in toDrain : Finished(j)
    /\ orphan \in {"scheduled", "released"} => \A j \in toDrain : Finished(j)
    /\ cleanup = "handed_off" /\ leases = "held"
         => orphan \in {"waiting", "scheduled", "stranded"}
    /\ leases = "released" => cleanup = "released" \/ (cleanup = "handed_off" /\ orphan = "released")

StreamInv == Shapes /\ Snapshot /\ DrainedFirst

LEMMA StreamInitInv == StreamInit => StreamInv
  BY StreamAssumption DEF StreamInit, StreamInv, Shapes, Snapshot, DrainedFirst, JobStates, Using, Finished, Jobs

(* A thread moves one job.  It enters the backend only under a lowered     *)
(* flag, that is before there is any cleanup.                              *)
LEMMA ThreadKeeps ==
  ASSUME StreamInv, NEW j \in Jobs, NEW to \in JobStates,
         job' = [job EXCEPT ![j] = to],
         job[j] # "finished",
         to \in Using /\ job[j] \notin Using => ~cancel_flag,
         OnlyThreads
  PROVE  StreamInv'
<1>1. Shapes'
  BY DEF StreamInv, Shapes, OnlyThreads, pipeline, cleaning, JobStates
<1>2. Snapshot'
  BY DEF StreamInv, Shapes, Snapshot, OnlyThreads, pipeline, cleaning
<1>3. DrainedFirst'
  BY DEF StreamInv, Shapes, Snapshot, DrainedFirst, Finished, OnlyThreads, pipeline, cleaning
<1> QED BY <1>1, <1>2, <1>3 DEF StreamInv

(* A submission puts a job in the executor's queue before any cleanup. *)
LEMMA SubmitKeepsJobs ==
  ASSUME StreamInv, NEW take, NEW next, Submit(take, next), next = submitted \/ ~cancel_flag
  PROVE  /\ job' \in [Jobs -> JobStates]
         /\ cancel_flag => job' = job
  BY DEF Submit, StreamInv, Shapes, JobStates

LEMMA CloseKeeps ==
  ASSUME StreamInv, CloseStream, job' \in [Jobs -> JobStates], cancel_flag => job' = job,
         branch' = branch, gen \in {"awaiting", "suspended"}
  PROVE  StreamInv'
<1>1. Shapes'
  BY DEF CloseStream, StreamInv, Shapes, Owned
<1>2. Snapshot'
  BY DEF CloseStream, StreamInv, Shapes, Snapshot, Owned
<1>3. DrainedFirst'
  BY DEF CloseStream, StreamInv, Shapes, DrainedFirst, Finished, Owned
<1> QED BY <1>1, <1>2, <1>3 DEF StreamInv

(* A step that only moves the generator and its consumer, or the socket. *)
LEMMA ControlKeeps ==
  ASSUME StreamInv, UNCHANGED <<branch, job, cleanup, toDrain, orphan, leases>>,
         cancel_flag => cancel_flag',
         gen' \in {"stopping", "waiting", "done"} => cancel_flag',
         gen' = "stopping" => branch = "clone",
         branch = "clone" /\ gen' \notin {"waiting", "done"} => cleanup = "none"
  PROVE  StreamInv'
  BY DEF StreamInv, Shapes, Snapshot, DrainedFirst, Finished

LEMMA JobStepKeeps ==
  ASSUME StreamInv, NEW j \in Jobs, JobStep(j)
  PROVE  StreamInv'
<1>1. CASE ThreadStarts(j)
  BY <1>1, ThreadKeeps DEF ThreadStarts, Thread, JobStates, Using
<1>2. CASE ThreadChecksFlag(j)
  BY <1>2, ThreadKeeps DEF ThreadChecksFlag, Thread, JobStates, Using
<1>3. CASE ThreadRegisters(j)
  BY <1>3, ThreadKeeps DEF ThreadRegisters, Thread, JobStates, Using
<1>4. CASE ThreadChunk(j)
  <2>1. UNCHANGED <<job, branch, cancel_flag, gen, cleanup, toDrain, orphan, leases>>
    BY <1>4 DEF ThreadChunk, OnlyThreads, cleaning
  <2> QED BY <2>1, ControlKeeps DEF StreamInv, Shapes
<1>5. CASE ThreadExhausts(j)
  BY <1>5, ThreadKeeps DEF ThreadExhausts, Thread, JobStates, Using
<1>6. CASE ThreadFails(j)
  BY <1>6, ThreadKeeps DEF ThreadFails, Thread, JobStates, Using
<1>7. CASE ThreadFinishes(j)
  BY <1>7, ThreadKeeps DEF ThreadFinishes, Thread, JobStates, Using
<1> QED BY <1>1, <1>2, <1>3, <1>4, <1>5, <1>6, <1>7 DEF JobStep

LEMMA PipelineKeeps ==
  ASSUME StreamInv, Pipeline
  PROVE  StreamInv'
<1>1. CASE TakeChunk
  <2>1. job' \in [Jobs -> JobStates] /\ (cancel_flag => job' = job)
    BY <1>1, SubmitKeepsJobs DEF TakeChunk, PrefetchDue
  <2>2. UNCHANGED <<branch, cancel_flag, cleanup, toDrain, orphan, leases>>
        /\ gen = "awaiting" /\ gen' = "suspended"
    BY <1>1 DEF TakeChunk, OnLoop, cleaning
  <2> QED BY <2>1, <2>2 DEF StreamInv, Shapes, Snapshot, DrainedFirst, Finished
<1>2. CASE TakeEnd
  <2>1. job' \in [Jobs -> JobStates] /\ (cancel_flag => job' = job)
    BY <1>2, SubmitKeepsJobs DEF TakeEnd, PrefetchDue
  <2>2. branch' = branch /\ gen = "awaiting"
    BY <1>2 DEF TakeEnd, OnLoop
  <2>3. CASE CloseStream
    BY <2>1, <2>2, <2>3, CloseKeeps
  <2>4. CASE UNCHANGED <<cancel_flag, gen, watching, cleaning>>
    BY <2>1, <2>2, <2>4 DEF StreamInv, Shapes, Snapshot, DrainedFirst, Finished, cleaning
  <2> QED BY <1>2, <2>3, <2>4 DEF TakeEnd
<1>3. CASE TakeError
  <2>1. job' \in [Jobs -> JobStates] /\ (cancel_flag => job' = job)
    BY <1>3, SubmitKeepsJobs DEF TakeError
  <2> QED BY <1>3, <2>1, CloseKeeps DEF TakeError, OnLoop
<1>4. CASE StopWatcher
  BY <1>4 DEF StopWatcher, OnLoop, StreamInv, Shapes, Snapshot, DrainedFirst, Finished, threads
<1>5. CASE StreamEnds
  BY <1>5, ControlKeeps DEF StreamEnds, OnLoop, StreamInv, Shapes, threads, cleaning
<1> QED BY <1>1, <1>2, <1>3, <1>4, <1>5 DEF Pipeline

LEMMA BodyKeeps ==
  ASSUME StreamInv, StartBody \/ Pull \/ DrainNext \/ TaskCancelled \/ Collect
               \/ ClientLeaves \/ PullCancelled
  PROVE  StreamInv'
<1>1. CASE StartBody \/ Pull \/ DrainNext \/ ClientLeaves
  BY <1>1, ControlKeeps DEF StartBody, Pull, DrainNext, ClientLeaves, OnLoop,
     OnlyConsumer, threads, cleaning, StreamInv, Shapes
<1>2. CASE TaskCancelled \/ Collect \/ PullCancelled
  <2>1. CASE CloseStream /\ gen \in {"awaiting", "suspended"} /\ UNCHANGED <<branch, threads>>
    BY <2>1, CloseKeeps DEF threads, StreamInv, Shapes
  <2>2. CASE OnlyConsumer /\ UNCHANGED gen /\ (cancel_flag => cancel_flag')
    BY <2>2, ControlKeeps DEF OnlyConsumer, threads, cleaning, StreamInv, Shapes
  <2> QED BY <1>2, <2>1, <2>2 DEF TaskCancelled, Collect, PullCancelled
<1> QED BY <1>1, <1>2

LEMMA WatcherKeeps ==
  ASSUME StreamInv, WatcherSees
  PROVE  StreamInv'
  BY DEF WatcherSees, StreamInv, Shapes, Snapshot, DrainedFirst, Finished, Owned

LEMMA CleanupKeeps ==
  ASSUME StreamInv, Cleanup \/ Orphan \/ Shutdown \/ LoopCloses
  PROVE  StreamInv'
<1> USE DEF OnlyCleanup, threads, StreamInv, Shapes, Snapshot, DrainedFirst, Finished
<1>1. CASE CleanupStarts
  BY <1>1 DEF CleanupStarts, Started, Using
<1>2. CASE CleanupDrained
  BY <1>2 DEF CleanupDrained
<1>3. CASE CleanupReleases
  BY <1>3 DEF CleanupReleases
<1>4. CASE OrphanWatches
  BY <1>4 DEF OrphanWatches
<1>5. CASE OrphanReleases
  BY <1>5 DEF OrphanReleases
<1>6. CASE Shutdown
  <2>1. CASE cleanup = "draining"
    BY <1>6, <2>1 DEF Shutdown, Using
  <2>2. CASE cleanup # "draining"
    BY <1>6, <2>2 DEF Shutdown
  <2> QED BY <2>1, <2>2
<1>7. CASE LoopCloses
  BY <1>7 DEF LoopCloses, cleaning
<1> QED BY <1>1, <1>2, <1>3, <1>4, <1>5, <1>6, <1>7 DEF Cleanup, Orphan

LEMMA StreamStep == StreamInv /\ [StreamNext]_streamVars => StreamInv'
<1> SUFFICES ASSUME StreamInv, [StreamNext]_streamVars PROVE StreamInv'
  OBVIOUS
<1>1. CASE UNCHANGED streamVars
  BY <1>1, ControlKeeps DEF streamVars, threads, cleaning, StreamInv, Shapes
<1>2. CASE StreamNext
  BY <1>2, JobStepKeeps, PipelineKeeps, BodyKeeps, WatcherKeeps, CleanupKeeps DEF StreamNext
<1> QED BY <1>1, <1>2

THEOREM StreamInvariance == StreamSpec => []StreamInv
  BY StreamInitInv, StreamStep, PTL DEF StreamSpec

(* No lease of a stream is given back while an executor thread of it is in *)
(* the backend: every branch, any number of sentences, window and pool.    *)
THEOREM LeasesOutlive == StreamSpec => []LeasesOutliveWorkers
<1>1. StreamInv => LeasesOutliveWorkers
  BY DEF StreamInv, Shapes, Snapshot, DrainedFirst, LeasesOutliveWorkers, Finished, Using
<1> QED BY <1>1, StreamInvariance, PTL

(* A drain interrupted by loop shutdown stays accounted for. *)
THEOREM QuarantineTracked == StreamSpec => []QuarantineIsTracked
<1>1. StreamInv => QuarantineIsTracked
  BY DEF StreamInv, Shapes, DrainedFirst, QuarantineIsTracked
<1> QED BY <1>1, StreamInvariance, PTL

=============================================================================
