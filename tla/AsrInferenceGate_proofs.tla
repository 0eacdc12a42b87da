------------------------ MODULE AsrInferenceGate_proofs ------------------------
(***************************************************************************)
(* For any set of tasks, any concurrency and any queue bound: the gate     *)
(* keeps its counter equal to the tasks that own a permit, never exceeds   *)
(* its concurrency, and refines the first-come first-served semaphore.     *)
(***************************************************************************)
EXTENDS AsrInferenceGate, FiniteSetTheorems, SequenceTheorems, TLAPS

\* A task is suspended in acquire() exactly while it has a future.
FutureIffQueued == \A t \in Tasks : pc[t] = "queued" <=> fut[t] # "none"

\* A future is in the deque at most once, and only until it is granted.
DequeDistinct ==
    \A i, j \in DOMAIN waiters : waiters[i] = waiters[j] => i = j
DequeUngranted ==
    \A i \in DOMAIN waiters : fut[waiters[i]] \in {"pending", "cancelled"}

\* Dead futures count here too: a permit is free only over an empty deque.
NoIdlePermitOverDeque == waiters # <<>> => running = Concurrency

\* The inductive invariant.
GateInv ==
    /\ TypeOK
    /\ FutureIffQueued
    /\ DequeDistinct
    /\ DequeUngranted
    /\ LiveWaitersQueued
    /\ PermitsConserved
    /\ running <= Concurrency
    /\ NoIdlePermitOverDeque

-----------------------------------------------------------------------------
LEMMA OwnersFinite ==
    ASSUME NEW S \in SUBSET Tasks
    PROVE  IsFiniteSet(S) /\ Cardinality(S) \in Nat
BY GateAssumption, FS_Subset, FS_CardinalityType

\* A set of owners that gains or loses one task counts one more or one less.
LEMMA OwnersChange ==
    ASSUME NEW S \in SUBSET Tasks, NEW t \in Tasks
    PROVE  /\ t \notin S => Cardinality(S \cup {t}) = Cardinality(S) + 1
           /\ t \in S => Cardinality(S \ {t}) = Cardinality(S) - 1
<1>1. IsFiniteSet(S)
  BY OwnersFinite
<1>2. QED
  BY <1>1, FS_AddElement, FS_RemoveElement

LEMMA InitGateInv == Init => GateInv
<1> SUFFICES ASSUME Init PROVE GateInv
  OBVIOUS
<1>1. Owners = {}
  BY DEF Init, Owners
<1>2. PermitsConserved
  BY <1>1, FS_EmptySet DEF Init, PermitsConserved
<1>3. QED
  BY <1>2, GateAssumption DEF GateInv, Init, TypeOK, FutureStates, FutureIffQueued,
     DequeDistinct, DequeUngranted, LiveWaitersQueued, Live, NoIdlePermitOverDeque

-----------------------------------------------------------------------------
(* One lemma per way the deque changes. *)

\* Appending a task that has no future keeps the deque's shape.
LEMMA EnqueueGateInv ==
    ASSUME GateInv, NEW t \in Tasks, Enqueue(t) PROVE GateInv'
<1> USE DEF GateInv, Enqueue
<1>1. TypeOK'
  BY DEF TypeOK, FutureStates
<1>2. /\ Len(waiters') = Len(waiters) + 1
      /\ DOMAIN waiters' = 1 .. Len(waiters) + 1
      /\ \A i \in DOMAIN waiters : waiters'[i] = waiters[i]
      /\ waiters'[Len(waiters) + 1] = t
  BY DEF TypeOK
<1>3. \A i \in DOMAIN waiters : waiters[i] \in Tasks /\ waiters[i] # t
  BY DEF TypeOK, FutureIffQueued, DequeUngranted
<1>4. DequeDistinct' /\ DequeUngranted'
  BY <1>2, <1>3 DEF DequeDistinct, DequeUngranted, TypeOK
<1>5. LiveWaitersQueued'
  <2> SUFFICES ASSUME NEW u \in Live' PROVE \E i \in DOMAIN waiters' : waiters'[i] = u
    BY DEF LiveWaitersQueued
  <2>1. CASE u = t
    BY <1>2, <2>1 DEF TypeOK
  <2>2. CASE u # t
    <3>1. u \in Live
      BY <2>2 DEF Live, TypeOK
    <3>2. PICK i \in DOMAIN waiters : waiters[i] = u
      BY <3>1 DEF LiveWaitersQueued
    <3>3. i \in DOMAIN waiters' /\ waiters'[i] = u
      BY <1>2, <3>2 DEF TypeOK
    <3>4. QED
      BY <3>3
  <2>3. QED
    BY <2>1, <2>2
<1>6. Owners' = Owners
  BY DEF Owners, TypeOK, FutureIffQueued
<1>7. QED
  BY <1>1, <1>4, <1>5, <1>6, GateAssumption
     DEF FutureIffQueued, PermitsConserved, NoIdlePermitOverDeque, TypeOK

\* _wake_next run by an owner t that goes back to idle.
LEMMA WakeNextGateInv ==
    ASSUME GateInv, NEW t \in Tasks, t \in Owners, WakeNext(t),
           pc' = [pc EXCEPT ![t] = "idle"]
    PROVE  GateInv'
<1> USE DEF GateInv
<1>0. /\ Owners \subseteq Tasks
      /\ \A i \in DOMAIN waiters : waiters[i] \in Tasks
      /\ \A i \in DOMAIN waiters : waiters[i] \notin Owners
      /\ fut[t] # "pending"
      /\ running \in Nat
  BY DEF Owners, TypeOK, DequeUngranted, FutureIffQueued
<1>1. Cardinality(Owners) \in Nat /\ running = Cardinality(Owners)
  BY <1>0, OwnersFinite DEF PermitsConserved
<1>2. Cardinality(Owners \ {t}) = running - 1 /\ Cardinality(Owners \ {t}) \in Nat
  BY <1>0, <1>1, OwnersChange, OwnersFinite
<1>3. CASE /\ LivePositions = {}
           /\ waiters' = <<>>
           /\ running' = running - 1
           /\ fut' = [fut EXCEPT ![t] = "none"]
  <2>1. Live = {}
    BY <1>3 DEF LivePositions, LiveWaitersQueued, Live
  <2>2. Owners' = Owners \ {t} /\ Live' = {}
    BY <1>3, <1>0, <2>1 DEF Owners, Live, TypeOK
  <2>3. QED
    BY <1>2, <1>3, <2>2, GateAssumption
       DEF TypeOK, FutureStates, FutureIffQueued, DequeDistinct, DequeUngranted,
           LiveWaitersQueued, PermitsConserved, NoIdlePermitOverDeque
<1>4. CASE \E i \in DOMAIN waiters :
             /\ FirstLive(i)
             /\ waiters' = SubSeq(waiters, i + 1, Len(waiters))
             /\ fut' = [fut EXCEPT ![t] = "none", ![waiters[i]] = "granted"]
             /\ UNCHANGED running
  <2>1. PICK i \in DOMAIN waiters :
             /\ FirstLive(i)
             /\ waiters' = SubSeq(waiters, i + 1, Len(waiters))
             /\ fut' = [fut EXCEPT ![t] = "none", ![waiters[i]] = "granted"]
             /\ UNCHANGED running
    BY <1>4
  <2> DEFINE heir == waiters[i]
  <2>2. heir \in Tasks /\ heir # t /\ heir \notin Owners /\ fut[heir] = "pending"
    BY <1>0, <2>1 DEF FirstLive, LivePositions
  <2>3. /\ Len(waiters') = Len(waiters) - i
        /\ DOMAIN waiters' = 1 .. (Len(waiters) - i)
        /\ \A k \in DOMAIN waiters' : waiters'[k] = waiters[i + k] /\ i + k \in DOMAIN waiters
    BY <2>1 DEF TypeOK
  <2>4. TypeOK' /\ FutureIffQueued'
    BY SMTT(30), <2>1, <2>2 DEF TypeOK, FutureStates, FutureIffQueued
  <2>5. \A k \in DOMAIN waiters' : waiters'[k] # heir /\ waiters'[k] # t
    BY <1>0, <2>1, <2>3 DEF DequeDistinct, TypeOK
  <2>6. DequeDistinct'
    <3> SUFFICES ASSUME NEW j \in DOMAIN waiters', NEW k \in DOMAIN waiters',
                        waiters'[j] = waiters'[k]
                 PROVE  j = k
      BY DEF DequeDistinct
    <3>1. i + j = i + k
      BY <2>3 DEF DequeDistinct
    <3>2. QED
      BY <3>1, <2>3 DEF TypeOK
  <2>12. DequeUngranted'
    <3> SUFFICES ASSUME NEW k \in DOMAIN waiters'
                 PROVE  fut'[waiters'[k]] \in {"pending", "cancelled"}
      BY DEF DequeUngranted
    <3>1. waiters'[k] \in Tasks /\ fut[waiters'[k]] \in {"pending", "cancelled"}
      BY <1>0, <2>3 DEF DequeUngranted
    <3>2. fut'[waiters'[k]] = fut[waiters'[k]]
      BY <3>1, <2>1, <2>2, <2>5 DEF TypeOK
    <3>3. QED
      BY <3>1, <3>2
  <2>7. LiveWaitersQueued'
    <3> SUFFICES ASSUME NEW u \in Live' PROVE \E k \in DOMAIN waiters' : waiters'[k] = u
      BY DEF LiveWaitersQueued
    <3>1. u \in Live /\ u # heir
      BY <2>1, <2>2 DEF Live, TypeOK
    <3>2. PICK j \in DOMAIN waiters : waiters[j] = u
      BY <3>1 DEF LiveWaitersQueued
    <3>3. j > i
      BY <2>1, <3>1, <3>2 DEF FirstLive, LivePositions, Live, TypeOK
    <3>4. j - i \in DOMAIN waiters' /\ waiters'[j - i] = u
      BY <2>3, <3>2, <3>3 DEF TypeOK
    <3>5. QED
      BY <3>4
  <2>8. Owners' = (Owners \ {t}) \cup {heir}
    BY <2>1, <2>2, <1>0 DEF Owners, TypeOK, FutureIffQueued
  <2>9. Cardinality(Owners') = running
    BY <1>0, <1>1, <1>2, <2>2, <2>8, OwnersChange
  <2>10. waiters # <<>>
    BY <2>1
  <2>11. QED
    BY <2>1, <2>4, <2>6, <2>7, <2>9, <2>10, <2>12
       DEF PermitsConserved, NoIdlePermitOverDeque
<1>5. QED
  BY <1>3, <1>4 DEF WakeNext

\* What is left of a sequence without its i-th element.
LEMMA RemoveAtIndex ==
    ASSUME NEW S, NEW s \in Seq(S), NEW i \in 1 .. Len(s)
    PROVE  /\ WithoutIndex(s, i) \in Seq(S)
           /\ Len(WithoutIndex(s, i)) = Len(s) - 1
           /\ \A k \in 1 .. i - 1 : WithoutIndex(s, i)[k] = s[k]
           /\ \A k \in i .. Len(s) - 1 : WithoutIndex(s, i)[k] = s[k + 1]
<1> DEFINE front == SubSeq(s, 1, i - 1)
           back == SubSeq(s, i + 1, Len(s))
           r == WithoutIndex(s, i)
<1>1. Len(s) \in Nat /\ i \in Int /\ 1 <= i /\ i <= Len(s)
      /\ \A k \in 1 .. Len(s) : s[k] \in S
  OBVIOUS
<1>2. /\ front \in Seq(S) /\ Len(front) = i - 1
      /\ \A k \in 1 .. i - 1 : front[k] = s[k]
  <2>1. /\ front \in Seq(S)
        /\ Len(front) = IF 1 <= i - 1 THEN i - 1 ELSE 0
        /\ \A k \in 1 .. i - 1 : front[k] = s[1 + k - 1]
    BY <1>1, SubSeqProperties
  <2>2. QED
    BY <1>1, <2>1
<1>3. /\ back \in Seq(S) /\ Len(back) = Len(s) - i
      /\ \A k \in 1 .. Len(s) - i : back[k] = s[i + k]
  BY <1>1, SubSeqProperties
<1> HIDE DEF front, back, r
<1>4. /\ r \in Seq(S) /\ Len(r) = Len(front) + Len(back)
      /\ \A k \in 1 .. Len(front) + Len(back) :
           r[k] = IF k <= Len(front) THEN front[k] ELSE back[k - Len(front)]
  BY <1>2, <1>3, ConcatProperties DEF front, back, r, WithoutIndex
<1>5. Len(r) = Len(s) - 1
  <2>1. Len(r) = Len(front) + Len(back) /\ Len(front) = i - 1 /\ Len(back) = Len(s) - i
    BY <1>2, <1>3, <1>4
  <2>2. \A a, b \in Int : (a - 1) + (b - a) = b - 1
    OBVIOUS
  <2>3. i \in Int /\ Len(s) \in Int
    BY <1>1
  <2>4. QED
    BY <2>1, <2>2, <2>3
<1>6. ASSUME NEW k \in 1 .. i - 1 PROVE r[k] = s[k]
  <2>1. k \in 1 .. Len(front) + Len(back) /\ k <= Len(front)
    BY <1>1, <1>2, <1>3
  <2>2. QED
    BY <2>1, <1>2, <1>4
<1>7. ASSUME NEW k \in i .. Len(s) - 1 PROVE r[k] = s[k + 1]
  <2>1. k \in 1 .. Len(front) + Len(back) /\ ~(k <= Len(front))
    BY <1>1, <1>2, <1>3
  <2>2. r[k] = back[k - (i - 1)]
    BY <2>1, <1>2, <1>4
  <2>3. k - (i - 1) \in 1 .. Len(s) - i /\ i + (k - (i - 1)) = k + 1
    BY <1>1
  <2>4. QED
    BY <2>2, <2>3, <1>3
<1>8. QED
  BY <1>4, <1>5, <1>6, <1>7 DEF r

\* A cancelled task leaves the deque, wherever it stands.
LEMMA LeaveQueueGateInv ==
    ASSUME GateInv, NEW t \in Tasks, LeaveQueue(t) PROVE GateInv'
<1> USE DEF GateInv
<1>1. FutureIffQueued' /\ Owners' = Owners /\ Live' = Live
  BY DEF LeaveQueue, FutureIffQueued, Owners, Live, TypeOK
<1>2. CASE t \notin InDeque /\ UNCHANGED waiters
  BY <1>1, <1>2 DEF LeaveQueue, TypeOK, FutureStates, InDeque, DequeDistinct,
     DequeUngranted, LiveWaitersQueued, PermitsConserved, NoIdlePermitOverDeque
<1>3. CASE \E i \in DOMAIN waiters :
             /\ waiters[i] = t
             /\ waiters' = WithoutIndex(waiters, i)
  <2>0. waiters \in Seq(Tasks) /\ Len(waiters) \in Nat /\ DOMAIN waiters = 1 .. Len(waiters)
    BY DEF TypeOK
  <2>1. PICK i \in DOMAIN waiters :
             /\ waiters[i] = t
             /\ waiters' = WithoutIndex(waiters, i)
    BY <1>3
  <2> DEFINE n == Len(waiters)
  <2>2. /\ n \in Nat /\ DOMAIN waiters = 1 .. n /\ i \in 1 .. n
        /\ waiters' \in Seq(Tasks) /\ DOMAIN waiters' = 1 .. n - 1
        /\ \A k \in 1 .. i - 1 : waiters'[k] = waiters[k]
        /\ \A k \in i .. n - 1 : waiters'[k] = waiters[k + 1]
    <3>1. i \in 1 .. Len(waiters)
      BY <2>0
    <3>3. /\ waiters' \in Seq(Tasks) /\ Len(waiters') = Len(waiters) - 1
          /\ \A k \in 1 .. i - 1 : waiters'[k] = waiters[k]
          /\ \A k \in i .. Len(waiters) - 1 : waiters'[k] = waiters[k + 1]
      BY <2>0, <2>1, <3>1, RemoveAtIndex
    <3>4. DOMAIN waiters' = 1 .. Len(waiters')
      BY <3>3
    <3>5. QED
      BY <2>0, <3>1, <3>3, <3>4
  <2> HIDE DEF n
  \* Each remaining element comes from an old position other than i.
  <2>3. ASSUME NEW k \in 1 .. n - 1
        PROVE  \E j \in (1 .. n) \ {i} : /\ waiters'[k] = waiters[j]
                                         /\ k < i => j = k
                                         /\ k >= i => j = k + 1
    <3>1. CASE k < i
      <4>1. k \in (1 .. n) \ {i} /\ k \in 1 .. i - 1
        BY <2>2, <3>1
      <4>2. QED BY <2>2, <3>1, <4>1
    <3>2. CASE k >= i
      <4>1. k + 1 \in (1 .. n) \ {i} /\ k \in i .. n - 1
        BY <2>2, <3>2
      <4>2. QED BY <2>2, <3>2, <4>1
    <3>3. QED BY <2>2, <3>1, <3>2
  <2>4. TypeOK'
    BY <2>2 DEF LeaveQueue, TypeOK, FutureStates
  <2>5. DequeDistinct'
    <3> SUFFICES ASSUME NEW j \in 1 .. n - 1, NEW k \in 1 .. n - 1,
                        waiters'[j] = waiters'[k]
                 PROVE  j = k
      BY <2>2 DEF DequeDistinct
    <3>1. PICK jj \in (1 .. n) \ {i} : /\ waiters'[j] = waiters[jj]
                                       /\ j < i => jj = j
                                       /\ j >= i => jj = j + 1
      BY <2>3
    <3>2. PICK kk \in (1 .. n) \ {i} : /\ waiters'[k] = waiters[kk]
                                       /\ k < i => kk = k
                                       /\ k >= i => kk = k + 1
      BY <2>3
    <3>3. jj = kk
      BY <2>2, <3>1, <3>2 DEF DequeDistinct
    <3>4. QED
      BY <2>2, <3>1, <3>2, <3>3
  <2>6. DequeUngranted'
    <3> SUFFICES ASSUME NEW k \in 1 .. n - 1
                 PROVE  fut'[waiters'[k]] \in {"pending", "cancelled"}
      BY <2>2 DEF DequeUngranted
    <3>1. PICK j \in (1 .. n) \ {i} : waiters'[k] = waiters[j]
      BY <2>3
    <3>2. waiters[j] \in Tasks /\ fut[waiters[j]] \in {"pending", "cancelled"}
      BY <2>0, <2>2, <3>1 DEF DequeUngranted
    <3>3. waiters[j] # t
      BY <2>1, <2>2, <3>1 DEF DequeDistinct
    <3>4. fut'[waiters[j]] = fut[waiters[j]]
      BY <3>2, <3>3 DEF LeaveQueue, TypeOK
    <3>5. QED
      BY <3>1, <3>2, <3>4
  <2>7. LiveWaitersQueued'
    <3> SUFFICES ASSUME NEW u \in Live PROVE \E k \in 1 .. n - 1 : waiters'[k] = u
      BY <1>1, <2>2 DEF LiveWaitersQueued
    <3>1. PICK j \in 1 .. n : waiters[j] = u
      BY <2>2 DEF LiveWaitersQueued
    <3>2. j # i
      BY <2>1, <3>1 DEF Live, LeaveQueue
    <3>3. CASE j < i
      <4>1. j \in 1 .. n - 1 /\ j \in 1 .. i - 1
        BY <2>2, <3>3
      <4>2. QED BY <2>2, <3>1, <4>1
    <3>4. CASE j > i
      <4>1. j - 1 \in 1 .. n - 1 /\ j - 1 \in i .. n - 1 /\ (j - 1) + 1 = j
        BY <2>2, <3>4
      <4>2. QED BY <2>2, <3>1, <4>1
    <3>5. QED
      BY <2>2, <3>2, <3>3, <3>4
  <2>8. waiters # <<>>
    BY <2>1
  <2>9. running' = running
    BY DEF LeaveQueue
  <2>10. QED
    BY <1>1, <2>4, <2>5, <2>6, <2>7, <2>8, <2>9
       DEF PermitsConserved, NoIdlePermitOverDeque
<1>4. QED
  BY <1>2, <1>3 DEF LeaveQueue

\* The steps that touch neither the deque nor anybody else's future.
LEMMA LocalGateInv ==
    ASSUME GateInv, NEW t \in Tasks, AcquireFast(t) \/ Cancel(t) \/ Resume(t)
    PROVE  GateInv'
<1> USE DEF GateInv
<1>1. CASE AcquireFast(t)
  <2>1. Owners' = Owners \cup {t} /\ t \notin Owners /\ Live' = Live
    BY <1>1 DEF AcquireFast, Owners, Live, TypeOK, FutureIffQueued
  <2>2. Cardinality(Owners') = running + 1
    BY <2>1, OwnersChange DEF Owners, PermitsConserved
  <2>3. running' <= Concurrency /\ waiters = <<>>
    BY <1>1, GateAssumption DEF AcquireFast, NoIdlePermitOverDeque, TypeOK
  <2>4. QED
    BY <1>1, <2>1, <2>2, <2>3
       DEF AcquireFast, TypeOK, FutureIffQueued, DequeDistinct, DequeUngranted,
           LiveWaitersQueued, PermitsConserved, NoIdlePermitOverDeque
<1>2. CASE Cancel(t)
  <2>1. Owners' = Owners /\ Live' \subseteq Live
    BY <1>2 DEF Cancel, Owners, Live, TypeOK, FutureIffQueued
  <2>2. TypeOK' /\ FutureIffQueued' /\ DequeUngranted'
    BY <1>2 DEF Cancel, TypeOK, FutureStates, FutureIffQueued, DequeUngranted
  <2>3. QED
    BY <1>2, <2>1, <2>2
       DEF Cancel, DequeDistinct, LiveWaitersQueued, PermitsConserved, NoIdlePermitOverDeque
<1>3. CASE Resume(t)
  <2>1. Owners' = Owners /\ Live' = Live
    BY <1>3 DEF Resume, Owners, Live, TypeOK, FutureIffQueued
  <2>2. TypeOK' /\ FutureIffQueued' /\ DequeUngranted'
    BY <1>3 DEF Resume, TypeOK, FutureStates, FutureIffQueued, DequeUngranted
  <2>3. QED
    BY <1>3, <2>1, <2>2
       DEF Resume, DequeDistinct, LiveWaitersQueued, PermitsConserved, NoIdlePermitOverDeque
<1>4. QED
  BY <1>1, <1>2, <1>3

LEMMA NextGateInv == GateInv /\ [Next]_vars => GateInv'
<1> SUFFICES ASSUME GateInv, [Next]_vars PROVE GateInv'
  OBVIOUS
<1>1. ASSUME NEW t \in Tasks, Step(t) PROVE GateInv'
  <2>1. CASE AcquireFast(t) \/ Cancel(t) \/ Resume(t)
    BY <2>1, LocalGateInv
  <2>2. CASE Enqueue(t)
    BY <2>2, EnqueueGateInv
  <2>3. CASE LeaveQueue(t)
    BY <2>3, LeaveQueueGateInv
  <2>4. CASE PassOnPermit(t) \/ Exit(t)
    <3>1. t \in Owners /\ WakeNext(t) /\ pc' = [pc EXCEPT ![t] = "idle"]
      BY <2>4 DEF PassOnPermit, Exit, Owners
    <3>2. QED
      BY <3>1, WakeNextGateInv
  <2>5. QED
    BY <1>1, <2>1, <2>2, <2>3, <2>4 DEF Step
<1>2. CASE UNCHANGED vars
  BY <1>2 DEF vars, GateInv, TypeOK, FutureIffQueued, DequeDistinct, DequeUngranted,
     LiveWaitersQueued, Live, PermitsConserved, Owners, NoIdlePermitOverDeque
<1>3. QED
  BY <1>1, <1>2 DEF Next

-----------------------------------------------------------------------------
\* The gate's variables keep their types (AsrInferenceGate.acquire, _wake_next).
THEOREM TypeCorrect == Spec => []TypeOK
<1>1. GateInv => TypeOK
  BY DEF GateInv
<1>2. QED
  BY <1>1, InitGateInv, NextGateInv, PTL DEF Spec

\* At most `concurrency` tasks own a permit, counting permits in flight.
THEOREM MutualExclusion == Spec => []AtMostConcurrency
<1>1. GateInv => AtMostConcurrency
  BY DEF GateInv, AtMostConcurrency, PermitsConserved
<1>2. QED
  BY <1>1, InitGateInv, NextGateInv, PTL DEF Spec

\* A cancellation that races a hand-off neither loses nor duplicates a permit.
THEOREM Conservation == Spec => []PermitsConserved
<1>1. GateInv => PermitsConserved
  BY DEF GateInv
<1>2. QED
  BY <1>1, InitGateInv, NextGateInv, PTL DEF Spec

\* A live waiter is in the deque and all permits are out: it is never skipped.
THEOREM WorkConserving == Spec => []NoIdlePermit
<1>1. GateInv => NoIdlePermit
  BY DEF GateInv, NoIdlePermit, NoIdlePermitOverDeque, LiveWaitersQueued, TypeOK
<1>2. QED
  BY <1>1, InitGateInv, NextGateInv, PTL DEF Spec

-----------------------------------------------------------------------------
(* Refinement: GateInv supplies what the abstract guards ask for. *)

\* The instance brings its own copy of the operator.
LEMMA SameCardinality == ASSUME NEW S PROVE Semaphore!Cardinality(S) = Cardinality(S)
BY Zenon DEF Semaphore!Cardinality, Cardinality, Semaphore!IsFiniteSet, IsFiniteSet

LEMMA InitSemaphore == Init => Semaphore!Init
BY DEF Init, Semaphore!Init, Owners, Live, ArrivalOrder

\* With a permit free the deque is empty, so nobody is overtaken.
LEMMA AcquireFastEnters ==
    ASSUME GateInv, NEW t \in Tasks, AcquireFast(t) PROVE Semaphore!Enter(t)
<1> USE DEF GateInv, AcquireFast
<1>1. waiters = <<>> /\ Live = {} /\ Live' = {}
  BY GateAssumption DEF NoIdlePermitOverDeque, LiveWaitersQueued, Live, TypeOK
<1>2. ArrivalOrder = {} /\ ArrivalOrder' = {}
  BY <1>1 DEF ArrivalOrder
<1>3. t \notin Owners \cup Live /\ Owners' = Owners \cup {t}
  BY <1>1 DEF Owners, TypeOK, FutureIffQueued
<1>4. Semaphore!Cardinality(Owners) < Concurrency
  BY SameCardinality DEF PermitsConserved
<1>5. QED
  BY <1>1, <1>2, <1>3, <1>4, Zenon DEF Semaphore!Enter

\* Appending to the deque puts t behind every live waiter.
LEMMA EnqueueWaits ==
    ASSUME GateInv, NEW t \in Tasks, Enqueue(t) PROVE Semaphore!Wait(t)
<1> USE DEF GateInv, Enqueue
<1>1. /\ t \notin Owners /\ Owners' = Owners
      /\ t \notin Live /\ Live' = Live \cup {t}
  BY DEF Owners, Live, TypeOK, FutureIffQueued
<1>2. Semaphore!Cardinality(Owners) = Concurrency
  BY SameCardinality, GateAssumption DEF PermitsConserved, TypeOK
<1>3. /\ Len(waiters) \in Nat
      /\ DOMAIN waiters = 1 .. Len(waiters)
      /\ DOMAIN waiters' = 1 .. Len(waiters) + 1
      /\ \A i \in DOMAIN waiters : waiters'[i] = waiters[i] /\ waiters[i] # t
      /\ waiters'[Len(waiters) + 1] = t
  BY DEF TypeOK, FutureIffQueued, DequeUngranted
<1>4. ArrivalOrder' = ArrivalOrder \cup (Live \X {t})
  <2>1. ASSUME NEW a \in Live', NEW b \in Live'
        PROVE  <<a, b>> \in ArrivalOrder' <=> <<a, b>> \in ArrivalOrder \cup (Live \X {t})
    <3>1. CASE a = t
      BY <1>1, <1>3, <3>1 DEF ArrivalOrder
    <3>2. CASE a # t /\ b = t
      <4>1. PICK i \in DOMAIN waiters : waiters[i] = a
        BY <1>1, <3>2 DEF LiveWaitersQueued
      <4>2. i \in DOMAIN waiters' /\ i < Len(waiters) + 1 /\ waiters'[i] = a
            /\ Len(waiters) + 1 \in DOMAIN waiters'
        BY <1>3, <4>1
      <4>3. QED
        BY <1>1, <1>3, <3>2, <4>2 DEF ArrivalOrder
    <3>3. CASE a # t /\ b # t
      <4>1. \A i \in DOMAIN waiters' : waiters'[i] \in {a, b} => i \in DOMAIN waiters
        BY <1>3, <3>3
      <4>2. QED
        BY <1>1, <1>3, <3>3, <4>1 DEF ArrivalOrder
    <3>4. QED
      BY <3>1, <3>2, <3>3
  <2>2. ArrivalOrder \subseteq Live \X Live /\ ArrivalOrder' \subseteq Live' \X Live'
    BY DEF ArrivalOrder
  <2>3. QED
    BY <1>1, <2>1, <2>2
<1>5. QED
  BY <1>1, <1>2, <1>4, Zenon DEF Semaphore!Wait

\* Cancelling a pending future drops its task; cancelling a granted one is
\* invisible, for the permit is already its own.
LEMMA CancelAbandons ==
    ASSUME GateInv, NEW t \in Tasks, Cancel(t)
    PROVE  Semaphore!Abandon(t) \/ UNCHANGED Semaphore!vars
<1> USE DEF GateInv, Cancel
<1>1. CASE fut[t] = "pending"
  <2>1. t \in Live /\ Live' = Live \ {t} /\ Owners' = Owners
    BY <1>1 DEF Live, Owners, TypeOK, FutureIffQueued
  <2>2. ArrivalOrder' = Semaphore!Without(t)
    BY <2>1 DEF ArrivalOrder, Semaphore!Without
  <2>3. QED
    BY <2>1, <2>2 DEF Semaphore!Abandon
<1>2. CASE fut[t] = "granted"
  <2>1. Live' = Live /\ Owners' = Owners
    BY <1>2 DEF Live, Owners, TypeOK, FutureIffQueued
  <2>2. ArrivalOrder' = ArrivalOrder
    BY <2>1 DEF ArrivalOrder
  <2>3. QED
    BY <2>1, <2>2 DEF Semaphore!vars
<1>3. QED
  BY <1>1, <1>2

LEMMA ResumeStutters ==
    ASSUME GateInv, NEW t \in Tasks, Resume(t) PROVE UNCHANGED Semaphore!vars
<1> USE DEF GateInv, Resume
<1>1. Live' = Live /\ Owners' = Owners
  BY DEF Live, Owners, TypeOK, FutureIffQueued
<1>2. QED
  BY <1>1 DEF ArrivalOrder, Semaphore!vars

\* Popping up to the first live future hands the permit to the one nobody
\* is ahead of, and leaves the order of the others alone.
LEMMA WakeNextReturns ==
    ASSUME GateInv, NEW t \in Tasks, t \in Owners, WakeNext(t),
           pc' = [pc EXCEPT ![t] = "idle"]
    PROVE  Semaphore!Return(t)
<1> USE DEF GateInv
<1>0. fut[t] \notin {"pending", "cancelled"}
  BY DEF Owners, TypeOK, FutureIffQueued
<1>1. CASE /\ LivePositions = {}
           /\ waiters' = <<>>
           /\ fut' = [fut EXCEPT ![t] = "none"]
  <2>1. Live = {} /\ Live' = {} /\ Owners' = Owners \ {t}
    BY <1>0, <1>1 DEF LivePositions, LiveWaitersQueued, Live, Owners, TypeOK
  <2>2. ArrivalOrder = {} /\ ArrivalOrder' = {}
    BY <2>1 DEF ArrivalOrder
  <2>3. QED
    BY <2>1, <2>2 DEF Semaphore!Return
<1>2. CASE \E i \in DOMAIN waiters :
             /\ FirstLive(i)
             /\ waiters' = SubSeq(waiters, i + 1, Len(waiters))
             /\ fut' = [fut EXCEPT ![t] = "none", ![waiters[i]] = "granted"]
  <2>1. PICK i \in DOMAIN waiters :
             /\ FirstLive(i)
             /\ waiters' = SubSeq(waiters, i + 1, Len(waiters))
             /\ fut' = [fut EXCEPT ![t] = "none", ![waiters[i]] = "granted"]
    BY <1>2
  <2> DEFINE heir == waiters[i]
             n == Len(waiters)
  <2>2. /\ n \in Nat /\ i \in 1 .. n /\ DOMAIN waiters = 1 .. n
        /\ DOMAIN waiters' = 1 .. (n - i)
        /\ \A k \in 1 .. n - i : waiters'[k] = waiters[i + k]
    BY <2>1 DEF TypeOK
  <2>3. heir \in Tasks /\ heir # t /\ fut[heir] = "pending"
    BY <1>0, <2>1 DEF FirstLive, LivePositions, TypeOK
  <2>4. /\ heir \in Live /\ Live' = Live \ {heir}
        /\ Owners' = (Owners \ {t}) \cup {heir}
    BY <1>0, <2>1, <2>3 DEF Live, Owners, TypeOK, FutureIffQueued
  <2>5. \A j \in 1 .. n : waiters[j] \in Live => j >= i
    BY <2>1, <2>2 DEF FirstLive, LivePositions, Live, TypeOK
  <2>6. \A w \in Live : <<w, heir>> \notin ArrivalOrder
    <3> SUFFICES ASSUME NEW w \in Live, NEW j \in 1 .. n, NEW k \in 1 .. n,
                        j < k, waiters[j] = w, waiters[k] = heir
                 PROVE  FALSE
      BY <2>2 DEF ArrivalOrder
    <3>1. k = i /\ j >= i
      BY <2>2, <2>5 DEF DequeDistinct
    <3>2. QED
      BY <2>2, <3>1
  <2>7. ArrivalOrder' = Semaphore!Without(heir)
    <3>1. ASSUME NEW a \in Live \ {heir}, NEW b \in Live \ {heir}
          PROVE  <<a, b>> \in ArrivalOrder' <=> <<a, b>> \in ArrivalOrder
      <4>1. ASSUME <<a, b>> \in ArrivalOrder' PROVE <<a, b>> \in ArrivalOrder
        <5>1. PICK j \in 1 .. n - i, k \in 1 .. n - i :
                j < k /\ waiters'[j] = a /\ waiters'[k] = b
          BY <2>2, <4>1 DEF ArrivalOrder
        <5>2. /\ i + j \in 1 .. n /\ i + k \in 1 .. n /\ i + j < i + k
              /\ waiters[i + j] = a /\ waiters[i + k] = b
          BY <2>2, <5>1
        <5>3. QED
          BY <2>2, <5>2 DEF ArrivalOrder
      <4>2. ASSUME <<a, b>> \in ArrivalOrder PROVE <<a, b>> \in ArrivalOrder'
        <5>1. PICK j \in 1 .. n, k \in 1 .. n : j < k /\ waiters[j] = a /\ waiters[k] = b
          BY <2>2, <4>2 DEF ArrivalOrder
        <5>2. j > i /\ k > i
          BY <2>2, <2>5, <5>1
        <5>3. /\ j - i \in 1 .. n - i /\ k - i \in 1 .. n - i /\ j - i < k - i
              /\ i + (j - i) = j /\ i + (k - i) = k
          BY <2>2, <5>1, <5>2
        <5>4. waiters'[j - i] = a /\ waiters'[k - i] = b
          BY <2>2, <5>1, <5>3
        <5>5. QED
          BY <2>2, <2>4, <5>3, <5>4 DEF ArrivalOrder
      <4>3. QED
        BY <4>1, <4>2
    <3>2. ArrivalOrder \subseteq Live \X Live /\ ArrivalOrder' \subseteq Live' \X Live'
      BY DEF ArrivalOrder
    <3>3. QED
      BY <2>4, <3>1, <3>2 DEF Semaphore!Without
  <2>8. QED
    BY <2>4, <2>6, <2>7 DEF Semaphore!Return
<1>3. QED
  BY <1>1, <1>2 DEF WakeNext

\* A dead future that leaves the deque was in nobody's way.
LEMMA LeaveQueueStutters ==
    ASSUME GateInv, NEW t \in Tasks, LeaveQueue(t) PROVE UNCHANGED Semaphore!vars
<1> USE DEF GateInv
<1>1. Owners' = Owners /\ Live' = Live /\ t \notin Live
  BY DEF LeaveQueue, FutureIffQueued, Owners, Live, TypeOK
<1>2. CASE t \notin InDeque /\ UNCHANGED waiters
  BY <1>1, <1>2 DEF ArrivalOrder, Semaphore!vars
<1>3. CASE \E i \in DOMAIN waiters :
             waiters[i] = t /\ waiters' = WithoutIndex(waiters, i)
  <2>1. PICK i \in DOMAIN waiters : waiters[i] = t /\ waiters' = WithoutIndex(waiters, i)
    BY <1>3
  <2> DEFINE n == Len(waiters)
  <2>2. /\ n \in Nat /\ DOMAIN waiters = 1 .. n /\ i \in 1 .. n
        /\ DOMAIN waiters' = 1 .. n - 1
        /\ \A k \in 1 .. i - 1 : waiters'[k] = waiters[k]
        /\ \A k \in i .. n - 1 : waiters'[k] = waiters[k + 1]
    <3>1. waiters \in Seq(Tasks) /\ n \in Nat /\ DOMAIN waiters = 1 .. n /\ i \in 1 .. n
      BY <2>1 DEF TypeOK
    <3>2. /\ waiters' \in Seq(Tasks) /\ Len(waiters') = n - 1
          /\ \A k \in 1 .. i - 1 : waiters'[k] = waiters[k]
          /\ \A k \in i .. n - 1 : waiters'[k] = waiters[k + 1]
      BY <2>1, <3>1, RemoveAtIndex
    <3>3. DOMAIN waiters' = 1 .. Len(waiters')
      BY <3>2
    <3>4. QED
      BY <3>1, <3>2, <3>3
  <2> HIDE DEF n
  <2> DEFINE Old(k) == IF k < i THEN k ELSE k + 1
             New(k) == IF k < i THEN k ELSE k - 1
  <2>3. \A k \in 1 .. n - 1 : Old(k) \in 1 .. n /\ waiters'[k] = waiters[Old(k)]
    BY <2>2
  <2>4. \A k \in (1 .. n) \ {i} : New(k) \in 1 .. n - 1 /\ waiters'[New(k)] = waiters[k]
    <3> SUFFICES ASSUME NEW k \in (1 .. n) \ {i}
                 PROVE  New(k) \in 1 .. n - 1 /\ waiters'[New(k)] = waiters[k]
      OBVIOUS
    <3>1. CASE k < i
      BY <2>2, <3>1
    <3>2. CASE k > i
      <4>1. k - 1 \in i .. n - 1 /\ (k - 1) + 1 = k /\ New(k) = k - 1
        BY <2>2, <3>2
      <4>2. QED BY <2>2, <4>1
    <3>3. QED BY <2>2, <3>1, <3>2
  <2>5. ASSUME NEW a \in Live, NEW b \in Live
        PROVE  <<a, b>> \in ArrivalOrder' <=> <<a, b>> \in ArrivalOrder
    <3>1. ASSUME <<a, b>> \in ArrivalOrder' PROVE <<a, b>> \in ArrivalOrder
      <4>1. PICK j \in 1 .. n - 1, k \in 1 .. n - 1 :
              j < k /\ waiters'[j] = a /\ waiters'[k] = b
        BY <2>2, <3>1 DEF ArrivalOrder
      <4>2. Old(j) < Old(k) /\ Old(j) \in 1 .. n /\ Old(k) \in 1 .. n
            /\ waiters[Old(j)] = a /\ waiters[Old(k)] = b
        BY <2>2, <2>3, <4>1
      <4> HIDE DEF Old
      <4>3. QED
        BY <2>2, <4>2 DEF ArrivalOrder
    <3>2. ASSUME <<a, b>> \in ArrivalOrder PROVE <<a, b>> \in ArrivalOrder'
      <4>1. PICK j \in 1 .. n, k \in 1 .. n : j < k /\ waiters[j] = a /\ waiters[k] = b
        BY <2>2, <3>2 DEF ArrivalOrder
      <4>2. j # i /\ k # i
        BY <1>1, <2>1, <4>1
      <4>3. New(j) < New(k) /\ New(j) \in 1 .. n - 1 /\ New(k) \in 1 .. n - 1
            /\ waiters'[New(j)] = a /\ waiters'[New(k)] = b
        BY <2>2, <2>4, <4>1, <4>2
      <4> HIDE DEF New
      <4>4. QED
        BY <1>1, <2>2, <4>3 DEF ArrivalOrder
    <3>3. QED
      BY <3>1, <3>2
  <2>6. ArrivalOrder \subseteq Live \X Live /\ ArrivalOrder' \subseteq Live' \X Live'
    BY DEF ArrivalOrder
  <2>7. QED
    BY <1>1, <2>5, <2>6 DEF Semaphore!vars
<1>4. QED
  BY <1>2, <1>3 DEF LeaveQueue

\* The gate is a first-come first-served semaphore: every step of acquire()
\* and _wake_next is a step of FairSemaphore or invisible to it.
THEOREM Refinement == Spec => ImplementsSemaphore
<1>1. GateInv /\ [Next]_vars => [Semaphore!Next]_(Semaphore!vars)
  <2> SUFFICES ASSUME GateInv, [Next]_vars
               PROVE  Semaphore!Next \/ UNCHANGED Semaphore!vars
    OBVIOUS
  <2>1. ASSUME NEW t \in Tasks, Step(t)
        PROVE  \/ Semaphore!Enter(t) \/ Semaphore!Wait(t)
               \/ Semaphore!Abandon(t) \/ Semaphore!Return(t)
               \/ UNCHANGED Semaphore!vars
    <3>1. CASE AcquireFast(t) \/ Enqueue(t) \/ Cancel(t)
      BY <3>1, AcquireFastEnters, EnqueueWaits, CancelAbandons
    <3>2. CASE Resume(t) \/ LeaveQueue(t)
      BY <3>2, ResumeStutters, LeaveQueueStutters
    <3>3. CASE PassOnPermit(t) \/ Exit(t)
      <4>1. t \in Owners /\ WakeNext(t) /\ pc' = [pc EXCEPT ![t] = "idle"]
        BY <3>3 DEF PassOnPermit, Exit, Owners
      <4>2. QED
        BY <4>1, WakeNextReturns
    <3>4. QED
      BY <2>1, <3>1, <3>2, <3>3 DEF Step
  <2>2. CASE UNCHANGED vars
    BY <2>2 DEF vars, Semaphore!vars, Owners, Live, ArrivalOrder
  <2>3. QED
    BY <2>1, <2>2 DEF Next, Semaphore!Next
<1>2. QED
  BY <1>1, InitSemaphore, InitGateInv, NextGateInv, PTL
     DEF Spec, ImplementsSemaphore, Semaphore!Spec

=============================================================================
