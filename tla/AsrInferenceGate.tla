--------------------------- MODULE AsrInferenceGate ---------------------------
(***************************************************************************)
(* server/core/asr_infer_gate.py: the FIFO gate in front of the one shared *)
(* ASR inference context.  All code runs on one asyncio loop, so a step is *)
(* what runs between two awaits; the only await is the one on the waiter's *)
(* own future, and a task can be cancelled while it is suspended there.    *)
(*                                                                         *)
(* fut[t] is the future of t's current call of acquire():                  *)
(*   "none"      t never had to queue                                      *)
(*   "pending"   in the deque, nobody has resolved it                      *)
(*   "granted"   _wake_next called set_result; t has not resumed yet       *)
(*   "revoked"   granted, and then Task.cancel() reached t before it ran   *)
(*   "cancelled" Task.cancel() reached t first and cancelled the future    *)
(***************************************************************************)
EXTENDS Integers, Sequences, FiniteSets

CONSTANTS Tasks,        \* asyncio tasks that run utterances
          Concurrency,  \* permits of the gate
          MaxWaiting,   \* queue bound, or Unbounded (None in the code)
          Unbounded

ASSUME GateAssumption ==
    /\ IsFiniteSet(Tasks)
    /\ Concurrency \in Nat \ {0}
    /\ MaxWaiting \in Nat \cup {Unbounded}
    /\ Unbounded \notin Nat

VARIABLES pc,        \* "idle", "queued" (suspended on its future), "holding"
          fut,
          waiters,   \* _waiters: the deque, oldest first, dead futures included
          running    \* _running: permits handed out

vars == <<pc, fut, waiters, running>>

FutureStates == {"none", "pending", "granted", "revoked", "cancelled"}

TypeOK ==
    /\ pc \in [Tasks -> {"idle", "queued", "holding"}]
    /\ fut \in [Tasks -> FutureStates]
    /\ waiters \in Seq(Tasks)
    /\ running \in Nat

Init ==
    /\ pc = [t \in Tasks |-> "idle"]
    /\ fut = [t \in Tasks |-> "none"]
    /\ waiters = <<>>
    /\ running = 0

-----------------------------------------------------------------------------
\* Positions of the deque whose future is not done().
LivePositions == {i \in DOMAIN waiters : fut[waiters[i]] = "pending"}

\* A sequence without its i-th element (deque.remove of the one found there).
WithoutIndex(s, i) == SubSeq(s, 1, i - 1) \o SubSeq(s, i + 1, Len(s))

\* Tasks whose future is in the deque.
InDeque == {waiters[i] : i \in DOMAIN waiters}

\* Position i is the first live one: popleft() drops everything before it.
FirstLive(i) == i \in LivePositions /\ \A j \in LivePositions : i <= j

-----------------------------------------------------------------------------
(* Mutants: each is a plausible slip in the code, used to test a property. *)

\* _wake_next pops from the wrong end.
WakeNextNewestFirst(t) ==
    \/ /\ LivePositions = {}
       /\ waiters' = <<>>
       /\ running' = running - 1
       /\ fut' = [fut EXCEPT ![t] = "none"]
    \/ \E i \in LivePositions :
         /\ \A j \in LivePositions : j <= i
         /\ waiters' = SubSeq(waiters, 1, i - 1)
         /\ fut' = [fut EXCEPT ![t] = "none", ![waiters[i]] = "granted"]
         /\ UNCHANGED running

\* The cancellation branch forgets the permit it was granted meanwhile.
PassOnPermitSwallowed(t) ==
    /\ pc[t] = "queued"
    /\ fut[t] = "revoked"
    /\ fut' = [fut EXCEPT ![t] = "none"]
    /\ pc' = [pc EXCEPT ![t] = "idle"]
    /\ UNCHANGED <<waiters, running>>

-----------------------------------------------------------------------------
\* _wake_next run by t, whose own future is reset: the permit goes to the
\* first live waiter without touching running, or back to the pool when
\* popleft() has emptied the deque.
WakeNext(t) ==
    \/ /\ LivePositions = {}
       /\ waiters' = <<>>
       /\ running' = running - 1
       /\ fut' = [fut EXCEPT ![t] = "none"]
    \/ \E i \in DOMAIN waiters :
         /\ FirstLive(i)
         /\ waiters' = SubSeq(waiters, i + 1, Len(waiters))
         /\ fut' = [fut EXCEPT ![t] = "none", ![waiters[i]] = "granted"]
         /\ UNCHANGED running

QueueFull == MaxWaiting # Unbounded /\ Len(waiters) >= MaxWaiting

-----------------------------------------------------------------------------
\* acquire(), fast path: a permit is free.
AcquireFast(t) ==
    /\ pc[t] = "idle"
    /\ running < Concurrency
    /\ running' = running + 1
    /\ pc' = [pc EXCEPT ![t] = "holding"]
    /\ UNCHANGED <<fut, waiters>>

\* acquire(), slow path up to `await fut`.  A full queue raises
\* InferenceQueueFull instead and leaves every variable alone.
Enqueue(t) ==
    /\ pc[t] = "idle"
    /\ running >= Concurrency
    /\ ~QueueFull
    /\ waiters' = Append(waiters, t)
    /\ fut' = [fut EXCEPT ![t] = "pending"]
    /\ pc' = [pc EXCEPT ![t] = "queued"]
    /\ UNCHANGED running

\* Task.cancel() on a task suspended in acquire(): a pending future becomes
\* cancelled and stays in the deque; a granted one cannot be cancelled, the
\* CancelledError waits for the task's next turn.
Cancel(t) ==
    /\ pc[t] = "queued"
    /\ fut[t] \in {"pending", "granted"}
    /\ fut' = [fut EXCEPT ![t] = IF @ = "pending" THEN "cancelled" ELSE "revoked"]
    /\ UNCHANGED <<pc, waiters, running>>

\* `await fut` returns: the task wakes already owning its permit.
Resume(t) ==
    /\ pc[t] = "queued"
    /\ fut[t] = "granted"
    /\ pc' = [pc EXCEPT ![t] = "holding"]
    /\ fut' = [fut EXCEPT ![t] = "none"]
    /\ UNCHANGED <<waiters, running>>

\* The `except CancelledError` branch, permit granted meanwhile: pass it on.
PassOnPermit(t) ==
    /\ pc[t] = "queued"
    /\ fut[t] = "revoked"
    /\ WakeNext(t)
    /\ pc' = [pc EXCEPT ![t] = "idle"]

\* The `except CancelledError` branch, no permit: leave the deque, from which
\* a _wake_next may already have popped the dead future (ValueError: pass).
LeaveQueue(t) ==
    /\ pc[t] = "queued"
    /\ fut[t] = "cancelled"
    /\ \/ \E i \in DOMAIN waiters :
            /\ waiters[i] = t
            /\ waiters' = WithoutIndex(waiters, i)
       \/ t \notin InDeque /\ UNCHANGED waiters
    /\ fut' = [fut EXCEPT ![t] = "none"]
    /\ pc' = [pc EXCEPT ![t] = "idle"]
    /\ UNCHANGED running

\* The body of `async with gate.acquire()` ended, by return or by an error.
Exit(t) ==
    /\ pc[t] = "holding"
    /\ WakeNext(t)
    /\ pc' = [pc EXCEPT ![t] = "idle"]

Step(t) ==
    \/ AcquireFast(t)
    \/ Enqueue(t)
    \/ Cancel(t)
    \/ Resume(t)
    \/ PassOnPermit(t)
    \/ LeaveQueue(t)
    \/ Exit(t)

Next == \E t \in Tasks : Step(t)

Spec == Init /\ [][Next]_vars

\* The loop runs every ready task, and a holder's inference ends; nobody has
\* to ask for a permit or to be cancelled.
Fairness ==
    \A t \in Tasks : WF_vars(Resume(t) \/ PassOnPermit(t) \/ LeaveQueue(t) \/ Exit(t))

FairSpec == Spec /\ Fairness

-----------------------------------------------------------------------------
\* Tasks whose turn it is, running or about to be resumed.
Owners == {t \in Tasks : pc[t] = "holding" \/ fut[t] \in {"granted", "revoked"}}

Live == {t \in Tasks : fut[t] = "pending"}

\* Never more tasks inside the critical section, counting the permits in
\* flight to a task that has not resumed, than the backend has contexts.
AtMostConcurrency == Cardinality(Owners) <= Concurrency

\* No permit is lost or duplicated by a cancellation that races a hand-off:
\* the counter is always the number of tasks that own one.
PermitsConserved == running = Cardinality(Owners)

\* A live waiter never sits behind a free permit: the hand-off skips dead
\* futures until it finds it, so a newcomer on the fast path overtakes nobody.
NoIdlePermit == Live # {} => running = Concurrency

\* Every task suspended on a live future can be found by _wake_next.
LiveWaitersQueued == \A t \in Live : \E i \in DOMAIN waiters : waiters[i] = t

\* The gate is a first-come first-served semaphore, whatever is cancelled.
ArrivalOrder ==
    {p \in Live \X Live :
        \E i, j \in DOMAIN waiters : i < j /\ waiters[i] = p[1] /\ waiters[j] = p[2]}

Semaphore == INSTANCE FairSemaphore
    WITH Permits <- Concurrency, holders <- Owners, waiting <- Live,
         ahead <- ArrivalOrder

ImplementsSemaphore == Semaphore!Spec

\* Nobody starves: a queued utterance gets its turn or sees its cancellation.
NoStarvation == \A t \in Tasks : pc[t] = "queued" ~> pc[t] # "queued"

=============================================================================
