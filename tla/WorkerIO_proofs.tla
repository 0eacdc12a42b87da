--------------------------- MODULE WorkerIO_proofs ---------------------------
(***************************************************************************)
(* No permit is invented, none is lost but to a coroutine cancelled inside *)
(* the executor's acquire, and whoever waits for an event has one or will  *)
(* get one unless the reader crashed before it registered, for any         *)
(* requests, slots, threads, cancellations and ways to end.                *)
(***************************************************************************)
EXTENDS WorkerIO, FiniteSetTheorems, TLAPS

Acquiring == {"acquire queued", "acquire running", "acquired", "delivered"}

\* The types, but for the upper bound on the permits.
PlainTypes ==
    /\ pc \in [Requests -> {"new", "acquiring", "over"} \cup Owning]
    /\ job \in [Requests -> {"none", "get queued", "get running", "stale"} \cup Acquiring]
    /\ inflight \subseteq Requests
    /\ inbox \in [Requests -> Seq({"chunk", "end", "exit"})]
    /\ closed \in {"no", "flagged", "woken"}
    /\ alive \in BOOLEAN /\ reading \in BOOLEAN
    /\ pool \in PoolSizes /\ unheard \subseteq Requests
    /\ work \in [Requests -> {"none", "running", "flagged", "ended"}]

\* A queue that is not in the map any more has been woken, or the worker is
\* dead and the write that would make its owner wait will fail; the guarantee
\* of a waiting request holds while its consumer has a chunk, too.
DeliveryInv ==
    /\ PlainTypes
    /\ \A r \in Requests : pc[r] = "registered" =>
          \/ \E i \in DOMAIN inbox[r] : inbox[r][i] \in {"end", "exit"}
          \/ r \in inflight /\ reading
          \/ r \in unheard
          \/ ~alive
    /\ \A r \in Requests : pc[r] \in {"waiting", "chunk"} =>
          \/ \E i \in DOMAIN inbox[r] : inbox[r][i] \in {"end", "exit"}
          \/ r \in inflight /\ reading /\ (work[r] = "running" \/ ~alive)
          \/ r \in unheard

\* The program counter and the job of a request that has a permit, or for
\* which a thread has one.
Owns(p, j) ==
    \/ p \in Owning
    \/ p = "acquiring" /\ j \in {"acquired", "delivered"}
    \/ p = "over" /\ j = "acquired"

\* A job acquires for a coroutine that awaits it, or that was cancelled there.
JobFits(p, j) ==
    /\ p = "acquiring" => j \in Acquiring
    /\ j \in Acquiring => p \in {"acquiring", "over"}

Holders == {r \in Requests : Owns(pc[r], job[r])}

PermitInv ==
    /\ PlainTypes
    /\ free \in Nat
    /\ free + Cardinality(Holders) = Slots
    /\ \A r \in Requests : JobFits(pc[r], job[r])

-----------------------------------------------------------------------------
(* What the actions have in common *)

LEMMA HoldersFinite == IsFiniteSet(Holders) /\ Cardinality(Holders) \in Nat
<1>1. IsFiniteSet(Requests) BY WorkerAssumption, FS_Union DEF Requests
<1>2. Holders \subseteq Requests BY DEF Holders
<1>3. IsFiniteSet(Holders) BY <1>1, <1>2, FS_Subset
<1> QED BY <1>3, FS_CardinalityType

\* The owners of the permits and the coroutines that lost one.
LEMMA HoldersSplit ==
    /\ Cardinality(Holders) = Cardinality(Owners) + Cardinality(Lost)
    /\ Cardinality(Owners) \in Nat /\ Cardinality(Lost) \in Nat
<1>1. Holders = Owners \cup Lost BY DEF Holders, Owns, Owners, Lost
<1>2. Owners \cap Lost = {} BY DEF Owners, Lost, Owning
<1>3. IsFiniteSet(Owners) /\ IsFiniteSet(Lost) BY <1>1, HoldersFinite, FS_Subset
<1>4. Cardinality(Owners \cup Lost) =
        Cardinality(Owners) + Cardinality(Lost) - Cardinality(Owners \cap Lost)
  BY <1>3, FS_Union
<1>5. Cardinality(Owners \cap Lost) = 0 BY <1>2, FS_EmptySet
<1>6. Cardinality(Owners) \in Nat /\ Cardinality(Lost) \in Nat BY <1>3, FS_CardinalityType
<1> QED BY <1>1, <1>4, <1>5, <1>6

\* Appending keeps what a queue holds and adds the event.
LEMMA AppendKeeps ==
    ASSUME NEW S, NEW s \in Seq(S), NEW e \in S
    PROVE  /\ Append(s, e) \in Seq(S)
           /\ \A i \in DOMAIN s : i \in DOMAIN Append(s, e) /\ Append(s, e)[i] = s[i]
           /\ \E i \in DOMAIN Append(s, e) : Append(s, e)[i] = e
<1>1. Append(s, e) \in Seq(S) /\ Len(Append(s, e)) = Len(s) + 1 OBVIOUS
<1>2. DOMAIN Append(s, e) = 1..(Len(s) + 1) /\ DOMAIN s = 1..Len(s) /\ Len(s) \in Nat OBVIOUS
<1>3. Append(s, e)[Len(s) + 1] = e OBVIOUS
<1>4. \A i \in 1..Len(s) : Append(s, e)[i] = s[i] OBVIOUS
<1> QED BY <1>1, <1>2, <1>3, <1>4

\* Taking a chunk from a queue keeps its last events.
LEMMA TailKeeps ==
    ASSUME NEW S, NEW s \in Seq(S), s # <<>>
    PROVE  /\ Tail(s) \in Seq(S) /\ Head(s) \in S
           /\ \A i \in DOMAIN s : s[i] # Head(s) =>
                 \E j \in DOMAIN Tail(s) : Tail(s)[j] = s[i]
<1>1. Tail(s) \in Seq(S) /\ Head(s) \in S /\ Head(s) = s[1] OBVIOUS
<1>2. Len(Tail(s)) = Len(s) - 1 /\ Len(s) \in Nat /\ DOMAIN s = 1..Len(s) OBVIOUS
<1>3. DOMAIN Tail(s) = 1..(Len(s) - 1) BY <1>1, <1>2
<1>4. \A j \in 1..(Len(s) - 1) : Tail(s)[j] = s[j + 1] OBVIOUS
<1>5. ASSUME NEW i \in DOMAIN s, s[i] # Head(s)
      PROVE  \E j \in DOMAIN Tail(s) : Tail(s)[j] = s[i]
  <2>1. i \in 2..Len(s) BY <1>1, <1>2, <1>5
  <2>2. i - 1 \in 1..(Len(s) - 1) /\ (i - 1) + 1 = i BY <2>1, <1>2
  <2>3. Tail(s)[i - 1] = s[i] BY <2>2, <1>4
  <2> QED BY <2>2, <2>3, <1>3
<1> QED BY <1>1, <1>5

\* cancel() touches the work of a request that is over, and nobody else's.
LEMMA SendCancelEffect ==
    ASSUME PlainTypes, NEW r \in Requests, SendCancel(r) \/ UNCHANGED work
    PROVE  /\ work' \in [Requests -> {"none", "running", "flagged", "ended"}]
           /\ \A q \in Requests : q # r => work'[q] = work[q]
BY DEF PlainTypes, SendCancel

\* The finally block.
LEMMA FinishEffect ==
    ASSUME PlainTypes, NEW r \in Requests, NEW naturally, Finish(r, naturally)
    PROVE  /\ pc' = [pc EXCEPT ![r] = "over"]
           /\ inflight' = inflight \ {r}
           /\ free' = free + 1
           /\ work' \in [Requests -> {"none", "running", "flagged", "ended"}]
           /\ \A q \in Requests : q # r => work'[q] = work[q]
<1>1. SendCancel(r) \/ UNCHANGED work BY DEF Finish
<1> QED BY <1>1, SendCancelEffect DEF Finish, Goto

\* Everybody in the map gets the sentinel.
LEMMA WakeAllEffect ==
    ASSUME PlainTypes, WakeAll
    PROVE  /\ inflight' = {}
           /\ inbox' \in [Requests -> Seq({"chunk", "end", "exit"})]
           /\ \A r \in Requests \ inflight : inbox'[r] = inbox[r]
           /\ \A r \in inflight : \E i \in DOMAIN inbox'[r] : inbox'[r][i] = "exit"
<1>1. inbox' = [r \in Requests |-> IF r \in inflight THEN Append(inbox[r], "exit") ELSE inbox[r]]
  BY DEF WakeAll
<1>2. \A r \in Requests : inbox[r] \in Seq({"chunk", "end", "exit"}) BY DEF PlainTypes
<1>3. inflight \subseteq Requests BY DEF PlainTypes
<1>4. ASSUME NEW r \in inflight
      PROVE  /\ inbox'[r] = Append(inbox[r], "exit")
             /\ inbox'[r] \in Seq({"chunk", "end", "exit"})
             /\ \E i \in DOMAIN inbox'[r] : inbox'[r][i] = "exit"
  <2>1. r \in Requests BY <1>3, <1>4
  <2>2. inbox'[r] = Append(inbox[r], "exit") BY <1>1, <2>1, <1>4
  <2>3. inbox[r] \in Seq({"chunk", "end", "exit"}) BY <1>2, <2>1
  <2> QED BY <2>2, <2>3, AppendKeeps
<1>5. \A r \in Requests \ inflight : inbox'[r] = inbox[r] BY <1>1
<1>6. inbox' \in [Requests -> Seq({"chunk", "end", "exit"})]
  <2>1. \A r \in Requests : inbox'[r] \in Seq({"chunk", "end", "exit"})
    BY <1>2, <1>4, <1>5
  <2> QED BY <1>1, <2>1
<1> QED BY <1>4, <1>5, <1>6 DEF WakeAll

\* A dispatched event loses none of those before it.
LEMMA DispatchEffect ==
    ASSUME PlainTypes, NEW r \in Requests, NEW e \in {"chunk", "end"}, Dispatch(r, e)
    PROVE  /\ inbox' \in [Requests -> Seq({"chunk", "end", "exit"})]
           /\ \A q \in Requests : \A i \in DOMAIN inbox[q] :
                 i \in DOMAIN inbox'[q] /\ inbox'[q][i] = inbox[q][i]
           /\ r \in inflight /\ reading => \E i \in DOMAIN inbox'[r] : inbox'[r][i] = e
<1>1. inbox[r] \in Seq({"chunk", "end", "exit"}) BY DEF PlainTypes
<1>2. CASE r \in inflight /\ reading
  <2>1. inbox' = [inbox EXCEPT ![r] = Append(inbox[r], e)] BY <1>2 DEF Dispatch
  <2>2. inbox'[r] = Append(inbox[r], e) /\ \A q \in Requests : q # r => inbox'[q] = inbox[q]
    BY <2>1 DEF PlainTypes
  <2>3. Append(inbox[r], e) \in Seq({"chunk", "end", "exit"}) BY <1>1, AppendKeeps
  <2>4. inbox' \in [Requests -> Seq({"chunk", "end", "exit"})] BY <2>1, <2>3 DEF PlainTypes
  <2>5. /\ \A i \in DOMAIN inbox[r] : i \in DOMAIN inbox'[r] /\ inbox'[r][i] = inbox[r][i]
        /\ \E i \in DOMAIN inbox'[r] : inbox'[r][i] = e
    BY <1>1, <2>2, AppendKeeps
  <2> QED BY <2>2, <2>4, <2>5
<1>3. CASE ~(r \in inflight /\ reading)
  BY <1>3 DEF Dispatch, PlainTypes
<1> QED BY <1>2, <1>3

-----------------------------------------------------------------------------
\* The steps of a request that leave the queues, the map, the worker and the
\* requests that wait for events alone.
LEMMA AdmissionDelivers ==
    ASSUME DeliveryInv, NEW r \in Requests,
           UNCHANGED <<inflight, inbox, closed, worker>>,
           job' \in [Requests -> {"none", "get queued", "get running", "stale"} \cup Acquiring],
           NEW where \in {"acquiring", "admitted", "checked", "over"},
           pc' = pc \/ pc' = [pc EXCEPT ![r] = where]
    PROVE  DeliveryInv'
<1>1. /\ inflight' = inflight /\ inbox' = inbox /\ closed' = closed
      /\ alive' = alive /\ reading' = reading /\ pool' = pool /\ unheard' = unheard /\ work' = work
  BY DEF worker, process
<1>2. PlainTypes' BY ZenonT(60), <1>1 DEF DeliveryInv, PlainTypes, Owning
<1>3. \A q \in Requests : pc'[q] \in {"registered", "waiting", "chunk"} => pc'[q] = pc[q]
  BY DEF DeliveryInv, PlainTypes
<1> QED BY <1>1, <1>2, <1>3 DEF DeliveryInv

\* A request ends; those that stay keep their place in the map.
LEMMA FinishDelivers ==
    ASSUME DeliveryInv, NEW r \in Requests, NEW naturally, Finish(r, naturally),
           UNCHANGED <<closed, process>>,
           job' \in [Requests -> {"none", "get queued", "get running", "stale"} \cup Acquiring],
           inbox' \in [Requests -> Seq({"chunk", "end", "exit"})],
           \A q \in Requests : q # r => inbox'[q] = inbox[q]
    PROVE  DeliveryInv'
<1>0. PlainTypes BY DEF DeliveryInv
<1>1. closed' = closed /\ alive' = alive /\ reading' = reading /\ pool' = pool /\ unheard' = unheard BY DEF process
<1>2. /\ pc' = [pc EXCEPT ![r] = "over"]
      /\ inflight' = inflight \ {r}
      /\ work' \in [Requests -> {"none", "running", "flagged", "ended"}]
      /\ \A q \in Requests : q # r => work'[q] = work[q]
  BY <1>0, FinishEffect
<1>3. PlainTypes' BY <1>0, <1>1, <1>2 DEF PlainTypes, Owning
<1>4. pc'[r] = "over" /\ \A q \in Requests : q # r => pc'[q] = pc[q] BY <1>0, <1>2 DEF PlainTypes
<1>6. ASSUME NEW q \in Requests, pc'[q] = "registered"
      PROVE  \/ \E i \in DOMAIN inbox'[q] : inbox'[q][i] \in {"end", "exit"}
             \/ q \in inflight' /\ reading'
             \/ q \in unheard'
             \/ ~alive'
  <2>1. q # r BY <1>4, <1>6
  <2>2. pc[q] = "registered" /\ inbox'[q] = inbox[q] BY <1>4, <1>6, <2>1
  <2> QED BY <1>1, <1>2, <2>1, <2>2 DEF DeliveryInv
<1>7. ASSUME NEW q \in Requests, pc'[q] \in {"waiting", "chunk"}
      PROVE  \/ \E i \in DOMAIN inbox'[q] : inbox'[q][i] \in {"end", "exit"}
             \/ q \in inflight' /\ reading' /\ (work'[q] = "running" \/ ~alive')
             \/ q \in unheard'
  <2>1. q # r BY <1>4, <1>7
  <2>2. pc[q] \in {"waiting", "chunk"} /\ inbox'[q] = inbox[q] /\ work'[q] = work[q]
    BY <1>2, <1>4, <1>7, <2>1
  <2>3. \/ \E i \in DOMAIN inbox[q] : inbox[q][i] \in {"end", "exit"}
        \/ q \in inflight /\ reading /\ (work[q] = "running" \/ ~alive)
        \/ q \in unheard
    BY <2>2 DEF DeliveryInv
  <2> QED BY <1>1, <1>2, <2>1, <2>2, <2>3
<1> QED BY <1>3, <1>6, <1>7 DEF DeliveryInv

\* Everybody in the map is woken: by close(), or by the reader that ends.
LEMMA WakeDelivers ==
    ASSUME DeliveryInv, WakeAll, UNCHANGED <<pc, job, alive, pool, unheard, work>>,
           closed' \in {"no", "flagged", "woken"}, reading' \in BOOLEAN
    PROVE  DeliveryInv'
<1>0. PlainTypes BY DEF DeliveryInv
<1>1. /\ pc' = pc /\ job' = job /\ alive' = alive /\ work' = work
      /\ pool' = pool /\ unheard' = unheard
  OBVIOUS
<1>2. /\ inflight' = {}
      /\ inbox' \in [Requests -> Seq({"chunk", "end", "exit"})]
      /\ \A r \in Requests \ inflight : inbox'[r] = inbox[r]
      /\ \A r \in inflight : \E i \in DOMAIN inbox'[r] : inbox'[r][i] = "exit"
  BY <1>0, WakeAllEffect
<1>3. PlainTypes' BY <1>0, <1>1, <1>2 DEF PlainTypes
<1>4. ASSUME NEW q \in Requests,
             \/ \E i \in DOMAIN inbox[q] : inbox[q][i] \in {"end", "exit"}
             \/ q \in inflight
      PROVE  \E i \in DOMAIN inbox'[q] : inbox'[q][i] \in {"end", "exit"}
  <2>1. CASE q \in inflight BY <1>2, <2>1
  <2>2. CASE q \notin inflight
    <3>1. inbox'[q] = inbox[q] BY <1>2, <2>2
    <3> QED BY <1>4, <2>2, <3>1
  <2> QED BY <2>1, <2>2
<1>5. \A q \in Requests : pc'[q] = "registered" =>
         \/ \E i \in DOMAIN inbox'[q] : inbox'[q][i] \in {"end", "exit"}
         \/ q \in unheard'
         \/ ~alive'
  BY <1>1, <1>4 DEF DeliveryInv
<1>6. \A q \in Requests : pc'[q] \in {"waiting", "chunk"} =>
         \/ \E i \in DOMAIN inbox'[q] : inbox'[q][i] \in {"end", "exit"}
         \/ q \in unheard'
  BY <1>1, <1>4 DEF DeliveryInv
<1> QED BY <1>3, <1>5, <1>6 DEF DeliveryInv

\* An event arrives; work changes for r only, which has its end then.
LEMMA DispatchDelivers ==
    ASSUME DeliveryInv, NEW r \in Requests, NEW e \in {"chunk", "end"}, Dispatch(r, e),
           UNCHANGED <<client, closed, process>>,
           \/ work' = work
           \/ e = "end" /\ work' = [work EXCEPT ![r] = "ended"]
    PROVE  DeliveryInv'
<1>0. PlainTypes BY DEF DeliveryInv
<1>1. /\ pc' = pc /\ job' = job /\ inflight' = inflight
      /\ closed' = closed /\ alive' = alive /\ reading' = reading /\ pool' = pool /\ unheard' = unheard
  BY DEF client, process
<1>2. /\ inbox' \in [Requests -> Seq({"chunk", "end", "exit"})]
      /\ \A q \in Requests : \A i \in DOMAIN inbox[q] :
            i \in DOMAIN inbox'[q] /\ inbox'[q][i] = inbox[q][i]
      /\ r \in inflight /\ reading => \E i \in DOMAIN inbox'[r] : inbox'[r][i] = e
  BY <1>0, DispatchEffect
<1>3. work' \in [Requests -> {"none", "running", "flagged", "ended"}]
      /\ \A q \in Requests : q # r => work'[q] = work[q]
  BY <1>0 DEF PlainTypes
<1>4. PlainTypes' BY <1>0, <1>1, <1>2, <1>3 DEF PlainTypes
<1>5. ASSUME NEW q \in Requests, pc'[q] \in {"waiting", "chunk"}
      PROVE  \/ \E i \in DOMAIN inbox'[q] : inbox'[q][i] \in {"end", "exit"}
             \/ q \in inflight' /\ reading' /\ (work'[q] = "running" \/ ~alive')
             \/ q \in unheard'
  <2>1. CASE \E i \in DOMAIN inbox[q] : inbox[q][i] \in {"end", "exit"}
    BY <1>2, <2>1
  <2>2. CASE q \in inflight /\ reading /\ (work[q] = "running" \/ ~alive)
    <3>1. CASE work'[q] = work[q] BY <1>1, <2>2, <3>1
    <3>2. CASE work'[q] # work[q]
      <4>1. q = r /\ e = "end" BY <1>3, <3>2
      <4> QED BY <1>2, <2>2, <4>1
    <3> QED BY <3>1, <3>2
  <2>3. CASE q \in unheard BY <1>1, <2>3
  <2> QED BY <1>1, <1>5, <2>1, <2>2, <2>3 DEF DeliveryInv
<1>6. ASSUME NEW q \in Requests, pc'[q] = "registered"
      PROVE  \/ \E i \in DOMAIN inbox'[q] : inbox'[q][i] \in {"end", "exit"}
             \/ q \in inflight' /\ reading'
             \/ q \in unheard'
             \/ ~alive'
  <2>1. CASE \E i \in DOMAIN inbox[q] : inbox[q][i] \in {"end", "exit"}
    BY <1>2, <2>1
  <2>2. CASE (q \in inflight /\ reading) \/ q \in unheard \/ ~alive
    BY <1>1, <2>2
  <2> QED BY <1>1, <1>6, <2>1, <2>2 DEF DeliveryInv
<1> QED BY <1>4, <1>5, <1>6 DEF DeliveryInv

\* The job of a request is always one of the executor's.
LEMMA JobTypes ==
    ASSUME PlainTypes, NEW r \in Requests,
           NEW what \in {"none", "get queued", "get running", "stale"} \cup Acquiring,
           Run(r, what) \/ AwaitEvent(r) \/ UNCHANGED job
    PROVE  job' \in [Requests -> {"none", "get queued", "get running", "stale"} \cup Acquiring]
BY DEF PlainTypes, Run, AwaitEvent

LEMMA WriteDelivers ==
    ASSUME DeliveryInv, NEW r \in Requests, Write(r)
    PROVE  DeliveryInv'
<1>0. PlainTypes /\ pc[r] = "registered" /\ inbox' = inbox /\ closed' = closed
      /\ alive' = alive /\ reading' = reading /\ pool' = pool /\ unheard' = unheard
  BY DEF DeliveryInv, Write, process
<1>1. CASE closed = "no" /\ alive
  <2>1. /\ AwaitEvent(r) /\ inflight' = inflight
        /\ work' = [work EXCEPT ![r] = "running"]
    BY <1>1 DEF Write
  <2>2. job' \in [Requests -> {"none", "get queued", "get running", "stale"} \cup Acquiring]
    BY <1>0, <2>1, JobTypes
  <2>3. pc' = [pc EXCEPT ![r] = "waiting"] BY <2>1 DEF AwaitEvent, Goto
  <2>4. PlainTypes' BY <1>0, <2>1, <2>2, <2>3 DEF PlainTypes, Owning
  <2>5. \/ \E i \in DOMAIN inbox[r] : inbox[r][i] \in {"end", "exit"}
        \/ r \in inflight /\ reading
        \/ r \in unheard
    BY <1>0, <1>1 DEF DeliveryInv
  <2>6. /\ pc'[r] = "waiting" /\ work'[r] = "running"
        /\ \A q \in Requests : q # r => pc'[q] = pc[q] /\ work'[q] = work[q]
    BY <1>0, <2>1, <2>3 DEF PlainTypes
  <2> QED BY <1>0, <2>1, <2>4, <2>5, <2>6 DEF DeliveryInv
<1>2. CASE ~(closed = "no" /\ alive)
  <2>1. Finish(r, FALSE) /\ UNCHANGED job BY <1>2 DEF Write
  <2> QED BY <1>0, <2>1, FinishDelivers DEF process, DeliveryInv, PlainTypes
<1> QED BY <1>1, <1>2

LEMMA TakeEventDelivers ==
    ASSUME DeliveryInv, NEW r \in Requests, TakeEvent(r)
    PROVE  DeliveryInv'
<1>0. /\ PlainTypes /\ pc[r] = "waiting" /\ inbox[r] # <<>>
      /\ inbox' = [inbox EXCEPT ![r] = Tail(inbox[r])]
      /\ Run(r, "none") /\ UNCHANGED <<closed, process>>
  BY DEF DeliveryInv, TakeEvent, Getting
<1>1. inbox[r] \in Seq({"chunk", "end", "exit"}) BY <1>0 DEF PlainTypes
<1>2. /\ Tail(inbox[r]) \in Seq({"chunk", "end", "exit"})
      /\ Head(inbox[r]) \in {"chunk", "end", "exit"}
      /\ \A i \in DOMAIN inbox[r] : inbox[r][i] # Head(inbox[r]) =>
            \E j \in DOMAIN Tail(inbox[r]) : Tail(inbox[r])[j] = inbox[r][i]
  BY <1>0, <1>1, TailKeeps
<1>3. /\ inbox' \in [Requests -> Seq({"chunk", "end", "exit"})]
      /\ inbox'[r] = Tail(inbox[r])
      /\ \A q \in Requests : q # r => inbox'[q] = inbox[q]
  BY <1>0, <1>2 DEF PlainTypes
<1>4. job' \in [Requests -> {"none", "get queued", "get running", "stale"} \cup Acquiring]
  BY <1>0, JobTypes
<1>5. CASE Head(inbox[r]) = "exit"
  <2>1. Finish(r, FALSE) BY <1>5 DEF TakeEvent
  <2> QED BY <1>0, <1>3, <1>4, <2>1, FinishDelivers
<1>6. CASE Head(inbox[r]) # "exit"
  <2>1. Goto(r, Head(inbox[r])) /\ inflight' = inflight /\ work' = work
    BY <1>6 DEF TakeEvent
  <2>2. pc' = [pc EXCEPT ![r] = Head(inbox[r])] BY <2>1 DEF Goto
  <2>3. Head(inbox[r]) \in {"chunk", "end"} BY <1>2, <1>6
  <2>4. closed' = closed /\ alive' = alive /\ reading' = reading /\ pool' = pool /\ unheard' = unheard BY <1>0 DEF process
  <2>5. PlainTypes' BY <1>0, <1>3, <1>4, <2>1, <2>2, <2>3, <2>4 DEF PlainTypes, Owning
  <2>6. /\ pc'[r] = Head(inbox[r])
        /\ \A q \in Requests : q # r => pc'[q] = pc[q]
    BY <1>0, <2>2 DEF PlainTypes
  <2>7. ASSUME Head(inbox[r]) = "chunk"
        PROVE  \/ \E i \in DOMAIN inbox'[r] : inbox'[r][i] \in {"end", "exit"}
               \/ r \in inflight' /\ reading' /\ (work'[r] = "running" \/ ~alive')
               \/ r \in unheard'
    <3>1. CASE \E i \in DOMAIN inbox[r] : inbox[r][i] \in {"end", "exit"}
      <4>1. PICK i \in DOMAIN inbox[r] : inbox[r][i] \in {"end", "exit"} BY <3>1
      <4>2. inbox[r][i] # Head(inbox[r]) BY <2>7, <4>1
      <4>3. PICK j \in DOMAIN Tail(inbox[r]) : Tail(inbox[r])[j] = inbox[r][i]
        BY <1>2, <4>2
      <4> QED BY <1>3, <4>1, <4>3
    <3>2. CASE \/ r \in inflight /\ reading /\ (work[r] = "running" \/ ~alive)
               \/ r \in unheard
      BY <2>1, <2>4, <3>2
    <3> QED BY <1>0, <3>1, <3>2 DEF DeliveryInv
  <2>9. ASSUME NEW q \in Requests, pc'[q] = "registered"
        PROVE  \/ \E i \in DOMAIN inbox'[q] : inbox'[q][i] \in {"end", "exit"}
               \/ q \in inflight' /\ reading'
               \/ q \in unheard'
               \/ ~alive'
    <3>1. q # r BY <2>3, <2>6, <2>9
    <3>2. pc[q] = "registered" /\ inbox'[q] = inbox[q] BY <1>3, <2>6, <2>9, <3>1
    <3> QED BY <2>1, <2>4, <3>2 DEF DeliveryInv
  <2>10. ASSUME NEW q \in Requests, pc'[q] \in {"waiting", "chunk"}
         PROVE  \/ \E i \in DOMAIN inbox'[q] : inbox'[q][i] \in {"end", "exit"}
                \/ q \in inflight' /\ reading' /\ (work'[q] = "running" \/ ~alive')
                \/ q \in unheard'
    <3>1. CASE q = r BY <2>3, <2>6, <2>7, <2>10, <3>1
    <3>2. CASE q # r
      BY <1>3, <2>1, <2>4, <2>6, <2>10, <3>2 DEF DeliveryInv
    <3> QED BY <3>1, <3>2
  <2> QED BY <2>5, <2>9, <2>10 DEF DeliveryInv
<1> QED BY <1>5, <1>6

LEMMA RequestDelivers ==
    ASSUME DeliveryInv, NEW r \in Requests,
           Pool(r) \/ Request(r) \/ GivesUp(r) \/ EmitChunk(r) \/ EmitEnd(r)
    PROVE  DeliveryInv'
<1>0. PlainTypes BY DEF DeliveryInv
<1>1. CASE Pool(r) \/ Deliver(r)
  <2>1. PICK what \in {"none", "get queued", "get running", "stale"} \cup Acquiring : Run(r, what)
    BY <1>1 DEF Pool, StartJob, ThreadAcquires, StaleEnds, Deliver, Acquiring
  <2>2. job' \in [Requests -> {"none", "get queued", "get running", "stale"} \cup Acquiring]
    BY <1>0, <2>1, JobTypes
  <2>3. pc' = pc /\ UNCHANGED <<inflight, inbox, closed, worker>>
    BY <1>1 DEF Pool, StartJob, ThreadAcquires, StaleEnds, Deliver
  <2> QED BY <2>2, <2>3, AdmissionDelivers
<1>2. CASE AcquireNow(r)
  <2>1. Goto(r, "admitted") /\ UNCHANGED job /\ UNCHANGED <<inflight, inbox, closed, worker>>
    BY <1>2 DEF AcquireNow
  <2>2. job' \in [Requests -> {"none", "get queued", "get running", "stale"} \cup Acquiring]
    BY <1>0, <2>1 DEF PlainTypes
  <2> QED BY <2>1, <2>2, AdmissionDelivers DEF Goto
<1>3. CASE AcquireLater(r)
  <2>1. Goto(r, "acquiring") /\ Run(r, "acquire queued") /\ UNCHANGED <<inflight, inbox, closed, worker>>
    BY <1>3 DEF AcquireLater
  <2>2. job' \in [Requests -> {"none", "get queued", "get running", "stale"} \cup Acquiring]
    BY <1>0, <2>1, JobTypes DEF Acquiring
  <2> QED BY <2>1, <2>2, AdmissionDelivers DEF Goto
<1>4. CASE Resume(r)
  <2>1. Goto(r, "admitted") /\ Run(r, "none") /\ UNCHANGED <<inflight, inbox, closed, worker>>
    BY <1>4 DEF Resume
  <2>2. job' \in [Requests -> {"none", "get queued", "get running", "stale"} \cup Acquiring]
    BY <1>0, <2>1, JobTypes
  <2> QED BY <2>1, <2>2, AdmissionDelivers DEF Goto
<1>5. CASE CancelAcquire(r)
  <2>1. /\ Goto(r, "over") /\ UNCHANGED <<inflight, inbox, closed, worker>>
        /\ Run(r, IF job[r] \in {"acquire queued", "delivered"} THEN "none" ELSE job[r])
    BY <1>5 DEF CancelAcquire
  <2>2. job' \in [Requests -> {"none", "get queued", "get running", "stale"} \cup Acquiring]
    BY <1>0, <2>1 DEF Run, PlainTypes
  <2> QED BY <2>1, <2>2, AdmissionDelivers DEF Goto
<1>6. CASE Check(r)
  <2>1. UNCHANGED <<inbox, closed, process>> /\ job' = job BY <1>6 DEF Check
  <2>2. job' \in [Requests -> {"none", "get queued", "get running", "stale"} \cup Acquiring]
    BY <1>0, <2>1 DEF PlainTypes
  <2>3. CASE closed = "no"
    <3>1. Goto(r, "checked") /\ inflight' = inflight /\ work' = work BY <1>6, <2>3 DEF Check
    <3> QED BY <2>1, <2>2, <3>1, AdmissionDelivers DEF Goto, worker
  <2>4. CASE closed # "no"
    <3>1. Finish(r, TRUE) BY <1>6, <2>4 DEF Check
    <3> QED BY <1>0, <2>1, <2>2, <3>1, FinishDelivers DEF PlainTypes
  <2> QED BY <2>3, <2>4
<1>7. CASE Register(r)
  <2>1. /\ pc' = [pc EXCEPT ![r] = "registered"] /\ inflight' = inflight \cup {r}
        /\ unheard' = IF alive /\ ~reading THEN unheard \cup {r} ELSE unheard
        /\ job' = job /\ inbox' = inbox /\ closed' = closed /\ work' = work
        /\ alive' = alive /\ reading' = reading /\ pool' = pool
    BY <1>7 DEF Register, Goto
  <2>2. PlainTypes' BY <1>0, <2>1 DEF PlainTypes, Owning
  <2>3. pc'[r] = "registered" /\ \A q \in Requests : q # r => pc'[q] = pc[q]
    BY <1>0, <2>1 DEF PlainTypes
  <2>4. \/ r \in inflight' /\ reading'
        \/ r \in unheard'
        \/ ~alive'
    BY <1>0, <2>1 DEF PlainTypes
  <2> QED BY <2>1, <2>2, <2>3, <2>4 DEF DeliveryInv
<1>8. CASE Write(r) BY <1>8, WriteDelivers
<1>9. CASE TakeEvent(r) BY <1>9, TakeEventDelivers
<1>10. CASE Proceed(r)
  <2>1. UNCHANGED <<inbox, closed, process>> BY <1>10 DEF Proceed
  <2>2. CASE pc[r] = "chunk" /\ AwaitEvent(r) /\ UNCHANGED <<free, inflight, work>>
    <3>1. pc' = [pc EXCEPT ![r] = "waiting"] BY <2>2 DEF AwaitEvent, Goto
    <3>2. job' \in [Requests -> {"none", "get queued", "get running", "stale"} \cup Acquiring]
      BY <1>0, <2>2, JobTypes
    <3>3. /\ inflight' = inflight /\ work' = work /\ inbox' = inbox /\ closed' = closed
          /\ alive' = alive /\ reading' = reading /\ pool' = pool /\ unheard' = unheard
      BY <2>1, <2>2 DEF process
    <3>4. PlainTypes' BY <1>0, <3>1, <3>2, <3>3 DEF PlainTypes, Owning
    <3>5. \A q \in Requests : q # r => pc'[q] = pc[q] BY <1>0, <3>1 DEF PlainTypes
    <3>6. pc[r] = "chunk" /\ pc'[r] = "waiting" BY <1>0, <2>2, <3>1 DEF PlainTypes
    <3> QED BY <3>3, <3>4, <3>5, <3>6 DEF DeliveryInv
  <2>3. CASE Finish(r, TRUE) /\ UNCHANGED job
    BY <1>0, <2>1, <2>3, FinishDelivers DEF PlainTypes
  <2> QED BY <1>10, <2>2, <2>3 DEF Proceed
<1>11. CASE GetTimeout(r) \/ CancelGet(r) \/ Abandon(r)
  <2>1. Finish(r, FALSE) /\ UNCHANGED <<inbox, closed, process>>
    BY <1>11 DEF GetTimeout, CancelGet, Abandon
  <2>2. job' \in [Requests -> {"none", "get queued", "get running", "stale"} \cup Acquiring]
    BY <1>0, <1>11 DEF GetTimeout, CancelGet, Abandon, Run, PlainTypes
  <2> QED BY <1>0, <2>1, <2>2, FinishDelivers DEF PlainTypes
<1>12. CASE EmitChunk(r)
  <2>1. Dispatch(r, "chunk") /\ UNCHANGED <<client, closed, worker>> BY <1>12 DEF EmitChunk
  <2> QED BY <2>1, DispatchDelivers DEF worker
<1>13. CASE EmitEnd(r)
  <2>1. /\ Dispatch(r, "end") /\ UNCHANGED <<client, closed, process>>
        /\ work' = [work EXCEPT ![r] = "ended"]
    BY <1>13 DEF EmitEnd
  <2> QED BY <2>1, DispatchDelivers
<1> QED BY <1>1, <1>2, <1>3, <1>4, <1>5, <1>6, <1>7, <1>8, <1>9, <1>10, <1>11, <1>12, <1>13
        DEF Request, GivesUp

LEMMA DeliveryStep == DeliveryInv /\ [Next]_vars => DeliveryInv'
<1> SUFFICES ASSUME DeliveryInv, [Next]_vars PROVE DeliveryInv' OBVIOUS
<1>1. CASE \E r \in Requests : Pool(r) \/ Request(r) \/ GivesUp(r) \/ EmitChunk(r) \/ EmitEnd(r)
  BY <1>1, RequestDelivers
<1>2. CASE CloseFlag
  BY <1>2 DEF CloseFlag, DeliveryInv, PlainTypes, client, worker, process
<1>3. CASE CloseWake
  BY <1>3, WakeDelivers DEF CloseWake, worker, process, DeliveryInv, PlainTypes
<1>4. CASE Die
  BY <1>4 DEF Die, DeliveryInv, PlainTypes, client
<1>5. CASE ReaderEnds \/ ReaderCrashes
  <2>1. ReaderStops BY <1>5 DEF ReaderEnds, ReaderCrashes
  <2> QED BY <2>1, WakeDelivers DEF ReaderStops, DeliveryInv, PlainTypes
<1>6. CASE UNCHANGED vars
  BY <1>6 DEF vars, client, worker, process, DeliveryInv, PlainTypes
<1> QED BY <1>1, <1>2, <1>3, <1>4, <1>5, <1>6 DEF Next

LEMMA DeliveryInit == Init => DeliveryInv
BY DEF Init, DeliveryInv, PlainTypes, Owning

\* A request that waits has its answer, or one will come (AnswerToCome), for
\* every way to interleave requests, cancellations, close(), the death of the
\* worker and the crash of its reader; left to the 60 s of q.get are only
\* those that register with a live worker after the crash.
THEOREM NobodyForgotten == Spec => []AnswerToCome
<1>1. DeliveryInv => AnswerToCome BY DEF DeliveryInv, AnswerToCome
<1> QED BY <1>1, DeliveryInit, DeliveryStep, PTL DEF Spec

-----------------------------------------------------------------------------
(* Permits *)

\* A step of one request takes a permit, returns one or leaves them alone.
LEMMA PermitStep ==
    ASSUME PermitInv, PlainTypes', NEW r \in Requests,
           \A q \in Requests : q # r => pc'[q] = pc[q] /\ job'[q] = job[q],
           JobFits(pc'[r], job'[r]),
           \/ /\ free' = free
              /\ Owns(pc[r], job[r]) <=> Owns(pc'[r], job'[r])
           \/ /\ free > 0 /\ free' = free - 1
              /\ ~Owns(pc[r], job[r]) /\ Owns(pc'[r], job'[r])
           \/ /\ free' = free + 1
              /\ Owns(pc[r], job[r]) /\ ~Owns(pc'[r], job'[r])
    PROVE  PermitInv'
<1>1. \A q \in Requests : q \in Holders <=> Owns(pc[q], job[q]) BY DEF Holders
<1>2. \A q \in Requests : q \in Holders' <=> Owns(pc'[q], job'[q]) BY DEF Holders
<1>3. Holders \subseteq Requests /\ Holders' \subseteq Requests BY DEF Holders
<1>4. \A q \in Requests : q # r => (q \in Holders' <=> q \in Holders)
  BY <1>1, <1>2
<1>5. free' \in Nat /\ free' + Cardinality(Holders') = Slots
  <2>1. free \in Nat /\ free + Cardinality(Holders) = Slots /\ Cardinality(Holders) \in Nat
    BY HoldersFinite DEF PermitInv
  <2>2. CASE free' = free /\ (Owns(pc[r], job[r]) <=> Owns(pc'[r], job'[r]))
    <3>1. Holders' = Holders BY <1>1, <1>2, <1>3, <1>4, <2>2
    <3> QED BY <2>1, <2>2, <3>1
  <2>3. CASE free > 0 /\ free' = free - 1 /\ ~Owns(pc[r], job[r]) /\ Owns(pc'[r], job'[r])
    <3>1. r \notin Holders /\ Holders' = Holders \cup {r} BY <1>1, <1>2, <1>3, <1>4, <2>3
    <3>2. Cardinality(Holders \cup {r}) = Cardinality(Holders) + 1
      BY <3>1, HoldersFinite, FS_AddElement
    <3>3. Cardinality(Holders') = Cardinality(Holders) + 1 BY <3>1, <3>2
    <3> QED BY <2>1, <2>3, <3>3
  <2>4. CASE free' = free + 1 /\ Owns(pc[r], job[r]) /\ ~Owns(pc'[r], job'[r])
    <3>1. r \in Holders /\ Holders' = Holders \ {r} BY <1>1, <1>2, <1>3, <1>4, <2>4
    <3>2. Cardinality(Holders \ {r}) = Cardinality(Holders) - 1
      BY <3>1, HoldersFinite, FS_RemoveElement
    <3>3. Cardinality(Holders') = Cardinality(Holders) - 1 BY <3>1, <3>2
    <3> QED BY <2>1, <2>4, <3>3
  <2> QED BY <2>2, <2>3, <2>4
<1>6. \A q \in Requests : JobFits(pc'[q], job'[q])
  BY DEF PermitInv
<1> QED BY <1>5, <1>6 DEF PermitInv

\* The finally block returns the permit of a request that owns one.
LEMMA FinishPermit ==
    ASSUME PermitInv, PlainTypes', NEW r \in Requests, NEW naturally, Finish(r, naturally),
           pc[r] \in Owning,
           NEW what \in {"none", "stale"}, UNCHANGED job \/ Run(r, what)
    PROVE  PermitInv'
<1>1. PlainTypes BY DEF PermitInv
<1>2. pc' = [pc EXCEPT ![r] = "over"] /\ free' = free + 1 BY <1>1, FinishEffect
<1>3. pc'[r] = "over" /\ \A q \in Requests : q # r => pc'[q] = pc[q]
  BY <1>1, <1>2 DEF PlainTypes
<1>4. job[r] \notin Acquiring BY DEF PermitInv, JobFits, Owning
<1>5. job'[r] \notin Acquiring /\ \A q \in Requests : q # r => job'[q] = job[q]
  BY <1>1, <1>4 DEF PlainTypes, Run, Acquiring
<1>6. Owns(pc[r], job[r]) /\ ~Owns(pc'[r], job'[r])
  BY <1>3, <1>5 DEF Owns, Owning, Acquiring
<1>7. JobFits(pc'[r], job'[r]) BY <1>3, <1>5 DEF JobFits
<1> QED BY <1>2, <1>3, <1>5, <1>6, <1>7, PermitStep

\* A step that keeps the permits: a move of the request or of its job.
LEMMA MovePermit ==
    ASSUME PermitInv, PlainTypes', NEW r \in Requests, free' = free,
           NEW where, NEW what,
           UNCHANGED pc \/ Goto(r, where), UNCHANGED job \/ Run(r, what),
           JobFits(pc'[r], job'[r]),
           Owns(pc[r], job[r]) <=> Owns(pc'[r], job'[r])
    PROVE  PermitInv'
<1>1. PlainTypes BY DEF PermitInv
<1>2. \A q \in Requests : q # r => pc'[q] = pc[q] /\ job'[q] = job[q]
  BY <1>1 DEF PlainTypes, Goto, Run
<1> QED BY <1>2, PermitStep

\* Only the permits, the places and the jobs matter.
LEMMA StillPermit ==
    ASSUME PermitInv, PlainTypes', UNCHANGED <<pc, job, free>>
    PROVE  PermitInv'
<1>1. pc' = pc /\ job' = job /\ free' = free OBVIOUS
<1>2. Holders' = Holders BY <1>1 DEF Holders
<1> QED BY <1>1, <1>2 DEF PermitInv

LEMMA AcquirePermit ==
    ASSUME PermitInv, PlainTypes', NEW r \in Requests,
           \/ AcquireNow(r) \/ AcquireLater(r) \/ Deliver(r) \/ Resume(r)
           \/ CancelAcquire(r) \/ Pool(r)
    PROVE  PermitInv'
<1>1. PlainTypes /\ JobFits(pc[r], job[r]) BY DEF PermitInv
<1>2. CASE AcquireNow(r)
  <2>1. /\ pc[r] = "new" /\ pc' = [pc EXCEPT ![r] = "admitted"] /\ job' = job
        /\ free > 0 /\ free' = free - 1
    BY <1>2 DEF AcquireNow, Goto
  <2>2. pc'[r] = "admitted" /\ \A q \in Requests : q # r => pc'[q] = pc[q]
    BY <1>1, <2>1 DEF PlainTypes
  <2>3. ~Owns(pc[r], job[r]) /\ Owns(pc'[r], job'[r]) BY <2>1, <2>2 DEF Owns, Owning
  <2>4. JobFits(pc'[r], job'[r]) BY <1>1, <2>1, <2>2 DEF JobFits
  <2> QED BY <2>1, <2>2, <2>3, <2>4, PermitStep
<1>3. CASE ThreadAcquires(r)
  <2>1. /\ job[r] = "acquire running" /\ job' = [job EXCEPT ![r] = "acquired"] /\ pc' = pc
        /\ free > 0 /\ free' = free - 1
    BY <1>3 DEF ThreadAcquires, Run
  <2>2. pc[r] \in {"acquiring", "over"} BY <1>1, <2>1 DEF JobFits, Acquiring
  <2>3. job'[r] = "acquired" /\ \A q \in Requests : q # r => job'[q] = job[q]
    BY <1>1, <2>1 DEF PlainTypes
  <2>4. ~Owns(pc[r], job[r]) /\ Owns(pc'[r], job'[r]) BY <2>1, <2>2, <2>3 DEF Owns, Owning
  <2>5. JobFits(pc'[r], job'[r]) BY <2>1, <2>2, <2>3 DEF JobFits, Acquiring
  <2> QED BY <2>1, <2>3, <2>4, <2>5, PermitStep
<1>4. CASE AcquireLater(r)
  <2>1. /\ pc[r] = "new" /\ Goto(r, "acquiring") /\ Run(r, "acquire queued") /\ free' = free
    BY <1>4 DEF AcquireLater
  <2>2. pc'[r] = "acquiring" /\ job'[r] = "acquire queued"
    BY <1>1, <2>1 DEF Goto, Run, PlainTypes
  <2>3. JobFits(pc'[r], job'[r]) BY <2>2 DEF JobFits, Acquiring
  <2>4. ~Owns(pc[r], job[r]) /\ ~Owns(pc'[r], job'[r]) BY <2>1, <2>2 DEF Owns, Owning
  <2> QED BY <2>1, <2>3, <2>4, MovePermit
<1>5. CASE StartJob(r) \/ StaleEnds(r)
  <2>1. PICK what \in {"acquire running", "get running", "none"} :
          /\ Run(r, what) /\ pc' = pc /\ free' = free
          /\ job[r] \in Acquiring <=> what \in Acquiring
          /\ job[r] \notin {"acquired", "delivered"}
    BY <1>5 DEF StartJob, StaleEnds, Acquiring
  <2>2. job'[r] = what BY <1>1, <2>1 DEF Run, PlainTypes
  <2>3. Owns(pc[r], job[r]) <=> Owns(pc'[r], job'[r]) BY <2>1, <2>2 DEF Owns
  <2>4. JobFits(pc'[r], job'[r]) BY <1>1, <2>1, <2>2 DEF JobFits
  <2> QED BY <2>1, <2>3, <2>4, MovePermit
<1>6. CASE Deliver(r)
  <2>1. /\ pc[r] = "acquiring" /\ job[r] = "acquired" /\ Run(r, "delivered")
        /\ pc' = pc /\ free' = free
    BY <1>6 DEF Deliver
  <2>2. job'[r] = "delivered" BY <1>1, <2>1 DEF Run, PlainTypes
  <2>3. Owns(pc[r], job[r]) /\ Owns(pc'[r], job'[r]) BY <2>1, <2>2 DEF Owns
  <2>4. JobFits(pc'[r], job'[r]) BY <2>1, <2>2 DEF JobFits, Acquiring
  <2> QED BY <2>1, <2>3, <2>4, MovePermit
<1>7. CASE Resume(r)
  <2>1. /\ pc[r] = "acquiring" /\ job[r] = "delivered" /\ Run(r, "none")
        /\ Goto(r, "admitted") /\ free' = free
    BY <1>7 DEF Resume
  <2>2. job'[r] = "none" /\ pc'[r] = "admitted" BY <1>1, <2>1 DEF Run, Goto, PlainTypes
  <2>3. Owns(pc[r], job[r]) /\ Owns(pc'[r], job'[r]) BY <2>1, <2>2 DEF Owns, Owning
  <2>4. JobFits(pc'[r], job'[r]) BY <2>2 DEF JobFits, Acquiring
  <2> QED BY <2>1, <2>3, <2>4, MovePermit
<1>8. CASE CancelAcquire(r)
  <2>1. /\ pc[r] = "acquiring" /\ Goto(r, "over")
        /\ Run(r, IF job[r] \in {"acquire queued", "delivered"} THEN "none" ELSE job[r])
        /\ free' = IF job[r] = "delivered" THEN free + 1 ELSE free
    BY <1>8 DEF CancelAcquire
  <2>2. /\ pc'[r] = "over"
        /\ job'[r] = IF job[r] \in {"acquire queued", "delivered"} THEN "none" ELSE job[r]
        /\ \A q \in Requests : q # r => pc'[q] = pc[q] /\ job'[q] = job[q]
    BY <1>1, <2>1 DEF Run, Goto, PlainTypes
  <2>3. JobFits(pc'[r], job'[r]) BY <2>2 DEF JobFits
  <2>4. CASE job[r] = "delivered"
    <3>1. Owns(pc[r], job[r]) /\ free' = free + 1 BY <2>1, <2>4 DEF Owns
    <3>2. ~Owns(pc'[r], job'[r]) BY <2>2, <2>4 DEF Owns, Owning
    <3> QED BY <2>2, <2>3, <3>1, <3>2, PermitStep
  <2>5. CASE job[r] # "delivered"
    <3>1. free' = free BY <2>1, <2>5
    <3>2. Owns(pc[r], job[r]) <=> Owns(pc'[r], job'[r])
      BY <2>1, <2>2, <2>5 DEF Owns, Owning
    <3> QED BY <2>2, <2>3, <3>1, <3>2, PermitStep
  <2> QED BY <2>4, <2>5
<1> QED BY <1>2, <1>3, <1>4, <1>5, <1>6, <1>7, <1>8 DEF Pool

LEMMA UsePermit ==
    ASSUME PermitInv, PlainTypes', NEW r \in Requests,
           \/ Check(r) \/ Register(r) \/ Write(r) \/ TakeEvent(r) \/ Proceed(r)
           \/ GetTimeout(r) \/ Abandon(r) \/ CancelGet(r)
    PROVE  PermitInv'
<1>1. PlainTypes /\ JobFits(pc[r], job[r]) BY DEF PermitInv
<1>2. pc[r] \in Owning
  BY DEF Check, Register, Write, TakeEvent, Getting, Proceed, GetTimeout, Abandon, CancelGet, Owning
<1>3. job[r] \notin Acquiring BY <1>1, <1>2 DEF JobFits, Owning
<1>4. CASE \E naturally \in BOOLEAN, what \in {"none", "stale"} :
              Finish(r, naturally) /\ (UNCHANGED job \/ Run(r, what))
  BY <1>2, <1>4, FinishPermit
<1>5. CASE \E where \in Owning, what \in {"none", "get queued"} :
              Goto(r, where) /\ (UNCHANGED job \/ Run(r, what)) /\ free' = free
  <2>1. PICK where \in Owning, what \in {"none", "get queued"} :
              Goto(r, where) /\ (UNCHANGED job \/ Run(r, what)) /\ free' = free
    BY <1>5
  <2>2. pc'[r] = where BY <1>1, <2>1 DEF Goto, PlainTypes
  <2>3. job'[r] = job[r] \/ job'[r] = what BY <1>1, <2>1 DEF Run, PlainTypes
  <2>4. job'[r] \notin Acquiring BY <1>3, <2>1, <2>3 DEF Acquiring
  <2>5. pc'[r] # "acquiring" BY <2>1, <2>2 DEF Owning
  <2>6. Owns(pc[r], job[r]) /\ Owns(pc'[r], job'[r]) BY <1>2, <2>1, <2>2 DEF Owns
  <2>7. JobFits(pc'[r], job'[r]) BY <2>4, <2>5 DEF JobFits
  <2> QED BY <2>1, <2>6, <2>7, MovePermit
<1>6. CASE Check(r) \/ Register(r)
  BY <1>4, <1>5, <1>6 DEF Check, Register, Owning
<1>7. CASE Write(r) \/ Proceed(r)
  <2>1. \/ AwaitEvent(r) /\ UNCHANGED free
        \/ \E naturally \in BOOLEAN : Finish(r, naturally) /\ UNCHANGED job
    BY <1>7 DEF Write, Proceed
  <2>2. AwaitEvent(r) => \E what \in {"none", "get queued"} : Goto(r, "waiting") /\ Run(r, what)
    BY DEF AwaitEvent
  <2> QED BY <1>4, <1>5, <2>1, <2>2 DEF Owning
<1>8. CASE TakeEvent(r)
  <2>1. Run(r, "none") BY <1>8 DEF TakeEvent
  <2>2. CASE Head(inbox[r]) = "exit"
    <3>1. Finish(r, FALSE) BY <1>8, <2>2 DEF TakeEvent
    <3> QED BY <1>4, <2>1, <3>1
  <2>3. CASE Head(inbox[r]) # "exit"
    <3>1. Goto(r, Head(inbox[r])) /\ free' = free BY <1>8, <2>3 DEF TakeEvent
    <3>2. inbox[r] \in Seq({"chunk", "end", "exit"}) /\ inbox[r] # <<>>
      BY <1>1, <1>8 DEF TakeEvent, PlainTypes
    <3>3. Head(inbox[r]) \in {"chunk", "end"} BY <2>3, <3>2, TailKeeps
    <3> QED BY <1>5, <2>1, <3>1, <3>3 DEF Owning
  <2> QED BY <2>2, <2>3
<1>9. CASE GetTimeout(r) \/ Abandon(r) \/ CancelGet(r)
  BY <1>4, <1>9 DEF GetTimeout, Abandon, CancelGet, Run
<1> QED BY <1>6, <1>7, <1>8, <1>9

LEMMA PermitAlways == Spec => []PermitInv
<1>1. Init => PermitInv
  <2> SUFFICES ASSUME Init PROVE PermitInv OBVIOUS
  <2>1. PlainTypes BY DeliveryInit DEF DeliveryInv
  <2>2. Holders = {} BY DEF Init, Holders, Owns, Owning
  <2>3. Cardinality(Holders) = 0 BY <2>2, FS_EmptySet
  <2>4. free \in Nat /\ free + 0 = Slots BY WorkerAssumption DEF Init
  <2>5. \A r \in Requests : JobFits(pc[r], job[r])
    BY DEF Init, JobFits, Acquiring
  <2> QED BY <2>1, <2>3, <2>4, <2>5 DEF PermitInv
<1>2. DeliveryInv /\ PermitInv /\ [Next]_vars => PermitInv'
  <2> SUFFICES ASSUME DeliveryInv, PermitInv, [Next]_vars PROVE PermitInv' OBVIOUS
  <2>1. PlainTypes' BY DeliveryStep DEF DeliveryInv
  <2>2. CASE \E r \in Requests : Pool(r) \/ Request(r) \/ GivesUp(r)
    BY <2>1, <2>2, AcquirePermit, UsePermit DEF Request, GivesUp
  <2>3. CASE \/ \E r \in Requests : EmitChunk(r) \/ EmitEnd(r)
             \/ CloseFlag \/ CloseWake \/ Die \/ ReaderEnds \/ ReaderCrashes \/ UNCHANGED vars
    <3>1. UNCHANGED <<pc, job, free>>
      BY <2>3 DEF EmitChunk, EmitEnd, CloseFlag, CloseWake, Die, ReaderEnds, ReaderCrashes,
                  ReaderStops, vars, client
    <3> QED BY <2>1, <3>1, StillPermit
  <2> QED BY <2>2, <2>3 DEF Next
<1> QED BY <1>1, <1>2, DeliveryInit, DeliveryStep, PTL DEF Spec

\* Every permit is free, with one live request, or lost to a coroutine that
\* was cancelled inside the executor's acquire, on every path through
\* cancellation, timeout, close(), the worker's death and the reader's crash:
\* a cancellation costs one permit at most, and nothing else costs any.
THEOREM OnePermitEach == Spec => []PermitsConserved
<1>1. PermitInv => PermitsConserved
  <2>1. ASSUME PermitInv PROVE PermitsConserved
    <3>1. free \in Nat /\ free + Cardinality(Holders) = Slots BY <2>1 DEF PermitInv
    <3> QED BY <3>1, HoldersSplit, WorkerAssumption DEF PermitsConserved
  <2> QED BY <2>1
<1> QED BY <1>1, PermitAlways, PTL

\* The types, and a semaphore that never holds more than its permits.
THEOREM TypeCorrect == Spec => []TypeOK
<1>1. ASSUME PermitInv PROVE TypeOK
  <2>1. free \in 0..Slots
    BY <1>1, HoldersFinite, WorkerAssumption DEF PermitInv
  <2> QED BY <1>1, <2>1 DEF PermitInv, PlainTypes, Acquiring, TypeOK
<1> QED BY <1>1, PermitAlways, PTL

=============================================================================
