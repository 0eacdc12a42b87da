------------------------- MODULE BackendManager_proofs -------------------------
(***************************************************************************)
(* For any set of requests, sessions, profiles and kinds: a request never  *)
(* sees its backend unloaded, a READY manager serves what the factory has  *)
(* cached, and a rolled-back reload restores what was served before.       *)
(***************************************************************************)
EXTENDS BackendManager, FiniteSetTheorems, SequenceTheorems, TLAPS

\* The requests that hold a backend of kind k.
Holders(k) == {r \in Requests : http[r] # 0 /\ built[http[r]].kind = k}

\* _inflight_http counts them.
Counting == \A k \in Kinds : inflight[k] = Cardinality(Holders(k))

\* The drain was clean: nothing is in flight while a manager swaps.
SwapIsDrained == \A k \in Kinds : state[k] = "reloading" => inflight[k] = 0

Live(k) == state[k] \in {"ready", "closing", "draining", "reloading"}

\* Until the swap, a reload leaves the current backend where it was.
LiveServesCache ==
    \A k \in Kinds : Live(k) =>
        /\ current[k] \in loaded
        /\ cache[k] = current[k]
        /\ built[current[k]].kind = k

\* A manager that serves nothing holds nothing.
IdleHasNone == \A k \in Kinds : ~Live(k) => current[k] = 0

\* The inductive invariant of the safety theorems.
ManagerInv ==
    /\ TypeOK
    /\ Counting
    /\ SwapIsDrained
    /\ HttpHoldsLiveBackend
    /\ LiveServesCache
    /\ IdleHasNone
    /\ OneLoadedPerKind

-----------------------------------------------------------------------------
LEMMA HoldersFinite ==
    ASSUME NEW S \in SUBSET Requests
    PROVE  IsFiniteSet(S) /\ Cardinality(S) \in Nat
BY ManagerAssumption, FS_Subset, FS_CardinalityType

LEMMA HoldersChange ==
    ASSUME NEW S \in SUBSET Requests, NEW r \in Requests
    PROVE  /\ r \notin S => Cardinality(S \cup {r}) = Cardinality(S) + 1
           /\ r \in S => Cardinality(S \ {r}) = Cardinality(S) - 1
BY HoldersFinite, FS_AddElement, FS_RemoveElement

\* Nothing in flight means nobody holds a backend of that kind.
LEMMA DrainedMeansNoHolder ==
    ASSUME ManagerInv, NEW k \in Kinds, inflight[k] = 0,
           NEW r \in Requests, http[r] # 0
    PROVE  built[http[r]].kind # k
<1>1. Cardinality(Holders(k)) = 0
  BY DEF ManagerInv, Counting
<1>2. Holders(k) = {}
  <2>1. Holders(k) \in SUBSET Requests
    BY DEF Holders
  <2>2. QED
    BY <1>1, <2>1, HoldersFinite, FS_EmptySet
<1>3. QED
  BY <1>2 DEF Holders

\* apply_profile keeps the bookkeeping well formed, whether it returns or raises.
LEMMA ApplyType ==
    ASSUME NEW c \in Configuration, NEW k \in Kinds, NEW p \in Refs
    PROVE  /\ ApplyReturns(c, k, p) \subseteq Configuration
           /\ ApplyRaises(c, k, p) \subseteq Configuration
<1>1. Reconciled(c, k, p) \in Configuration
  BY DEF Configuration, Reconciled
<1>2. ASSUME NEW d \in Torn(c, k, p)
      PROVE  d \in Configuration
  <2>1. PICK w \in SUBSET {p} : d = [c EXCEPT !.env[k] = (@ \ c.applied[k]) \cup w]
    BY <1>2 DEF Torn
  <2>2. QED
    BY <2>1 DEF Configuration
<1>3. QED
  BY <1>1, <1>2 DEF ApplyReturns, ApplyRaises

LEMMA FreshBackendType ==
    ASSUME NEW c \in Configuration, NEW k \in Kinds
    PROVE  FreshBackend(c, k) \in Origin /\ FreshBackend(c, k).kind = k
BY DEF FreshBackend, Configuration, Origin

\* A new backend takes the next position and moves no other.
LEMMA AppendBackend ==
    ASSUME built \in Seq(Origin), NEW b \in Origin, built' = Append(built, b)
    PROVE  /\ built' \in Seq(Origin)
           /\ Len(built') = Len(built) + 1
           /\ Len(built') \in DOMAIN built'
           /\ Len(built') \notin DOMAIN built
           /\ DOMAIN built \subseteq DOMAIN built'
           /\ built'[Len(built')] = b
           /\ \A i \in DOMAIN built : built'[i] = built[i]
           /\ 0 \notin DOMAIN built'
           /\ Len(built') # 0
OBVIOUS

LEMMA KindOfBackend ==
    ASSUME built \in Seq(Origin), NEW b \in Backends
    PROVE  built[b].kind \in Kinds
<1>1. built[b] \in Origin
  BY ElementOfSeq DEF Backends
<1>2. QED
  BY <1>1 DEF Origin

LEMMA InitManagerInv == Init => ManagerInv
<1> SUFFICES ASSUME Init PROVE ManagerInv
  OBVIOUS
<1>1. TypeOK
  <2>1. conf \in Configuration
    BY ManagerAssumption DEF Init, Configuration
  <2>2. built \in Seq(Origin)
    BY DEF Init
  <2>3. QED
    BY <2>1, <2>2, ManagerAssumption DEF Init, TypeOK, Backends
<1>2. Counting
  <2>1. \A k \in Kinds : Holders(k) = {}
    BY DEF Init, Holders
  <2>2. QED
    BY <2>1, FS_EmptySet DEF Init, Counting
<1>3. QED
  BY <1>1, <1>2 DEF ManagerInv, Init, SwapIsDrained, HttpHoldsLiveBackend, LiveServesCache,
     IdleHasNone, Live, OneLoadedPerKind

-----------------------------------------------------------------------------
(* Steps that leave every backend where it is. *)


LEMMA QuietStep ==
    ASSUME ManagerInv, TypeOK',
           UNCHANGED <<current, cache, built, loaded, http, inflight>>,
           \A k \in Kinds : Live(k)' <=> Live(k),
           \A k \in Kinds : (state[k] = "reloading")' => inflight[k] = 0
    PROVE  ManagerInv'
<1>1. \A k \in Kinds : Holders(k)' = Holders(k)
  BY DEF Holders
<1>2. Counting' /\ SwapIsDrained'
  BY <1>1 DEF ManagerInv, Counting, SwapIsDrained
<1>3. LiveServesCache'
  BY DEF ManagerInv, LiveServesCache
<1>4. IdleHasNone'
  BY DEF ManagerInv, IdleHasNone
<1>5. HttpHoldsLiveBackend' /\ OneLoadedPerKind'
  BY DEF ManagerInv, HttpHoldsLiveBackend, OneLoadedPerKind
<1>6. QED
  BY <1>2, <1>3, <1>4, <1>5 DEF ManagerInv

\* A request starts or stops using the current backend of a READY manager.
LEMMA AcquireInv ==
    ASSUME ManagerInv, NEW r \in Requests, NEW k \in Kinds, Acquire(r, k)
    PROVE  ManagerInv'
<1> USE DEF Acquire, managerVars, clientVars
<1>1. /\ TypeOK /\ state[k] = "ready" /\ current[k] \in loaded
      /\ built[current[k]].kind = k /\ current[k] # 0 /\ current[k] \in Backends
  <2>1. TypeOK /\ Live(k)
    BY DEF ManagerInv, Live
  <2>2. current[k] \in loaded /\ built[current[k]].kind = k
    BY <2>1 DEF ManagerInv, LiveServesCache
  <2>3. \A i \in Backends : i # 0
    BY <2>1 DEF TypeOK, Backends
  <2>4. QED
    BY <2>1, <2>2, <2>3 DEF TypeOK
<1>2. TypeOK'
  BY <1>1 DEF TypeOK, Backends
<1>3. Counting'
  <2>1. Holders(k)' = Holders(k) \cup {r} /\ r \notin Holders(k)
    BY <1>1 DEF Holders, TypeOK
  <2>2. \A j \in Kinds \ {k} : Holders(j)' = Holders(j)
    BY <1>1 DEF Holders, TypeOK
  <2>3. Cardinality(Holders(k)') = Cardinality(Holders(k)) + 1
    <3>1. Holders(k) \in SUBSET Requests
      BY DEF Holders
    <3>2. QED
      BY <2>1, <3>1, HoldersChange
  <2>4. QED
    BY <1>1, <2>2, <2>3 DEF ManagerInv, Counting, TypeOK
<1>4. SwapIsDrained'
  BY <1>1 DEF ManagerInv, SwapIsDrained, TypeOK
<1>5. HttpHoldsLiveBackend'
  BY <1>1 DEF ManagerInv, HttpHoldsLiveBackend, TypeOK
<1>6. LiveServesCache' /\ IdleHasNone' /\ OneLoadedPerKind'
  BY DEF ManagerInv, LiveServesCache, IdleHasNone, OneLoadedPerKind, Live
<1>7. QED
  BY <1>2, <1>3, <1>4, <1>5, <1>6 DEF ManagerInv

LEMMA ReleaseInv ==
    ASSUME ManagerInv, NEW r \in Requests, NEW k \in Kinds,
           built[http[r]].kind = k, Release(r)
    PROVE  ManagerInv'
<1> USE DEF Release, managerVars, clientVars
<1>1. TypeOK /\ http[r] # 0 /\ http' = [http EXCEPT ![r] = 0]
      /\ inflight' = [inflight EXCEPT ![k] = @ - 1]
  BY DEF ManagerInv
<1>2. /\ Cardinality(Holders(k)') = Cardinality(Holders(k)) - 1
      /\ Cardinality(Holders(k)') \in Nat
      /\ Cardinality(Holders(k)) \in Nat
  <2>1. r \in Holders(k)
    BY <1>1 DEF Holders
  <2>2. Holders(k)' = Holders(k) \ {r}
    BY <1>1 DEF Holders, TypeOK
  <2>3. Holders(k) \in SUBSET Requests /\ Holders(k)' \in SUBSET Requests
    BY DEF Holders
  <2>4. QED
    BY <2>1, <2>2, <2>3, HoldersChange, HoldersFinite
<1>3. \A j \in Kinds \ {k} : Holders(j)' = Holders(j)
  BY <1>1 DEF Holders, TypeOK
<1>4. \A j \in Kinds : inflight[j] = Cardinality(Holders(j))
  BY DEF ManagerInv, Counting
<1>5. inflight'[k] = inflight[k] - 1 /\ \A j \in Kinds \ {k} : inflight'[j] = inflight[j]
  BY <1>1 DEF TypeOK
<1>6. Counting'
  <2> SUFFICES ASSUME NEW j \in Kinds
               PROVE  inflight'[j] = Cardinality(Holders(j)')
    BY DEF Counting
  <2>1. CASE j = k
    BY <2>1, <1>2, <1>4, <1>5
  <2>2. CASE j # k
    BY <2>2, <1>3, <1>4, <1>5
  <2>3. QED
    BY <2>1, <2>2
<1>7. TypeOK'
  <2>1. inflight[k] - 1 \in Nat
    BY <1>2, <1>4
  <2>2. inflight' \in [Kinds -> Nat]
    BY <1>1, <2>1 DEF TypeOK
  <2>3. QED
    BY <1>1, <2>2 DEF TypeOK, Backends
<1>8. SwapIsDrained'
  BY DEF LoopFree, SwapIsDrained
<1>9. HttpHoldsLiveBackend'
  BY <1>1 DEF ManagerInv, HttpHoldsLiveBackend, TypeOK
<1>10. LiveServesCache' /\ IdleHasNone' /\ OneLoadedPerKind'
  BY DEF ManagerInv, LiveServesCache, IdleHasNone, OneLoadedPerKind, Live
<1>11. QED
  BY <1>6, <1>7, <1>8, <1>9, <1>10 DEF ManagerInv

-----------------------------------------------------------------------------
(* Steps that replace the backend of a kind nobody holds. *)

\* Other kinds keep theirs, and so do the requests that hold them.
LEMMA ReplaceStep ==
    ASSUME ManagerInv, TypeOK', NEW k \in Kinds, NEW b \in Origin,
           b.kind = k,
           built' = Append(built, b),
           loaded' = (loaded \ {current[k]}) \cup {Len(built')},
           current' = [current EXCEPT ![k] = Len(built')],
           cache' = [cache EXCEPT ![k] = Len(built')],
           state' = [state EXCEPT ![k] = "ready"],
           inflight[k] = 0,
           UNCHANGED <<http, inflight>>
    PROVE  ManagerInv'
<1> DEFINE n == Len(built')
<1>1. TypeOK
  BY DEF ManagerInv
<1>2. /\ n \in DOMAIN built' /\ n \notin Backends /\ built'[n] = b
      /\ \A i \in Backends : built'[i] = built[i]
      /\ 0 \notin Backends /\ n # 0
  BY <1>1, AppendBackend DEF TypeOK, Backends
<1>3. \A r \in Requests : http[r] # 0 =>
        http[r] \in Backends /\ built'[http[r]] = built[http[r]]
  <2>1. \A r \in Requests : http[r] \in Backends \cup {0}
    BY <1>1 DEF TypeOK
  <2>2. QED
    BY <1>2, <2>1
<1> HIDE DEF n
<1>4. Counting'
  <2>1. \A j \in Kinds : Holders(j)' = Holders(j)
    BY <1>3 DEF Holders
  <2>2. QED
    BY <2>1 DEF ManagerInv, Counting
<1>5. SwapIsDrained'
  BY <1>1 DEF ManagerInv, SwapIsDrained, TypeOK
<1>6. current' = [current EXCEPT ![k] = n] /\ cache' = [cache EXCEPT ![k] = n]
      /\ loaded' = (loaded \ {current[k]}) \cup {n}
  BY DEF n
<1>7. HttpHoldsLiveBackend'
  <2> SUFFICES ASSUME NEW r \in Requests, http[r] # 0
               PROVE  http[r] \in loaded' /\ http[r] = current'[built'[http[r]].kind]
    BY DEF HttpHoldsLiveBackend
  <2>1. built[http[r]].kind # k
    BY DrainedMeansNoHolder
  <2>2. http[r] \in loaded /\ http[r] = current[built[http[r]].kind]
    BY DEF ManagerInv, HttpHoldsLiveBackend
  <2>3. built[http[r]].kind \in Kinds
    BY <1>1, <1>3, KindOfBackend DEF TypeOK
  <2>4. http[r] = current'[built'[http[r]].kind]
    <3>1. built'[http[r]] = built[http[r]]
      BY <1>3
    <3>2. \A j \in Kinds \ {k} : current'[j] = current[j]
      BY <1>1, <1>6 DEF TypeOK
    <3>3. QED
      BY <2>1, <2>2, <2>3, <3>1, <3>2
  <2>5. http[r] # current[k]
    <3>1. CASE current[k] = 0
      BY <3>1
    <3>2. CASE current[k] # 0
      <4>1. Live(k)
        BY <3>2 DEF ManagerInv, IdleHasNone
      <4>2. built[current[k]].kind = k
        BY <4>1 DEF ManagerInv, LiveServesCache
      <4>3. QED
        BY <2>1, <4>2
    <3>3. QED
      BY <3>1, <3>2
  <2>6. QED
    BY <1>6, <2>2, <2>4, <2>5
<1>8. \A j \in Kinds \ {k} : current'[j] = current[j] /\ cache'[j] = cache[j]
                             /\ state'[j] = state[j]
  BY <1>1, <1>6 DEF TypeOK
<1>9. current'[k] = n /\ cache'[k] = n /\ state'[k] = "ready" /\ built'[n].kind = k
  BY <1>1, <1>2, <1>6 DEF TypeOK
<1>10. LiveServesCache'
  <2> SUFFICES ASSUME NEW j \in Kinds, Live(j)'
               PROVE  /\ current'[j] \in loaded' /\ cache'[j] = current'[j]
                      /\ built'[current'[j]].kind = j
    BY DEF LiveServesCache
  <2>1. CASE j = k
    BY <2>1, <1>6, <1>9
  <2>2. CASE j # k
    <3>1. Live(j)
      BY <1>8, <2>2 DEF Live
    <3>2. current[j] \in loaded /\ cache[j] = current[j] /\ built[current[j]].kind = j
      BY <3>1 DEF ManagerInv, LiveServesCache
    <3>3. current[j] # current[k]
      <4>1. current[k] # 0 => built[current[k]].kind = k
        BY DEF ManagerInv, LiveServesCache, IdleHasNone
      <4>2. current[j] # 0
        BY <3>2, <1>1, <1>2 DEF TypeOK
      <4>3. QED
        BY <3>2, <4>1, <4>2, <2>2
    <3>4. built'[current[j]] = built[current[j]]
      BY <3>2, <1>1, <1>2 DEF TypeOK
    <3>5. QED
      BY <1>6, <1>8, <2>2, <3>2, <3>3, <3>4
  <2>3. QED
    BY <2>1, <2>2
<1>11. IdleHasNone'
  BY <1>8, <1>9 DEF ManagerInv, IdleHasNone, Live
<1>12. OneLoadedPerKind'
  <2> SUFFICES ASSUME NEW c \in loaded'
               PROVE  current'[built'[c].kind] = c
    BY DEF OneLoadedPerKind
  <2>1. CASE c = n
    BY <2>1, <1>9
  <2>2. CASE c # n
    <3>1. c \in loaded /\ c # current[k]
      BY <1>6, <2>2
    <3>2. c \in Backends /\ built'[c] = built[c]
      BY <3>1, <1>1, <1>2 DEF TypeOK
    <3>3. current[built[c].kind] = c /\ built[c].kind \in Kinds
      BY <3>1, <3>2, <1>1, KindOfBackend DEF ManagerInv, OneLoadedPerKind, TypeOK
    <3>4. QED
      BY <3>1, <3>2, <3>3, <1>8
  <2>3. QED
    BY <2>1, <2>2
<1>13. QED
  BY <1>4, <1>5, <1>7, <1>10, <1>11, <1>12 DEF ManagerInv

\* A manager that can begin to serve holds no backend and no request does.
LEMMA StartInv ==
    ASSUME ManagerInv, NEW k \in Kinds, Start(k)
    PROVE  ManagerInv'
<1> USE DEF Start, clientVars
<1>1. TypeOK /\ current[k] = 0 /\ 0 \notin loaded
  <2>1. TypeOK /\ ~Live(k)
    BY DEF ManagerInv, Live
  <2>2. 0 \notin Backends
    BY <2>1 DEF TypeOK, Backends
  <2>3. QED
    BY <2>1, <2>2 DEF ManagerInv, IdleHasNone, TypeOK
<1>2. TypeOK'
  <2> DEFINE b == FreshBackend(conf, k)
  <2>1. b \in Origin
    BY <1>1, FreshBackendType DEF TypeOK
  <2>2. CASE built' = Append(built, b) /\ loaded' = loaded \cup {Len(built')}
             /\ current' = [current EXCEPT ![k] = Len(built')]
             /\ cache' = [cache EXCEPT ![k] = Len(built')]
             /\ lastRef' = [lastRef EXCEPT ![k] = InitialRef]
             /\ state' = [state EXCEPT ![k] = "ready"]
    <3>1. built' \in Seq(Origin) /\ Backends \subseteq Backends' /\ Len(built') \in Backends'
      BY <1>1, <2>1, <2>2, AppendBackend DEF TypeOK, Backends
    <3>2. InitialRef \in Refs \cup {NoRef}
      BY ManagerAssumption
    <3> HIDE DEF b
    <3>3. QED
      BY <1>1, <2>2, <3>1, <3>2 DEF TypeOK
  <2>3. CASE state' = [state EXCEPT ![k] = "failed"]
             /\ UNCHANGED <<built, loaded, current, cache, lastRef>>
    BY <1>1, <2>3 DEF TypeOK, Backends
  <2>4. QED
    BY <2>2, <2>3
<1>3. inflight[k] = 0
  <2>1. Holders(k) = {}
    <3> SUFFICES ASSUME NEW r \in Requests, http[r] # 0, built[http[r]].kind = k
                 PROVE  FALSE
      BY DEF Holders
    <3>1. QED
      BY <1>1 DEF ManagerInv, HttpHoldsLiveBackend
  <2>2. QED
    BY <2>1, FS_EmptySet DEF ManagerInv, Counting
<1>4. CASE state'[k] = "ready"
  <2> DEFINE b == FreshBackend(conf, k)
  <2>1. b \in Origin /\ b.kind = k
    BY <1>1, FreshBackendType DEF TypeOK
  <2>2. /\ built' = Append(built, b)
        /\ current' = [current EXCEPT ![k] = Len(built')]
        /\ cache' = [cache EXCEPT ![k] = Len(built')]
        /\ state' = [state EXCEPT ![k] = "ready"]
        /\ loaded' = loaded \cup {Len(built')}
    BY <1>1, <1>4 DEF TypeOK
  <2>3. loaded' = (loaded \ {current[k]}) \cup {Len(built')}
    BY <1>1, <2>2
  <2> HIDE DEF b
  <2>4. QED
    BY <1>2, <1>3, <2>1, <2>2, <2>3, ReplaceStep
<1>5. CASE state'[k] # "ready"
  <2>1. UNCHANGED <<current, cache, built, loaded, http, inflight>>
        /\ state' = [state EXCEPT ![k] = "failed"]
    BY <1>1, <1>5 DEF TypeOK
  <2>2. \A j \in Kinds : (Live(j)' <=> Live(j)) /\ ((state[j] = "reloading")' => inflight[j] = 0)
    BY <1>1, <2>1 DEF Live, TypeOK, ManagerInv, SwapIsDrained
  <2>3. QED
    BY <1>2, <2>1, <2>2, QuietStep
<1>6. QED
  BY <1>4, <1>5

\* The swap that serves again, from whatever configuration it ended up in.
LEMMA ServeInv ==
    ASSUME ManagerInv, NEW k \in Kinds, NEW c \in Configuration,
           state[k] = "reloading", Serve(k, c),
           lastRef' \in [Kinds -> Refs \cup {NoRef}],
           result' \in [Kinds -> {"none", "reloaded", "rolled_back", "failed", "drain_timeout"}],
           UNCHANGED <<serving, target, oldRef, toClose, inflight, http, clientVars>>
    PROVE  ManagerInv'
<1> DEFINE b == FreshBackend(c, k)
<1> USE DEF clientVars
<1>1. b \in Origin /\ b.kind = k
  BY FreshBackendType
<1>2. /\ conf' = c
      /\ built' = Append(built, b)
      /\ loaded' = (loaded \ {current[k]}) \cup {Len(built')}
      /\ current' = [current EXCEPT ![k] = Len(built')]
      /\ cache' = [cache EXCEPT ![k] = Len(built')]
      /\ state' = [state EXCEPT ![k] = "ready"]
  BY DEF Serve
<1> HIDE DEF b
<1>3. TypeOK /\ inflight[k] = 0
  BY DEF ManagerInv, SwapIsDrained
<1>4. TypeOK'
  <2>1. built' \in Seq(Origin) /\ Backends \subseteq Backends' /\ Len(built') \in Backends'
    BY <1>1, <1>2, <1>3, AppendBackend DEF TypeOK, Backends
  <2>2. QED
    BY <1>2, <1>3, <2>1 DEF TypeOK
<1>5. QED
  BY <1>1, <1>2, <1>3, <1>4, ReplaceStep

\* The swap whose rollback failed too.
LEMMA SwapFailsInv ==
    ASSUME ManagerInv, NEW k \in Kinds, SwapFails(k)
    PROVE  ManagerInv'
<1> USE DEF SwapFails, clientVars
<1>1. /\ TypeOK /\ Live(k) /\ inflight[k] = 0
      /\ \A j \in Kinds : built[current[j]].kind = j \/ ~Live(j)
  BY DEF ManagerInv, SwapIsDrained, Live, LiveServesCache
<1>2. conf' \in Configuration
  BY <1>1, ApplyType DEF TypeOK, AfterFailedAttempt
<1>3. TypeOK'
  BY <1>1, <1>2 DEF TypeOK, Backends
<1>4. Counting' /\ SwapIsDrained'
  <2>1. \A j \in Kinds : Holders(j)' = Holders(j)
    BY DEF Holders
  <2>2. QED
    BY <1>1, <2>1 DEF ManagerInv, Counting, SwapIsDrained, TypeOK
<1>5. HttpHoldsLiveBackend'
  <2> SUFFICES ASSUME NEW r \in Requests, http[r] # 0
               PROVE  http[r] \in loaded' /\ http[r] = current'[built[http[r]].kind]
    BY DEF HttpHoldsLiveBackend
  <2>1. built[http[r]].kind # k
    BY <1>1, DrainedMeansNoHolder
  <2>2. http[r] \in loaded /\ http[r] = current[built[http[r]].kind]
    BY DEF ManagerInv, HttpHoldsLiveBackend
  <2>3. http[r] # current[k]
    BY <1>1, <2>1
  <2>4. built[http[r]].kind \in Kinds
    BY <1>1, <2>2, KindOfBackend DEF TypeOK
  <2>5. QED
    BY <1>1, <2>1, <2>2, <2>3, <2>4 DEF TypeOK
<1>6. LiveServesCache'
  <2> SUFFICES ASSUME NEW j \in Kinds, Live(j)'
               PROVE  /\ current'[j] \in loaded' /\ cache'[j] = current'[j]
                      /\ built[current'[j]].kind = j
    BY DEF LiveServesCache
  <2>1. j # k /\ Live(j)
    BY <1>1 DEF Live, TypeOK
  <2>2. current[j] \in loaded /\ cache[j] = current[j] /\ built[current[j]].kind = j
    BY <2>1 DEF ManagerInv, LiveServesCache
  <2>3. QED
    BY <1>1, <2>1, <2>2 DEF TypeOK
<1>7. IdleHasNone'
  BY <1>1 DEF ManagerInv, IdleHasNone, Live, TypeOK
<1>8. OneLoadedPerKind'
  <2> SUFFICES ASSUME NEW c \in loaded, c # current[k]
               PROVE  current'[built[c].kind] = c
    BY DEF OneLoadedPerKind
  <2>1. current[built[c].kind] = c /\ built[c].kind \in Kinds
    BY <1>1, KindOfBackend DEF ManagerInv, OneLoadedPerKind, TypeOK
  <2>2. QED
    BY <1>1, <2>1 DEF TypeOK
<1>9. QED
  BY <1>3, <1>4, <1>5, <1>6, <1>7, <1>8 DEF ManagerInv

-----------------------------------------------------------------------------
LEMMA SwapInv ==
    ASSUME ManagerInv, NEW k \in Kinds, SwapSucceeds(k) \/ SwapRollsBack(k)
    PROVE  ManagerInv'
<1>1. TypeOK /\ conf \in Configuration /\ target[k] \in Refs /\ oldRef[k] \in Refs
  BY DEF ManagerInv, TypeOK
<1>2. CASE SwapSucceeds(k)
  <2>1. PICK c \in ApplyReturns(conf, k, target[k]) : Serve(k, c)
    BY <1>2 DEF SwapSucceeds
  <2>2. c \in Configuration
    BY <1>1, <2>1, ApplyType
  <2>3. lastRef' \in [Kinds -> Refs \cup {NoRef}]
        /\ result' \in [Kinds -> {"none", "reloaded", "rolled_back", "failed", "drain_timeout"}]
    BY <1>1, <1>2 DEF SwapSucceeds, TypeOK
  <2>4. QED
    BY <1>2, <2>1, <2>2, <2>3, ServeInv DEF SwapSucceeds
<1>3. CASE SwapRollsBack(k)
  <2>1. PICK c \in AfterFailedAttempt(k) :
          \E d \in ApplyReturns(c, k, oldRef[k]) : Serve(k, d)
    BY <1>3 DEF SwapRollsBack
  <2>2. PICK d \in ApplyReturns(c, k, oldRef[k]) : Serve(k, d)
    BY <2>1
  <2>3. c \in Configuration
    BY <1>1, <2>1, ApplyType DEF AfterFailedAttempt
  <2>4. d \in Configuration
    BY <1>1, <2>2, <2>3, ApplyType
  <2>5. lastRef' \in [Kinds -> Refs \cup {NoRef}]
        /\ result' \in [Kinds -> {"none", "reloaded", "rolled_back", "failed", "drain_timeout"}]
    BY <1>1, <1>3 DEF SwapRollsBack, TypeOK
  <2>6. QED
    BY <1>3, <2>2, <2>4, <2>5, ServeInv DEF SwapRollsBack
<1>4. QED
  BY <1>2, <1>3

\* The steps of a reload before the swap.
LEMMA BeforeSwapInv ==
    ASSUME ManagerInv, NEW k \in Kinds,
           \/ \E p \in Refs : ReloadBegin(k, p)
           \/ CloseHandle(k) \/ Drained(k) \/ DrainTimeout(k)
    PROVE  ManagerInv'
<1> USE DEF clientVars
<1>1. TypeOK
  BY DEF ManagerInv
<1>2. UNCHANGED <<current, cache, built, loaded, http, inflight>>
  BY DEF ReloadBegin, CloseHandle, Drained, DrainTimeout
<1>3. \E x \in {"ready", "closing", "draining", "reloading"} :
        /\ state' = [state EXCEPT ![k] = x]
        /\ x = "reloading" => inflight[k] = 0
  BY <1>1 DEF ReloadBegin, CloseHandle, Drained, DrainTimeout, AfterClosing, TypeOK
<1>4. TypeOK'
  <2>1. CASE \E p \in Refs : ReloadBegin(k, p)
    BY <2>1, <1>1, <1>2, <1>3 DEF ReloadBegin, Registered, TypeOK, Configuration, Backends
  <2>2. CASE CloseHandle(k)
    <3>1. toClose' \in [Kinds -> SUBSET Sessions]
          /\ sess' \in [Sessions -> {"none", "open", "cancelled"}]
      <4>1. CASE \E s \in toClose[k] :
                   /\ toClose' = [toClose EXCEPT ![k] = @ \ {s}]
                   /\ sess' = [sess EXCEPT ![s] = "cancelled"]
        BY <4>1, <1>1 DEF TypeOK
      <4>2. CASE UNCHANGED <<toClose, sess>>
        BY <4>2, <1>1 DEF TypeOK
      <4>3. QED
        BY <2>2, <4>1, <4>2 DEF CloseHandle
    <3>2. QED
      BY <2>2, <1>1, <1>2, <1>3, <3>1 DEF CloseHandle, TypeOK, Backends
  <2>3. CASE Drained(k) \/ DrainTimeout(k)
    BY <2>3, <1>1, <1>2, <1>3 DEF Drained, DrainTimeout, TypeOK, Backends
  <2>4. QED
    BY <2>1, <2>2, <2>3
<1>5. Live(k)
  BY DEF ReloadBegin, CloseHandle, Drained, DrainTimeout, Live
<1>6. \A j \in Kinds : (Live(j)' <=> Live(j)) /\ ((state[j] = "reloading")' => inflight[j] = 0)
  BY <1>1, <1>3, <1>5 DEF Live, TypeOK, ManagerInv, SwapIsDrained
<1>7. QED
  BY <1>2, <1>4, <1>6, QuietStep

\* The steps that touch no manager.
LEMMA ClientInv ==
    ASSUME ManagerInv,
           OpenForRequests \/ (\E s \in Sessions : Session(s)) \/ UNCHANGED vars
    PROVE  ManagerInv'
<1> USE DEF vars, managerVars, clientVars
<1>1. TypeOK
  BY DEF ManagerInv
<1>2. UNCHANGED <<state, current, cache, built, loaded, http, inflight>>
  BY DEF OpenForRequests, Session, Connect, StartJob, FinishJob, Disconnect
<1>3. TypeOK'
  <2>1. CASE \E s \in Sessions : Connect(s) \/ StartJob(s) \/ FinishJob(s)
    <3>1. PICK s \in Sessions : Connect(s) \/ StartJob(s) \/ FinishJob(s)
      BY <2>1
    <3>2. CASE Connect(s)
      <4>1. bound' \in [Sessions -> Backends \cup {0}]
            /\ sess' \in [Sessions -> {"none", "open", "cancelled"}]
        BY <3>2, <1>1 DEF Connect, TypeOK
      <4>2. QED
        BY <3>2, <4>1, <1>1 DEF Connect, TypeOK, Backends
    <3>3. CASE StartJob(s) \/ FinishJob(s)
      BY ZenonT(60), <3>3, <1>1 DEF StartJob, FinishJob, TypeOK, Backends
    <3>4. QED
      BY <3>1, <3>2, <3>3
  <2>2. CASE \E s \in Sessions : Disconnect(s)
    <3>1. PICK s \in Sessions : Disconnect(s)
      BY <2>2
    <3>2. sess' \in [Sessions -> {"none", "open", "cancelled"}]
          /\ toClose' \in [Kinds -> SUBSET Sessions]
      BY <3>1, <1>1, ManagerAssumption DEF Disconnect, TypeOK
    <3>3. QED
      BY <3>1, <3>2, <1>1 DEF Disconnect, TypeOK, Backends
  <2>3. CASE OpenForRequests \/ UNCHANGED vars
    BY <2>3, <1>1 DEF OpenForRequests, TypeOK, Backends
  <2>4. QED
    BY <2>1, <2>2, <2>3 DEF Session
<1>4. \A j \in Kinds : (Live(j)' <=> Live(j)) /\ ((state[j] = "reloading")' => inflight[j] = 0)
  BY <1>2 DEF Live, ManagerInv, SwapIsDrained
<1>5. QED
  BY <1>2, <1>3, <1>4, QuietStep

LEMMA NextManagerInv == ManagerInv /\ [Next]_vars => ManagerInv'
<1> SUFFICES ASSUME ManagerInv, [Next]_vars PROVE ManagerInv'
  OBVIOUS
<1>1. ASSUME NEW k \in Kinds, Start(k) PROVE ManagerInv'
  BY <1>1, StartInv
<1>2. ASSUME NEW k \in Kinds, Reload(k) PROVE ManagerInv'
  BY <1>2, BeforeSwapInv, SwapInv, SwapFailsInv DEF Reload
<1>3. ASSUME NEW r \in Requests, NEW k \in Kinds, Acquire(r, k) PROVE ManagerInv'
  BY <1>3, AcquireInv
<1>4. ASSUME NEW r \in Requests, Release(r) PROVE ManagerInv'
  <2>1. http[r] \in Backends
    BY <1>4 DEF Release, ManagerInv, TypeOK
  <2>2. built[http[r]].kind \in Kinds
    BY <2>1, KindOfBackend DEF ManagerInv, TypeOK
  <2>3. QED
    BY <1>4, <2>2, ReleaseInv
<1>5. CASE OpenForRequests \/ (\E s \in Sessions : Session(s)) \/ UNCHANGED vars
  BY <1>5, ClientInv
<1>6. QED
  BY <1>1, <1>2, <1>3, <1>4, <1>5 DEF Next

-----------------------------------------------------------------------------
\* Every behaviour satisfies the inductive invariant.
THEOREM Invariance == Spec => []ManagerInv
BY InitManagerInv, NextManagerInv, PTL DEF Spec

\* The managers' state is well formed in every behaviour, counters included.
THEOREM TypeCorrect == Spec => []TypeOK
<1>1. ManagerInv => TypeOK
  BY DEF ManagerInv
<1>2. QED
  BY <1>1, Invariance, PTL

\* A request that came in through acquire() keeps a loaded, current backend
\* whatever reloads do meanwhile.
THEOREM RequestsSafe == Spec => []HttpHoldsLiveBackend
<1>1. ManagerInv => HttpHoldsLiveBackend
  BY DEF ManagerInv
<1>2. QED
  BY <1>1, Invariance, PTL

\* READY managers, the factory's cache and the legacy globals agree.
THEOREM CacheCoherent == Spec => []ReadyServesCache
<1>1. ManagerInv => ReadyServesCache
  BY DEF ManagerInv, LiveServesCache, Live, ReadyServesCache
<1>2. QED
  BY <1>1, Invariance, PTL

\* Reloads never leave two loaded backends of a kind behind.
THEOREM NoLeakedBackend == Spec => []OneLoadedPerKind
<1>1. ManagerInv => OneLoadedPerKind
  BY DEF ManagerInv
<1>2. QED
  BY <1>1, Invariance, PTL

-----------------------------------------------------------------------------
(* Profiles. *)

\* Applying a profile for one kind leaves the environment of the others alone.
LEMMA ApplyIsolated ==
    ASSUME NEW c \in Configuration, NEW k \in Kinds, NEW p \in Refs, NEW j \in Kinds \ {k},
           NEW d \in ApplyReturns(c, k, p) \cup ApplyRaises(c, k, p)
    PROVE  d.env[j] = c.env[j]
<1>1. Reconciled(c, k, p).env[j] = c.env[j]
  BY DEF Configuration, Reconciled
<1>2. ASSUME NEW w \in SUBSET {p}
      PROVE  [c EXCEPT !.env[k] = (@ \ c.applied[k]) \cup w].env[j] = c.env[j]
  BY DEF Configuration
<1>3. QED
  BY <1>1, <1>2 DEF ApplyReturns, ApplyRaises, Torn

\* What the environment holds is what the live backend was configured with,
\* in the middle of a swap as well.
LiveConfigured == \A k \in Kinds : Live(k) => built[current[k]].config = conf.env[k]

\* A swap serves a backend built from c; the other kinds see no change.
LEMMA ServeConfigured ==
    ASSUME ManagerInv, ManagerInv', LiveConfigured, NEW k \in Kinds, NEW c \in Configuration,
           Serve(k, c), \A j \in Kinds \ {k} : c.env[j] = conf.env[j]
    PROVE  LiveConfigured'
<1> DEFINE b == FreshBackend(c, k)
<1>1. /\ built' = Append(built, b) /\ conf' = c
      /\ current' = [current EXCEPT ![k] = Len(built')]
      /\ state' = [state EXCEPT ![k] = "ready"]
  BY DEF Serve
<1>2. b \in Origin /\ b.config = c.env[k]
  BY FreshBackendType DEF FreshBackend
<1> HIDE DEF b
<1>3. TypeOK
  BY DEF ManagerInv
<1>4. built'[Len(built')] = b /\ \A i \in Backends : built'[i] = built[i]
  BY <1>1, <1>2, <1>3, AppendBackend DEF TypeOK, Backends
<1> SUFFICES ASSUME NEW j \in Kinds, Live(j)'
             PROVE  built'[current'[j]].config = c.env[j]
  BY <1>1 DEF LiveConfigured
<1>5. CASE j = k
  BY <1>1, <1>2, <1>3, <1>4, <1>5 DEF TypeOK
<1>6. CASE j # k
  <2>1. Live(j) /\ current'[j] = current[j]
    BY <1>1, <1>3, <1>6 DEF Live, TypeOK
  <2>2. current[j] \in Backends /\ built[current[j]].config = conf.env[j]
    BY <2>1, <1>3 DEF ManagerInv, LiveServesCache, LiveConfigured, TypeOK
  <2>3. QED
    BY <1>4, <1>6, <2>1, <2>2
<1>7. QED
  BY <1>5, <1>6

LEMMA NextConfigured ==
    ASSUME ManagerInv, ManagerInv', LiveConfigured, [Next]_vars
    PROVE  LiveConfigured'
<1> USE DEF vars, managerVars, clientVars
<1>1. TypeOK /\ conf \in Configuration
  BY DEF ManagerInv, TypeOK
<1>2. ASSUME UNCHANGED <<current, built, conf>>, \A j \in Kinds : Live(j)' => Live(j)
      PROVE  LiveConfigured'
  BY <1>2 DEF LiveConfigured
<1>3. ASSUME NEW k \in Kinds, Start(k) PROVE LiveConfigured'
  <2>1. CASE state' = [state EXCEPT ![k] = "failed"] /\ UNCHANGED <<built, current>>
    <3>1. \A j \in Kinds : Live(j)' => Live(j)
      BY <1>1, <2>1 DEF Live, TypeOK
    <3>2. QED
      BY <1>2, <1>3, <2>1, <3>1 DEF Start
  <2>2. CASE Serve(k, conf)
    BY <1>1, <2>2, ServeConfigured
  <2>3. current[k] = 0 /\ 0 \notin loaded
    <3>1. ~Live(k) /\ 0 \notin Backends
      BY <1>1, <1>3 DEF Live, Start, TypeOK, Backends
    <3>2. QED
      BY <1>1, <3>1 DEF ManagerInv, IdleHasNone, TypeOK
  <2>4. QED
    <3>1. loaded \cup {Len(built')} = (loaded \ {current[k]}) \cup {Len(built')}
      BY <2>3
    <3>2. QED
      BY <1>3, <2>1, <2>2, <3>1 DEF Start, Serve
<1>4. ASSUME NEW k \in Kinds, SwapSucceeds(k) PROVE LiveConfigured'
  <2>1. PICK c \in ApplyReturns(conf, k, target[k]) : Serve(k, c)
    BY <1>4 DEF SwapSucceeds
  <2>2. target[k] \in Refs
    BY <1>1 DEF TypeOK
  <2>3. c \in Configuration /\ \A j \in Kinds \ {k} : c.env[j] = conf.env[j]
    BY <1>1, <2>2, ApplyType, ApplyIsolated
  <2>4. QED
    BY <2>1, <2>3, ServeConfigured
<1>5. ASSUME NEW k \in Kinds, NEW c \in AfterFailedAttempt(k),
             NEW d \in ApplyReturns(c, k, oldRef[k]) \cup ApplyRaises(c, k, oldRef[k])
      PROVE  d \in Configuration /\ \A j \in Kinds \ {k} : d.env[j] = conf.env[j]
  <2>1. target[k] \in Refs /\ oldRef[k] \in Refs
    BY <1>1 DEF TypeOK
  <2>2. c \in Configuration /\ \A j \in Kinds \ {k} : c.env[j] = conf.env[j]
    BY <1>1, <2>1, ApplyType, ApplyIsolated DEF AfterFailedAttempt
  <2>3. d \in Configuration /\ \A j \in Kinds \ {k} : d.env[j] = c.env[j]
    BY <2>1, <2>2, ApplyType, ApplyIsolated
  <2>4. QED
    BY <2>2, <2>3
<1>6. ASSUME NEW k \in Kinds, SwapRollsBack(k) PROVE LiveConfigured'
  <2>1. PICK c \in AfterFailedAttempt(k) :
          \E d \in ApplyReturns(c, k, oldRef[k]) : Serve(k, d)
    BY <1>6 DEF SwapRollsBack
  <2>2. PICK d \in ApplyReturns(c, k, oldRef[k]) : Serve(k, d)
    BY <2>1
  <2>3. QED
    BY <1>5, <2>2, ServeConfigured
<1>7. ASSUME NEW k \in Kinds, SwapFails(k) PROVE LiveConfigured'
  <2>1. \A j \in Kinds \ {k} : conf'.env[j] = conf.env[j]
    BY <1>5, <1>7 DEF SwapFails
  <2>2. \A j \in Kinds : Live(j)' => j # k /\ Live(j) /\ current'[j] = current[j]
    BY <1>1, <1>7 DEF SwapFails, Live, TypeOK
  <2>3. QED
    BY <1>7, <2>1, <2>2 DEF SwapFails, LiveConfigured
<1>8. ASSUME NEW k \in Kinds,
             \/ \E p \in Refs : ReloadBegin(k, p)
             \/ CloseHandle(k) \/ Drained(k) \/ DrainTimeout(k)
      PROVE  LiveConfigured'
  <2>1. UNCHANGED <<current, built, conf>> /\ Live(k)
    BY <1>8 DEF ReloadBegin, CloseHandle, Drained, DrainTimeout, Live
  <2>2. \A j \in Kinds \ {k} : state'[j] = state[j]
    BY <1>1, <1>8 DEF ReloadBegin, CloseHandle, Drained, DrainTimeout, TypeOK
  <2>3. \A j \in Kinds : Live(j)' => Live(j)
    BY <2>1, <2>2 DEF Live
  <2>4. QED
    BY <1>2, <2>1, <2>3
<1>9. CASE UNCHANGED <<state, current, built, conf>>
  BY <1>9 DEF LiveConfigured, Live
<1>10. ASSUME \/ OpenForRequests
              \/ \E r \in Requests : Release(r) \/ \E k \in Kinds : Acquire(r, k)
              \/ \E s \in Sessions : Session(s)
              \/ UNCHANGED vars
       PROVE  LiveConfigured'
  BY <1>9, <1>10 DEF OpenForRequests, Release, Acquire, Session, Connect, StartJob, FinishJob,
     Disconnect
<1>11. QED
  BY <1>3, <1>4, <1>6, <1>7, <1>8, <1>10 DEF Next, Reload

\* Reloading one kind never lets the live backend of any kind drift from the
\* environment, not even when a profile tears halfway through.
THEOREM ConfigurationTracksEnvironment == Spec => []NoDrift
<1>1. Init => LiveConfigured
  BY DEF Init, LiveConfigured, Live
<1>2. LiveConfigured => NoDrift
  BY DEF LiveConfigured, NoDrift, Live
<1>3. ManagerInv /\ LiveConfigured /\ [Next]_vars => ManagerInv' /\ LiveConfigured'
  BY NextManagerInv, NextConfigured
<1>4. QED
  BY <1>1, <1>2, <1>3, InitManagerInv, PTL DEF Spec

-----------------------------------------------------------------------------
(* Rollback, for a server started from a profile reference, with both      *)
(* backends, and profiles whose critical keys agree with the operator's.   *)

BackendOf(k, p) == [kind |-> k, spec |-> p, config |-> {p}]

\* Both the environment and its bookkeeping hold exactly p's keys of kind k.
Holds(c, k, p) == c.env[k] = {p} /\ c.applied[k] = {p}

\* Each live backend is the one its last reference builds, and a reload has
\* snapshotted that reference.
Referenced ==
    /\ ~serving => conf.current = Boot
                   /\ \A k \in Kinds : state[k] \in {"init", "ready", "failed"}
    /\ \A k \in Kinds : state[k] = "init" => Holds(conf, k, Boot)
    /\ \A k \in Kinds : Live(k) =>
         /\ lastRef[k] \in Refs
         /\ Holds(conf, k, lastRef[k])
         /\ built[current[k]] = BackendOf(k, lastRef[k])
         /\ state[k] # "ready" => oldRef[k] = lastRef[k]

\* However an attempt at p ended, applying q next leaves exactly q's keys.
LEMMA ApplyHolds ==
    ASSUME Conflicting = {}, NEW c \in Configuration, NEW k \in Kinds, NEW p \in Refs,
           c.env[k] = c.applied[k],
           NEW d \in ApplyReturns(c, k, p) \cup ApplyRaises(c, k, p)
    PROVE  /\ d \in Configuration /\ d.env[k] = d.applied[k]
           /\ d \in ApplyReturns(c, k, p) => Holds(d, k, p) /\ d.current = p
           /\ \A j \in Kinds \ {k} : d.env[j] = c.env[j] /\ d.applied[j] = c.applied[j]
<1>1. /\ Reconciled(c, k, p) \in Configuration
      /\ Holds(Reconciled(c, k, p), k, p) /\ Reconciled(c, k, p).current = p
      /\ \A j \in Kinds \ {k} : Reconciled(c, k, p).env[j] = c.env[j]
                                /\ Reconciled(c, k, p).applied[j] = c.applied[j]
  BY DEF Configuration, Reconciled, Holds
<1>2. ApplyReturns(c, k, p) = {Reconciled(c, k, p)} /\ ApplyRaises(c, k, p) = {c}
  BY DEF ApplyReturns, ApplyRaises
<1>3. QED
  BY <1>1, <1>2 DEF Holds

LEMMA ServeReferenced ==
    ASSUME ManagerInv, ManagerInv', Referenced, serving' = serving,
           NEW k \in Kinds, NEW c \in Configuration, NEW p \in Refs,
           Serve(k, c), c.current = p, Holds(c, k, p),
           lastRef' = [lastRef EXCEPT ![k] = p], UNCHANGED oldRef,
           ~serving => p = Boot,
           \A j \in Kinds \ {k} : c.env[j] = conf.env[j] /\ c.applied[j] = conf.applied[j]
    PROVE  Referenced' /\ built'[current'[k]] = BackendOf(k, p)
<1> DEFINE b == FreshBackend(c, k)
<1>1. /\ built' = Append(built, b) /\ conf' = c
      /\ current' = [current EXCEPT ![k] = Len(built')]
      /\ state' = [state EXCEPT ![k] = "ready"]
  BY DEF Serve
<1>2. b \in Origin /\ b = BackendOf(k, p)
  BY FreshBackendType DEF FreshBackend, BackendOf, Holds
<1> HIDE DEF b
<1>3. TypeOK
  BY DEF ManagerInv
<1>4. built'[Len(built')] = b /\ \A i \in Backends : built'[i] = built[i]
  BY <1>1, <1>2, <1>3, AppendBackend DEF TypeOK, Backends
<1>5. state'[k] = "ready" /\ lastRef'[k] = p /\ current'[k] = Len(built')
  BY <1>1, <1>3 DEF TypeOK
<1>6. \A j \in Kinds \ {k} : /\ state'[j] = state[j] /\ lastRef'[j] = lastRef[j]
                             /\ current'[j] = current[j]
  BY <1>1, <1>3 DEF TypeOK
<1>7. \A j \in Kinds \ {k}, q \in Refs : Holds(conf, j, q) => Holds(c, j, q)
  BY DEF Holds
<1>8. \A j \in Kinds : state'[j] = "init" => Holds(c, j, Boot)
  BY <1>5, <1>6, <1>7, ManagerAssumption DEF Referenced
<1>9. ASSUME NEW j \in Kinds, Live(j)'
      PROVE  /\ lastRef'[j] \in Refs
             /\ Holds(c, j, lastRef'[j])
             /\ built'[current'[j]] = BackendOf(j, lastRef'[j])
             /\ state'[j] # "ready" => oldRef[j] = lastRef'[j]
  <2>1. CASE j = k
    BY <1>2, <1>4, <1>5, <2>1
  <2>2. CASE j # k
    <3>1. Live(j)
      BY <1>6, <1>9, <2>2 DEF Live
    <3>2. /\ lastRef[j] \in Refs /\ Holds(conf, j, lastRef[j])
          /\ built[current[j]] = BackendOf(j, lastRef[j])
          /\ state[j] # "ready" => oldRef[j] = lastRef[j]
      BY <3>1 DEF Referenced
    <3>3. current[j] \in Backends
      BY <3>1, <1>3 DEF ManagerInv, LiveServesCache, TypeOK
    <3>4. QED
      BY <1>4, <1>6, <1>7, <2>2, <3>2, <3>3
  <2>3. QED
    BY <2>1, <2>2
<1>10. ~serving' => c.current = Boot
                    /\ \A j \in Kinds : state'[j] \in {"init", "ready", "failed"}
  BY <1>5, <1>6 DEF Referenced
<1>11. QED
  BY <1>1, <1>2, <1>4, <1>5, <1>8, <1>9, <1>10 DEF Referenced

\* A kind that reloads holds the keys of its last reference, so a rollback
\* builds the backend that the swap took down.
LEMMA RollsBackReferenced ==
    ASSUME Conflicting = {}, ManagerInv, ManagerInv', Referenced,
           NEW k \in Kinds, SwapRollsBack(k)
    PROVE  Referenced' /\ built'[current'[k]] = built[current[k]]
<1>1. /\ TypeOK /\ conf \in Configuration
      /\ target[k] \in Refs /\ oldRef[k] \in Refs
  BY DEF ManagerInv, TypeOK
<1>2. /\ Live(k) /\ state[k] = "reloading" /\ oldRef[k] = lastRef[k] /\ serving
      /\ Holds(conf, k, lastRef[k]) /\ built[current[k]] = BackendOf(k, lastRef[k])
  BY DEF SwapRollsBack, Live, Referenced
<1>3. PICK c \in AfterFailedAttempt(k) :
        \E d \in ApplyReturns(c, k, oldRef[k]) : Serve(k, d)
  BY DEF SwapRollsBack
<1>4. PICK d \in ApplyReturns(c, k, oldRef[k]) : Serve(k, d)
  BY <1>3
<1>5. /\ c \in Configuration /\ c.env[k] = c.applied[k]
      /\ \A j \in Kinds \ {k} : c.env[j] = conf.env[j] /\ c.applied[j] = conf.applied[j]
  <2>1. conf.env[k] = conf.applied[k]
    BY <1>2 DEF Holds
  <2>2. c \in ApplyReturns(conf, k, target[k]) \cup ApplyRaises(conf, k, target[k])
    BY <1>3 DEF AfterFailedAttempt
  <2>3. QED
    BY <1>1, <2>1, <2>2, ApplyHolds
<1>6. /\ d \in Configuration /\ Holds(d, k, oldRef[k]) /\ d.current = oldRef[k]
      /\ \A j \in Kinds \ {k} : d.env[j] = conf.env[j] /\ d.applied[j] = conf.applied[j]
  BY <1>1, <1>4, <1>5, ApplyHolds
<1>7. lastRef' = [lastRef EXCEPT ![k] = oldRef[k]] /\ serving' = serving /\ UNCHANGED oldRef
  BY <1>1, <1>2 DEF SwapRollsBack, TypeOK
<1>8. QED
  BY <1>1, <1>2, <1>4, <1>6, <1>7, ServeReferenced

LEMMA NextReferenced ==
    ASSUME Conflicting = {}, InitialRef = Boot, LazyKinds = {},
           ManagerInv, ManagerInv', Referenced, [Next]_vars
    PROVE  Referenced'
<1> USE DEF vars, managerVars, clientVars
<1>1. TypeOK /\ conf \in Configuration
  BY DEF ManagerInv, TypeOK
<1>2. CASE UNCHANGED <<state, current, lastRef, oldRef, built, conf>> /\ (serving' = serving \/ serving')
  BY <1>2 DEF Referenced, Live
<1>3. ASSUME NEW k \in Kinds, Start(k) PROVE Referenced'
  <2>1. ~serving /\ state[k] = "init" /\ UNCHANGED <<serving, oldRef, conf>>
    BY <1>3 DEF Start
  <2>2. conf.current = Boot /\ Holds(conf, k, Boot)
    BY <2>1 DEF Referenced
  <2>3. CASE state' = [state EXCEPT ![k] = "failed"] /\ UNCHANGED <<built, current, lastRef>>
    <3>1. \A j \in Kinds \ {k} : state'[j] = state[j]
      BY <1>1, <2>3 DEF TypeOK
    <3>2. state'[k] = "failed"
      BY <1>1, <2>3 DEF TypeOK
    <3>3. QED
      BY <2>1, <2>3, <3>1, <3>2 DEF Referenced, Live
  <2>4. CASE Serve(k, conf) /\ lastRef' = [lastRef EXCEPT ![k] = Boot]
    BY <1>1, <2>1, <2>2, <2>4, ServeReferenced, ManagerAssumption
  <2>5. current[k] = 0 /\ 0 \notin loaded
    <3>1. ~Live(k) /\ 0 \notin Backends
      BY <1>1, <2>1 DEF Live, TypeOK, Backends
    <3>2. QED
      BY <1>1, <3>1 DEF ManagerInv, IdleHasNone, TypeOK
  <2>6. loaded \cup {Len(built')} = (loaded \ {current[k]}) \cup {Len(built')}
    BY <2>5
  <2>7. QED
    BY <1>3, <2>3, <2>4, <2>6 DEF Start, Serve
<1>4. ASSUME NEW k \in Kinds, SwapSucceeds(k) PROVE Referenced'
  <2>1. PICK c \in ApplyReturns(conf, k, target[k]) : Serve(k, c)
    BY <1>4 DEF SwapSucceeds
  <2>2. /\ state[k] = "reloading" /\ UNCHANGED <<serving, oldRef>>
        /\ lastRef' = [lastRef EXCEPT ![k] = target[k]]
    BY <1>4 DEF SwapSucceeds
  <2>3. target[k] \in Refs /\ serving /\ conf.env[k] = conf.applied[k]
    BY <1>1, <2>2 DEF TypeOK, Referenced, Live, Holds
  <2>4. /\ c \in Configuration /\ Holds(c, k, target[k]) /\ c.current = target[k]
        /\ \A j \in Kinds \ {k} : c.env[j] = conf.env[j] /\ c.applied[j] = conf.applied[j]
    BY <1>1, <2>1, <2>3, ApplyHolds
  <2>5. QED
    BY <2>1, <2>2, <2>3, <2>4, ServeReferenced
<1>5. ASSUME NEW k \in Kinds, SwapRollsBack(k) PROVE Referenced'
  BY <1>5, RollsBackReferenced
<1>6. ASSUME NEW k \in Kinds, SwapFails(k) PROVE Referenced'
  <2>1. /\ state' = [state EXCEPT ![k] = "failed"] /\ state[k] = "reloading"
        /\ current' = [current EXCEPT ![k] = 0]
        /\ UNCHANGED <<serving, built, lastRef, oldRef>>
    BY <1>6 DEF SwapFails
  <2>2. serving /\ conf.env[k] = conf.applied[k] /\ target[k] \in Refs /\ oldRef[k] \in Refs
    BY <1>1, <2>1 DEF TypeOK, Referenced, Live, Holds
  <2>3. \A j \in Kinds \ {k} : conf'.env[j] = conf.env[j] /\ conf'.applied[j] = conf.applied[j]
    <3>1. PICK c \in AfterFailedAttempt(k) :
            conf' \in ApplyRaises(c, k, oldRef[k]) \cup ApplyReturns(c, k, oldRef[k])
      BY <1>6 DEF SwapFails
    <3>2. /\ c \in Configuration /\ c.env[k] = c.applied[k]
          /\ \A j \in Kinds \ {k} : c.env[j] = conf.env[j] /\ c.applied[j] = conf.applied[j]
      BY <1>1, <2>2, <3>1, ApplyHolds DEF AfterFailedAttempt
    <3>3. QED
      BY <2>2, <3>1, <3>2, ApplyHolds
  <2>4. \A j \in Kinds \ {k} : state'[j] = state[j] /\ current'[j] = current[j]
    BY <1>1, <2>1 DEF TypeOK
  <2>5. state'[k] = "failed"
    BY <1>1, <2>1 DEF TypeOK
  <2>6. \A j \in Kinds \ {k}, q \in Refs : Holds(conf, j, q) => Holds(conf', j, q)
    BY <2>3 DEF Holds
  <2>7. QED
    BY <2>1, <2>2, <2>4, <2>5, <2>6, ManagerAssumption DEF Referenced, Live
<1>7. ASSUME NEW k \in Kinds, NEW p \in Refs, ReloadBegin(k, p) PROVE Referenced'
  <2>1. /\ state[k] = "ready" /\ serving /\ UNCHANGED <<serving, current, lastRef, built, conf>>
        /\ \A j \in Kinds \ {k} : state'[j] = state[j] /\ oldRef'[j] = oldRef[j]
    BY <1>1, <1>7 DEF ReloadBegin, LoopFree, TypeOK
  <2>2. lastRef[k] \in Refs
    BY <2>1 DEF Referenced, Live
  <2>3. oldRef'[k] = lastRef[k] /\ state'[k] \in {"closing", "draining", "reloading"}
    BY <1>1, <1>7, <2>2, ManagerAssumption DEF ReloadBegin, AfterClosing, TypeOK
  <2>4. QED
    BY <2>1, <2>2, <2>3 DEF Referenced, Live
<1>8. ASSUME NEW k \in Kinds, CloseHandle(k) \/ Drained(k) \/ DrainTimeout(k)
      PROVE  Referenced'
  <2>1. /\ state[k] \in {"closing", "draining"} /\ serving
        /\ UNCHANGED <<serving, current, lastRef, oldRef, built, conf>>
    BY <1>8 DEF CloseHandle, Drained, DrainTimeout, LoopFree
  <2>2. \A j \in Kinds \ {k} : state'[j] = state[j]
    BY <1>1, <1>8 DEF CloseHandle, Drained, DrainTimeout, TypeOK
  <2>3. state'[k] \in {"ready", "closing", "draining", "reloading"}
    BY <1>1, <1>8 DEF CloseHandle, Drained, DrainTimeout, AfterClosing, TypeOK
  <2>4. QED
    BY <2>1, <2>2, <2>3 DEF Referenced, Live
<1>9. ASSUME \/ OpenForRequests
             \/ \E r \in Requests : Release(r) \/ \E k \in Kinds : Acquire(r, k)
             \/ \E s \in Sessions : Session(s)
             \/ UNCHANGED vars
      PROVE  Referenced'
  BY <1>2, <1>9 DEF OpenForRequests, Release, Acquire, Session, Connect, StartJob, FinishJob,
     Disconnect
<1>10. QED
  BY <1>3, <1>4, <1>5, <1>6, <1>7, <1>8, <1>9 DEF Next, Reload

\* A rolled-back reload serves the very backend it took down, also when the
\* sibling manager changed the process's current profile in the meantime.
THEOREM RollbackIsExact ==
    ASSUME InitialRef = Boot, Conflicting = {}, LazyKinds = {}
    PROVE  Spec => RollbackRestores
<1>1. Init => Referenced
  BY DEF Init, Referenced, Live, Holds
<1>2. ManagerInv /\ Referenced /\ [Next]_vars => ManagerInv' /\ Referenced'
  BY NextManagerInv, NextReferenced
<1>3. ManagerInv /\ Referenced /\ [Next]_vars =>
        [\A k \in Kinds :
           state[k] = "reloading" /\ result'[k] = "rolled_back" /\ state'[k] = "ready"
              => built'[current'[k]] = built[current[k]]]_vars
  <2> SUFFICES ASSUME ManagerInv, Referenced, Next, NEW k \in Kinds,
                      state[k] = "reloading", result'[k] = "rolled_back", state'[k] = "ready"
               PROVE  built'[current'[k]] = built[current[k]]
    OBVIOUS
  <2>1. SwapRollsBack(k)
    <3>1. TypeOK /\ serving /\ ~LoopFree
      BY DEF ManagerInv, Referenced, LoopFree
    <3>2. ~UNCHANGED state
      OBVIOUS
    <3>3. ~OpenForRequests /\ \A s \in Sessions : ~Session(s)
      BY <3>2 DEF OpenForRequests, Session, Connect, StartJob, FinishJob, Disconnect,
         managerVars
    <3>4. \A r \in Requests : ~Release(r) /\ \A j \in Kinds : ~Acquire(r, j)
      BY <3>1 DEF Release, Acquire
    <3>5. PICK j \in Kinds : SwapSucceeds(j) \/ SwapRollsBack(j) \/ SwapFails(j)
      BY <3>1, <3>3, <3>4 DEF Next, Start, Reload, ReloadBegin, CloseHandle, Drained, DrainTimeout
    <3>6. \E x \in {"ready", "failed"} : state' = [state EXCEPT ![j] = x]
      BY <3>5 DEF SwapSucceeds, SwapRollsBack, SwapFails, Serve
    <3>7. j = k
      BY <3>1, <3>6 DEF TypeOK
    <3>8. ~SwapSucceeds(k) /\ ~SwapFails(k)
      BY <3>1 DEF SwapSucceeds, SwapFails, TypeOK
    <3>9. QED
      BY <3>5, <3>7, <3>8
  <2>2. QED
    BY <2>1, RollsBackReferenced, NextManagerInv
<1>4. QED
  BY <1>1, <1>2, <1>3, InitManagerInv, PTL DEF Spec, RollbackRestores

\* Under the same conditions no backend is ever a mix of two profiles.
THEOREM BackendsAreWhole ==
    ASSUME InitialRef = Boot, Conflicting = {}, LazyKinds = {}
    PROVE  Spec => []BuiltFromOneProfile
<1>1. Init => Referenced
  BY DEF Init, Referenced, Live, Holds
<1>2. ManagerInv /\ Referenced /\ [Next]_vars => ManagerInv' /\ Referenced'
  BY NextManagerInv, NextReferenced
<1>3. ManagerInv /\ Referenced => BuiltFromOneProfile
  <2> SUFFICES ASSUME ManagerInv, Referenced, NEW b \in loaded
               PROVE  built[b].config = {built[b].spec}
    BY DEF BuiltFromOneProfile
  <2> DEFINE k == built[b].kind
  <2>1. b \in Backends /\ b # 0 /\ k \in Kinds
    BY KindOfBackend DEF ManagerInv, TypeOK, Backends
  <2>2. current[k] = b
    BY DEF ManagerInv, OneLoadedPerKind
  <2>3. Live(k)
    BY <2>1, <2>2 DEF ManagerInv, IdleHasNone
  <2>4. built[current[k]] = BackendOf(k, lastRef[k])
    BY <2>1, <2>3 DEF Referenced
  <2>5. QED
    BY <2>2, <2>4 DEF BackendOf
<1>4. QED
  BY <1>1, <1>2, <1>3, InitManagerInv, PTL DEF Spec

=============================================================================
