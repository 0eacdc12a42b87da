------------------------ MODULE SpeechOutput_proofs ------------------------
(***************************************************************************)
(* For sessions with any number of sentences, chunks, flushes and          *)
(* disturbances: the types; that a runtime which serves one request at a   *)
(* time is entered by one thread at a time; and, whatever aborts,          *)
(* deadlines, barge-ins and departures cross the way of a sentence, that   *)
(* what it sends goes out in its own response, in the order of the         *)
(* sentences, and nothing of it after an abort that could reach it.        *)
(***************************************************************************)
EXTENDS SpeechOutput, TLAPS

USE BoundsAssumption

(* A chunk is still to be produced, in the thread's hands, or in the drain's queue. *)
InHand(s) == IF drain[s].worker = "handing" THEN 1 ELSE 0
ChunksCounted ==
    \A s \in Sentences : drain[s].left + drain[s].chunks + InHand(s) <= MaxChunks

TypeInv == TypeOK /\ ChunksCounted

Tasks == Sentences \cup {TtsOut, Dispatcher}
Response == [status : {"open", "completed", "cancelled"},
             said : SUBSET Sentences, pcm : SUBSET Sentences]

LEMMA TasksAre ==
  /\ TtsOut \notin Sentences /\ Dispatcher \notin Sentences /\ TtsOut # Dispatcher
  /\ Sentences \subseteq Int /\ MaxSentences \in Nat
  BY DEF Sentences, TtsOut, Dispatcher

(* A task leaves the queue it may be in. *)
LEMMA WithdrawnShape ==
  ASSUME NEW S, NEW q \in Seq(S), NEW t
  PROVE  Withdrawn(q, t) \in Seq(S)
<1>. DEFINE places == {i \in 1 .. Len(q) : q[i] = t}
            place == CHOOSE i \in places : TRUE
<1>1. CASE places = {}
  BY <1>1 DEF Withdrawn
<1>2. CASE places # {}
  <2>1. place \in 1 .. Len(q) /\ Len(q) \in Nat
    BY <1>2
  <2>. DEFINE r == [i \in 1 .. Len(q) - 1 |-> q[IF i < place THEN i ELSE i + 1]]
  <2>2. Withdrawn(q, t) = r
    BY <1>2 DEF Withdrawn
  <2>3. Len(q) - 1 \in Nat
    BY <2>1
  <2>4. \A i \in 1 .. Len(q) - 1 : q[IF i < place THEN i ELSE i + 1] \in S
    BY <2>1
  <2>5. r \in [1 .. Len(q) - 1 -> S]
    BY <2>4
  <2>. QED
    BY <2>2, <2>3, <2>5
<1>. QED
  BY <1>1, <1>2

(* What each step does to the plain fields. *)
LEMMA BudgetSteps ==
  ASSUME [Next]_vars
  PROVE  UNCHANGED budget \/ \E kind \in Disturbances : Disturb(kind)
  BY ZenonT(60) DEF SynthYields, SynthHandsOver, SynthEnds, SynthHangs, SynthRecovers, Disturbances,
         Next, vars, sideVars, wireVars, ClientText, ClientFlush, DirectSpeak, Abort,
         ResponseCancel, ConversationReset, ResetAborts, SpeechStart, Aborts, KillCurrent,
         TtsOutStep, LoopExits, EndTurn, TurnDoneSent, SessionDoneSent, TakeSentence,
         SentenceTaken, BeginSentence, OutGoes, SentenceOver, SentenceExpires,
         ExpiryReported, DrainStep, GetLease, HeaderOut, StartedOut, TakeChunk, AudioOut,
         TakeEnd, ChunkTimesOut, ErrorOut, SentenceDoneOut, CloseDrain, InRuntime, Leave,
         AsrCloses, AsrFails, HandlerCloses, HandlerReleases, CancelOut

LEMMA StateSteps ==
  ASSUME [Next]_vars
  PROVE  \/ UNCHANGED state
         \/ state' = [state EXCEPT !.flush = TRUE]
         \/ state' = [state EXCEPT !.flush = FALSE]
         \/ state' = [state EXCEPT !.closed = TRUE]
         \/ state' = [state EXCEPT !.current = 0]
         \/ state' = [state EXCEPT !.current = out.s]
         \/ queue # <<>> /\ state' = [state EXCEPT !.current = Head(queue)]
  BY DEF Next, vars, sideVars, wireVars, ClientText, ClientFlush, DirectSpeak, Abort,
         ResponseCancel, ConversationReset, ResetAborts, SpeechStart, Aborts, KillCurrent,
         TtsOutStep, LoopExits, EndTurn, TurnDoneSent, SessionDoneSent, TakeSentence,
         SentenceTaken, BeginSentence, OutGoes, SentenceOver, SentenceExpires,
         ExpiryReported, DrainStep, GetLease, HeaderOut, StartedOut, TakeChunk, AudioOut,
         TakeEnd, ChunkTimesOut, ErrorOut, SentenceDoneOut, CloseDrain, InRuntime, Leave,
         AsrCloses, AsrFails, HandlerCloses, HandlerReleases, CancelOut

LEMMA QueueSteps ==
  ASSUME [Next]_vars
  PROVE  \/ queue' \in {queue, <<>>}
         \/ queue # <<>> /\ queue' = Tail(queue)
         \/ client.given < deployment.sentences /\ queue' = Append(queue, client.given + 1)
  BY DEF AbortCleared, Next, vars, sideVars, wireVars, ClientText, ClientFlush, DirectSpeak, Abort,
         ResponseCancel, ConversationReset, ResetAborts, SpeechStart, Aborts, KillCurrent,
         TtsOutStep, LoopExits, EndTurn, TurnDoneSent, SessionDoneSent, TakeSentence,
         SentenceTaken, BeginSentence, OutGoes, SentenceOver, SentenceExpires,
         ExpiryReported, DrainStep, GetLease, HeaderOut, StartedOut, TakeChunk, AudioOut,
         TakeEnd, ChunkTimesOut, ErrorOut, SentenceDoneOut, CloseDrain, InRuntime, Leave,
         AsrCloses, AsrFails, HandlerCloses, HandlerReleases, CancelOut

LEMMA PlainSteps ==
  ASSUME [Next]_vars, TypeOK
  PROVE  /\ deployment' = deployment
         /\ headerSent' \in BOOLEAN /\ resetting' \in BOOLEAN
         /\ asr' \in {"running", "failed", "over"}
         /\ handler' \in {"running", "closing", "released"}
         /\ lease' \in {lease, 0} \cup Sentences
<1>1. deployment' = deployment
  BY DEF Next, vars, sideVars, wireVars, ClientText, ClientFlush, DirectSpeak, Abort,
         ResponseCancel, ConversationReset, ResetAborts, SpeechStart, Aborts, KillCurrent,
         TtsOutStep, LoopExits, EndTurn, TurnDoneSent, SessionDoneSent, TakeSentence,
         SentenceTaken, BeginSentence, OutGoes, SentenceOver, SentenceExpires,
         ExpiryReported, DrainStep, GetLease, HeaderOut, StartedOut, TakeChunk, AudioOut,
         TakeEnd, ChunkTimesOut, ErrorOut, SentenceDoneOut, CloseDrain, InRuntime, Leave,
         AsrCloses, AsrFails, HandlerCloses, HandlerReleases, CancelOut
<1>2. headerSent' \in BOOLEAN
  BY ZenonT(60) DEF TypeOK, Next, vars, sideVars, wireVars, ClientText, ClientFlush, DirectSpeak, Abort,
         ResponseCancel, ConversationReset, ResetAborts, SpeechStart, Aborts, KillCurrent,
         TtsOutStep, LoopExits, EndTurn, TurnDoneSent, SessionDoneSent, TakeSentence,
         SentenceTaken, BeginSentence, OutGoes, SentenceOver, SentenceExpires,
         ExpiryReported, DrainStep, GetLease, HeaderOut, StartedOut, TakeChunk, AudioOut,
         TakeEnd, ChunkTimesOut, ErrorOut, SentenceDoneOut, CloseDrain, InRuntime, Leave,
         AsrCloses, AsrFails, HandlerCloses, HandlerReleases, CancelOut
<1>3. resetting' \in BOOLEAN
  BY ZenonT(60) DEF TypeOK, Next, vars, sideVars, wireVars, ClientText, ClientFlush, DirectSpeak, Abort,
         ResponseCancel, ConversationReset, ResetAborts, SpeechStart, Aborts, KillCurrent,
         TtsOutStep, LoopExits, EndTurn, TurnDoneSent, SessionDoneSent, TakeSentence,
         SentenceTaken, BeginSentence, OutGoes, SentenceOver, SentenceExpires,
         ExpiryReported, DrainStep, GetLease, HeaderOut, StartedOut, TakeChunk, AudioOut,
         TakeEnd, ChunkTimesOut, ErrorOut, SentenceDoneOut, CloseDrain, InRuntime, Leave,
         AsrCloses, AsrFails, HandlerCloses, HandlerReleases, CancelOut
<1>4. asr' \in {asr, "failed", "over"}
  BY DEF Next, vars, sideVars, wireVars, ClientText, ClientFlush, DirectSpeak, Abort,
         ResponseCancel, ConversationReset, ResetAborts, SpeechStart, Aborts, KillCurrent,
         TtsOutStep, LoopExits, EndTurn, TurnDoneSent, SessionDoneSent, TakeSentence,
         SentenceTaken, BeginSentence, OutGoes, SentenceOver, SentenceExpires,
         ExpiryReported, DrainStep, GetLease, HeaderOut, StartedOut, TakeChunk, AudioOut,
         TakeEnd, ChunkTimesOut, ErrorOut, SentenceDoneOut, CloseDrain, InRuntime, Leave,
         AsrCloses, AsrFails, HandlerCloses, HandlerReleases, CancelOut
<1>6. handler' \in {handler, "closing", "released"}
  BY DEF Next, vars, sideVars, wireVars, ClientText, ClientFlush, DirectSpeak, Abort,
         ResponseCancel, ConversationReset, ResetAborts, SpeechStart, Aborts, KillCurrent,
         TtsOutStep, LoopExits, EndTurn, TurnDoneSent, SessionDoneSent, TakeSentence,
         SentenceTaken, BeginSentence, OutGoes, SentenceOver, SentenceExpires,
         ExpiryReported, DrainStep, GetLease, HeaderOut, StartedOut, TakeChunk, AudioOut,
         TakeEnd, ChunkTimesOut, ErrorOut, SentenceDoneOut, CloseDrain, InRuntime, Leave,
         AsrCloses, AsrFails, HandlerCloses, HandlerReleases, CancelOut
<1>5. lease' \in {lease, 0} \cup Sentences
  BY DEF Next, vars, sideVars, wireVars, ClientText, ClientFlush, DirectSpeak, Abort,
         ResponseCancel, ConversationReset, ResetAborts, SpeechStart, Aborts, KillCurrent,
         TtsOutStep, LoopExits, EndTurn, TurnDoneSent, SessionDoneSent, TakeSentence,
         SentenceTaken, BeginSentence, OutGoes, SentenceOver, SentenceExpires,
         ExpiryReported, DrainStep, GetLease, HeaderOut, StartedOut, TakeChunk, AudioOut,
         TakeEnd, ChunkTimesOut, ErrorOut, SentenceDoneOut, CloseDrain, InRuntime, Leave,
         AsrCloses, AsrFails, HandlerCloses, HandlerReleases, CancelOut
<1>. QED
  BY <1>1, <1>2, <1>3, <1>4, <1>5, <1>6 DEF TypeOK

LEMMA SendsSteps ==
  ASSUME [Next]_vars
  PROVE  \/ UNCHANGED sends
         \/ \E t \in Tasks : SendAs(t)
         \/ sends # <<>> /\ sends' = Tail(sends)
         \/ \E t \in Tasks : sends # <<>> /\ sends' = Append(Tail(sends), t)
         \/ \E t : sends' = Without(t)
         \/ \E t : sends # <<>> /\ sends' = Withdrawn(Tail(sends), t)
         \/ \E t, u : sends' = Withdrawn(Withdrawn(sends, t), u)
  BY ZenonT(60) DEF Sent, AtHead, SendAs, SentThenAs, Without, Tasks, Next, vars, sideVars, wireVars, ClientText, ClientFlush, DirectSpeak, Abort,
         ResponseCancel, ConversationReset, ResetAborts, SpeechStart, Aborts, KillCurrent,
         TtsOutStep, LoopExits, EndTurn, TurnDoneSent, SessionDoneSent, TakeSentence,
         SentenceTaken, BeginSentence, OutGoes, SentenceOver, SentenceExpires,
         ExpiryReported, DrainStep, GetLease, HeaderOut, StartedOut, TakeChunk, AudioOut,
         TakeEnd, ChunkTimesOut, ErrorOut, SentenceDoneOut, CloseDrain, InRuntime, Leave,
         AsrCloses, AsrFails, HandlerCloses, HandlerReleases, CancelOut

LEMMA ClientSteps ==
  ASSUME [Next]_vars
  PROVE  \/ UNCHANGED client
         \/ client.given < deployment.sentences /\ client' = [client EXCEPT !.given = @ + 1]
         \/ /\ client.flushes < deployment.flushes
            /\ client' = [client EXCEPT !.flushes = @ + 1]
         \/ /\ client.given < deployment.sentences /\ client.flushes < deployment.flushes
            /\ client' = [client EXCEPT !.given = @ + 1, !.flushes = @ + 1]
         \/ client' = [client EXCEPT !.closed = TRUE]
  BY DEF Next, vars, sideVars, wireVars, ClientText, ClientFlush, DirectSpeak, Abort,
         ResponseCancel, ConversationReset, ResetAborts, SpeechStart, Aborts, KillCurrent,
         TtsOutStep, LoopExits, EndTurn, TurnDoneSent, SessionDoneSent, TakeSentence,
         SentenceTaken, BeginSentence, OutGoes, SentenceOver, SentenceExpires,
         ExpiryReported, DrainStep, GetLease, HeaderOut, StartedOut, TakeChunk, AudioOut,
         TakeEnd, ChunkTimesOut, ErrorOut, SentenceDoneOut, CloseDrain, InRuntime, Leave,
         AsrCloses, AsrFails, HandlerCloses, HandlerReleases, CancelOut

LEMMA HistorySteps ==
  ASSUME [Next]_vars
  PROVE  \/ UNCHANGED history
         \/ HistoryAborted
         \/ history' = [history EXCEPT !.barged = client.given]
         \/ \E s \in Sentences : history' = [history EXCEPT !.stray = @ \cup {s}]
  BY DEF SayMore, Next, vars, sideVars, wireVars, ClientText, ClientFlush, DirectSpeak, Abort,
         ResponseCancel, ConversationReset, ResetAborts, SpeechStart, Aborts, KillCurrent,
         TtsOutStep, LoopExits, EndTurn, TurnDoneSent, SessionDoneSent, TakeSentence,
         SentenceTaken, BeginSentence, OutGoes, SentenceOver, SentenceExpires,
         ExpiryReported, DrainStep, GetLease, HeaderOut, StartedOut, TakeChunk, AudioOut,
         TakeEnd, ChunkTimesOut, ErrorOut, SentenceDoneOut, CloseDrain, InRuntime, Leave,
         AsrCloses, AsrFails, HandlerCloses, HandlerReleases, CancelOut

LEMMA OutSteps ==
  ASSUME [Next]_vars
  PROVE  \/ UNCHANGED out
         \/ \E pc \in {"loop", "turnDone", "sessionDone", "over"} : OutGoes(pc, 0)
         \/ \E pc \in {"waiting", "erring"} : OutGoes(pc, out.s)
         \/ queue # <<>> /\ \E pc \in {"taken", "waiting"} : OutGoes(pc, Head(queue))
  BY DEF Next, vars, sideVars, wireVars, ClientText, ClientFlush, DirectSpeak, Abort,
         ResponseCancel, ConversationReset, ResetAborts, SpeechStart, Aborts, KillCurrent,
         TtsOutStep, LoopExits, EndTurn, TurnDoneSent, SessionDoneSent, TakeSentence,
         SentenceTaken, BeginSentence, OutGoes, SentenceOver, SentenceExpires,
         ExpiryReported, DrainStep, GetLease, HeaderOut, StartedOut, TakeChunk, AudioOut,
         TakeEnd, ChunkTimesOut, ErrorOut, SentenceDoneOut, CloseDrain, InRuntime, Leave,
         AsrCloses, AsrFails, HandlerCloses, HandlerReleases, CancelOut

LEMMA WireSteps ==
  ASSUME [Next]_vars, TypeOK
  PROVE  \/ UNCHANGED wire /\ (UNCHANGED adapter \/ adapter' = Marked)
         \/ \E s \in Sentences : SayStarted(s)
         \/ \E s \in Sentences : SayMore(s) /\ UNCHANGED adapter
         \/ \E b \in BOOLEAN : SayDone(b)
<1>1. deployment.multi \in BOOLEAN
  BY DEF TypeOK
<1>. QED
  BY ZenonT(60), <1>1 DEF Next, vars, sideVars, wireVars, ClientText, ClientFlush, DirectSpeak, Abort,
         ResponseCancel, ConversationReset, ResetAborts, SpeechStart, Aborts, KillCurrent,
         TtsOutStep, LoopExits, EndTurn, TurnDoneSent, SessionDoneSent, TakeSentence,
         SentenceTaken, BeginSentence, OutGoes, SentenceOver, SentenceExpires,
         ExpiryReported, DrainStep, GetLease, HeaderOut, StartedOut, TakeChunk, AudioOut,
         TakeEnd, ChunkTimesOut, ErrorOut, SentenceDoneOut, CloseDrain, InRuntime, Leave,
         AsrCloses, AsrFails, HandlerCloses, HandlerReleases, CancelOut

(* One drain's record changes; its chunks are still counted. *)
LEMMA OneDrain ==
  ASSUME TypeInv, NEW s \in Sentences, NEW r \in Drain, drain' = [drain EXCEPT ![s] = r],
         r.left + r.chunks + (IF r.worker = "handing" THEN 1 ELSE 0) <= MaxChunks
  PROVE  drain' \in [Sentences -> Drain] /\ ChunksCounted'
<1>1. drain \in [Sentences -> Drain]
  BY DEF TypeInv, TypeOK
<1>2. drain'[s] = r /\ \A t \in Sentences \ {s} : drain'[t] = drain[t]
  BY <1>1
<1>. QED
  BY <1>1, <1>2 DEF TypeInv, ChunksCounted, InHand

(* Only the thread and the drain touch the chunks. *)
LEMMA SameChunks ==
  ASSUME TypeInv, NEW s \in Sentences, NEW r \in Drain, drain' = [drain EXCEPT ![s] = r],
         r.left = drain[s].left, r.chunks = drain[s].chunks,
         r.worker = "handing" => drain[s].worker = "handing"
  PROVE  drain' \in [Sentences -> Drain] /\ ChunksCounted'
<1>1. drain[s] \in Drain
  BY DEF TypeInv, TypeOK
<1>2. drain[s].left \in Int /\ drain[s].chunks \in Int /\ MaxChunks \in Int
  BY <1>1 DEF Drain
<1>3. drain[s].left + drain[s].chunks + InHand(s) <= MaxChunks
  BY DEF TypeInv, ChunksCounted
<1>4. r.left + r.chunks + (IF r.worker = "handing" THEN 1 ELSE 0) <= MaxChunks
  BY <1>2, <1>3 DEF InHand
<1>. QED
  BY <1>4, OneDrain

LEMMA SilencedDrain ==
  ASSUME TypeInv, NEW c, drain' = Killed(c) \/ drain' = Stopped(c)
  PROVE  drain' \in [Sentences -> Drain] /\ ChunksCounted'
<1>0. drain \in [Sentences -> Drain]
  BY DEF TypeInv, TypeOK
<1>1. CASE c \notin Sentences
  <2>1. drain' = drain
    BY <1>0, <1>1 DEF Killed, Stopped
  <2>. QED
    BY <1>0, <2>1 DEF TypeInv, ChunksCounted, InHand
<1>2. CASE c \in Sentences
  <2>1. drain[c] \in Drain
    BY <1>0, <1>2
  <2>2. PICK p \in {drain[c].pc, "closing"} :
           drain' = [drain EXCEPT ![c] = [drain[c] EXCEPT !.stop = TRUE, !.pc = p]]
    BY <1>0, <1>2, <2>1 DEF Killed, Stopped, Drain
  <2>. DEFINE r == [drain[c] EXCEPT !.stop = TRUE, !.pc = p]
  <2>3. /\ r \in Drain /\ r.left = drain[c].left /\ r.chunks = drain[c].chunks
        /\ r.worker = drain[c].worker
    BY <2>1, <2>2 DEF Drain
  <2>. QED
    BY <1>2, <2>2, <2>3, SameChunks
<1>. QED
  BY <1>1, <1>2

LEMMA DrainStepTyped ==
  ASSUME TypeInv, NEW s \in Sentences, DrainStep(s)
  PROVE  drain' \in [Sentences -> Drain] /\ ChunksCounted'
<1>. DEFINE d == drain[s]
<1>1. drain \in [Sentences -> Drain] /\ d \in Drain
  BY DEF TypeInv, TypeOK
<1>2. CASE GetLease(s) \/ HeaderOut(s) \/ AudioOut(s) \/ TakeEnd(s) \/ ErrorOut(s)
           \/ SentenceDoneOut(s) \/ CloseDrain(s)
  <2>1. PICK p \in {"header", "started", "speaking", "error", "ending", "closing", "gone"} :
           drain' = [drain EXCEPT ![s].pc = p]
    BY <1>2 DEF GetLease, HeaderOut, AfterHeader, AudioOut, TakeEnd, ErrorOut, SentenceDoneOut,
                CloseDrain, DrainGoes
  <2>. DEFINE r == [d EXCEPT !.pc = p]
  <2>2. /\ r \in Drain /\ drain' = [drain EXCEPT ![s] = r]
        /\ r.left = d.left /\ r.chunks = d.chunks /\ r.worker = d.worker
    BY <1>1, <2>1 DEF Drain
  <2>. QED
    BY <2>2, SameChunks
<1>3. CASE StartedOut(s)
  <2>1. PICK r \in {[d EXCEPT !.pc = "closing"],
                   [d EXCEPT !.pc = "speaking", !.worker = "running"]} :
           drain' = [drain EXCEPT ![s] = r]
    BY <1>3 DEF StartedOut, DrainGoes
  <2>2. /\ r \in Drain /\ r.left = d.left /\ r.chunks = d.chunks
        /\ r.worker = "handing" => d.worker = "handing"
    BY <1>1, <2>1 DEF Drain
  <2>. QED
    BY <2>1, <2>2, SameChunks
<1>4. CASE ChunkTimesOut(s)
  <2>1. PICK r \in {[d EXCEPT !.pc = "closing"], [d EXCEPT !.stop = TRUE, !.pc = "error"]} :
           drain' = [drain EXCEPT ![s] = r]
    BY <1>4 DEF ChunkTimesOut, DrainGoes
  <2>2. /\ r \in Drain /\ r.left = d.left /\ r.chunks = d.chunks /\ r.worker = d.worker
    BY <1>1, <2>1 DEF Drain
  <2>. QED
    BY <2>1, <2>2, SameChunks
<1>5. CASE TakeChunk(s)
  <2>1. CASE drain' = [drain EXCEPT ![s].pc = "closing"]
    <3>. DEFINE r == [d EXCEPT !.pc = "closing"]
    <3>1. /\ r \in Drain /\ drain' = [drain EXCEPT ![s] = r]
          /\ r.left = d.left /\ r.chunks = d.chunks /\ r.worker = d.worker
      BY <1>1, <2>1 DEF Drain
    <3>. QED
      BY <3>1, SameChunks
  <2>2. CASE drain' = [drain EXCEPT ![s].pc = "audio", ![s].chunks = @ - 1]
    <3>. DEFINE fewer == d.chunks - 1
                r == [d EXCEPT !.pc = "audio", !.chunks = fewer]
    <3>1. d.chunks \in 0 .. MaxChunks /\ d.left \in 0 .. MaxChunks /\ d.chunks > 0
      BY <1>1, <1>5 DEF Drain, TakeChunk
    <3>2. fewer \in 0 .. MaxChunks
      BY <3>1
    <3>3. drain' = [drain EXCEPT ![s] = r]
      BY <1>1, <2>2 DEF Drain
    <3>4. d.left + d.chunks + InHand(s) <= MaxChunks
      BY DEF TypeInv, ChunksCounted
    <3>5. d.left + fewer + InHand(s) <= MaxChunks
      BY <3>1, <3>4 DEF InHand
    <3>. HIDE DEF fewer
    <3>6. r \in Drain /\ r.left = d.left /\ r.chunks = fewer /\ r.worker = d.worker
      BY <1>1, <3>2 DEF Drain
    <3>. HIDE DEF r
    <3>. QED
      BY <3>3, <3>5, <3>6, OneDrain DEF InHand
  <2>. QED
    BY <1>5, <2>1, <2>2 DEF TakeChunk, DrainGoes
<1>. QED
  BY <1>2, <1>3, <1>4, <1>5 DEF DrainStep

LEMMA RuntimeTyped ==
  ASSUME TypeInv, NEW s \in Sentences,
         \/ InRuntime(SynthYields(s)) \/ InRuntime(SynthHandsOver(s))
         \/ InRuntime(SynthEnds(s)) \/ InRuntime(SynthHangs(s))
         \/ InRuntime(SynthRecovers(s))
  PROVE  drain' \in [Sentences -> Drain] /\ ChunksCounted'
<1>. DEFINE d == drain[s]
<1>1. drain \in [Sentences -> Drain] /\ d \in Drain
  BY DEF TypeInv, TypeOK
<1>2. /\ d.left \in 0 .. MaxChunks /\ d.chunks \in 0 .. MaxChunks
      /\ d.left + d.chunks + InHand(s) <= MaxChunks
  BY <1>1 DEF Drain, TypeInv, ChunksCounted
<1>3. CASE \E w \in {"ended", "failed", "stuck", "running"} :
              d.worker # "handing" /\ drain' = [drain EXCEPT ![s].worker = w]
  <2>1. PICK w \in {"ended", "failed", "stuck", "running"} :
           d.worker # "handing" /\ drain' = [drain EXCEPT ![s].worker = w]
    BY <1>3
  <2>. DEFINE r == [d EXCEPT !.worker = w]
  <2>2. /\ r \in Drain /\ drain' = [drain EXCEPT ![s] = r]
        /\ r.left = d.left /\ r.chunks = d.chunks /\ r.worker # "handing"
    BY <1>1, <2>1 DEF Drain
  <2>. QED
    BY <2>2, SameChunks
<1>4. CASE /\ d.worker = "running" /\ d.left > 0
           /\ drain' = [drain EXCEPT ![s].worker = "handing", ![s].left = @ - 1]
  <2>. DEFINE fewer == d.left - 1
              r == [d EXCEPT !.worker = "handing", !.left = fewer]
  <2>1. fewer \in 0 .. MaxChunks /\ fewer + d.chunks + 1 <= MaxChunks
    BY <1>2, <1>4 DEF InHand
  <2>2. drain' = [drain EXCEPT ![s] = r]
    BY <1>1, <1>4 DEF Drain
  <2>. HIDE DEF fewer
  <2>3. r \in Drain /\ r.left = fewer /\ r.chunks = d.chunks /\ r.worker = "handing"
    BY <1>1, <2>1 DEF Drain
  <2>. HIDE DEF r
  <2>. QED
    BY <2>1, <2>2, <2>3, OneDrain
<1>5. CASE /\ d.worker = "handing"
           /\ drain' = [drain EXCEPT ![s].worker = "running", ![s].chunks = @ + 1]
  <2>. DEFINE more == d.chunks + 1
              r == [d EXCEPT !.worker = "running", !.chunks = more]
  <2>1. more \in 0 .. MaxChunks /\ d.left + more <= MaxChunks
    BY <1>2, <1>5 DEF InHand
  <2>2. drain' = [drain EXCEPT ![s] = r]
    BY <1>1, <1>5 DEF Drain
  <2>. HIDE DEF more
  <2>3. r \in Drain /\ r.left = d.left /\ r.chunks = more /\ r.worker = "running"
    BY <1>1, <2>1 DEF Drain
  <2>. HIDE DEF r
  <2>4. r.left + r.chunks + (IF r.worker = "handing" THEN 1 ELSE 0) <= MaxChunks
    BY <1>2, <2>1, <2>3
  <2>. QED
    BY <2>2, <2>3, <2>4, OneDrain
<1>. QED
  BY <1>3, <1>4, <1>5 DEF InRuntime, SynthYields, SynthHandsOver, SynthEnds, SynthHangs,
                          SynthRecovers, WorkerGoes

(* The rest of the drains' steps only stop or begin one. *)
LEMMA DrainsKeepType ==
  ASSUME TypeInv, [Next]_vars
  PROVE  drain' \in [Sentences -> Drain] /\ ChunksCounted'
<1>0. drain \in [Sentences -> Drain]
  BY DEF TypeInv, TypeOK
<1>1. CASE UNCHANGED drain
  BY <1>0, <1>1 DEF TypeInv, ChunksCounted, InHand
<1>2. CASE \E c : drain' = Killed(c) \/ drain' = Stopped(c)
  BY <1>2, SilencedDrain
<1>3. CASE \E s \in Sentences : drain' = [drain EXCEPT ![s].pc = "waits"]
  <2>1. PICK s \in Sentences : drain' = [drain EXCEPT ![s].pc = "waits"]
    BY <1>3
  <2>. DEFINE r == [drain[s] EXCEPT !.pc = "waits"]
  <2>2. /\ r \in Drain /\ drain' = [drain EXCEPT ![s] = r]
        /\ r.left = drain[s].left /\ r.chunks = drain[s].chunks
        /\ r.worker = drain[s].worker
    BY <1>0, <2>1 DEF Drain
  <2>. QED
    BY <2>2, SameChunks
<1>4. CASE \E c \in {out.s} : drain' = [drain EXCEPT ![c].pc = "waits"]
  <2>1. CASE out.s \in Sentences
    BY <1>3, <1>4, <2>1
  <2>2. CASE out.s \notin Sentences
    <3>1. drain' = drain
      BY <1>0, <1>4, <2>2
    <3>. QED
      BY <1>1, <3>1
  <2>. QED
    BY <2>1, <2>2
<1>5. CASE \E s \in Sentences : DrainStep(s)
  BY <1>5, DrainStepTyped
<1>6. CASE \E s \in Sentences :
             \/ InRuntime(SynthYields(s)) \/ InRuntime(SynthHandsOver(s))
             \/ InRuntime(SynthEnds(s)) \/ InRuntime(SynthHangs(s))
             \/ InRuntime(SynthRecovers(s))
  BY <1>6, RuntimeTyped
<1>7. queue # <<>> => Head(queue) \in Sentences
  BY DEF TypeInv, TypeOK
<1>8. CASE TtsOutStep
  BY <1>1, <1>2, <1>3, <1>4, <1>7, <1>8
     DEF TtsOutStep, LoopExits, EndTurn, TurnDoneSent, SessionDoneSent, TakeSentence,
         SentenceTaken, BeginSentence, SentenceOver, SentenceExpires, ExpiryReported
<1>9. CASE Leave \/ HandlerCloses
  BY <1>1, <1>2, <1>9 DEF Leave, HandlerCloses, CancelOut
<1>10. CASE Abort \/ ResponseCancel \/ ResetAborts \/ SpeechStart
  BY <1>1, <1>2, <1>10
     DEF Abort, ResponseCancel, ResetAborts, SpeechStart, Aborts, KillCurrent
<1>. QED
  BY <1>1, <1>5, <1>6, <1>8, <1>9, <1>10
     DEF Next, vars, ClientText, ClientFlush, DirectSpeak, ConversationReset, AsrCloses,
         AsrFails, HandlerReleases

(* The responses on the wire, and the active one among them. *)
WireType ==
    /\ adapter \in [active : Nat, status : {"completed", "cancelled"}]
    /\ adapter.active \in 0 .. Len(wire)
    /\ wire \in Seq(Response)

LEMMA CreatedShape ==
  ASSUME WireType
  PROVE  /\ Created.wire \in Seq(Response)
         /\ Created.active \in 1 .. Len(Created.wire)
         /\ Created.status \in {"completed", "cancelled"}
<1>1. CASE adapter.active # 0
  BY <1>1 DEF WireType, Created
<1>2. CASE adapter.active = 0
  <2>1. [status |-> "open", said |-> {}, pcm |-> {}] \in Response
    BY DEF Response
  <2>. DEFINE fresh == [status |-> "open", said |-> {}, pcm |-> {}]
              longer == Append(wire, fresh)
  <2>2. longer \in Seq(Response) /\ Len(longer) = Len(wire) + 1 /\ Len(wire) \in Nat
    BY <2>1 DEF WireType
  <2>3. /\ Created.wire = longer /\ Created.active = Len(wire) + 1
        /\ Created.status = "completed"
    BY <1>2 DEF Created
  <2>. HIDE DEF longer
  <2>. QED
    BY <2>2, <2>3
<1>. QED
  BY <1>1, <1>2

(* One response of a sequence is replaced. *)
LEMMA OneResponse ==
  ASSUME NEW w \in Seq(Response), NEW r \in 1 .. Len(w), NEW e \in Response
  PROVE  [w EXCEPT ![r] = e] \in Seq(Response) /\ Len([w EXCEPT ![r] = e]) = Len(w)
  OBVIOUS

LEMMA WireKeepsType ==
  ASSUME WireType, [Next]_vars, TypeOK
  PROVE  WireType'
<1>1. CASE UNCHANGED wire /\ (UNCHANGED adapter \/ adapter' = Marked)
  BY <1>1 DEF WireType, Marked
<1>2. ASSUME NEW s \in Sentences, SayStarted(s)
      PROVE  WireType'
  <2>1. CASE client.closed
    BY <1>2, <2>1 DEF SayStarted, wireVars, WireType
  <2>2. CASE ~client.closed
    <3>. DEFINE w == Created.wire  a == Created.active
                e == [w[a] EXCEPT !.said = @ \cup {s}]
    <3>1. w \in Seq(Response) /\ a \in 1 .. Len(w) /\ Created.status \in {"completed", "cancelled"}
      BY CreatedShape
    <3>2. w[a] \in Response
      BY <3>1
    <3>3. e \in Response
      BY <3>2 DEF Response
    <3>4. adapter' = [active |-> a, status |-> Created.status] /\ wire' = [w EXCEPT ![a] = e]
      BY <1>2, <2>2 DEF SayStarted
    <3>. HIDE DEF w, a, e
    <3>5. wire' \in Seq(Response) /\ Len(wire') = Len(w)
      BY <3>1, <3>3, <3>4, OneResponse
    <3>. QED
      BY <3>1, <3>4, <3>5 DEF WireType
  <2>. QED
    BY <2>1, <2>2
<1>3. ASSUME NEW s \in Sentences, SayMore(s), UNCHANGED adapter
      PROVE  WireType'
  <2>1. CASE client.closed \/ adapter.active = 0
    BY <1>3, <2>1 DEF SayMore, WireType
  <2>2. CASE ~client.closed /\ adapter.active # 0
    <3>. DEFINE a == adapter.active
                e == [wire[a] EXCEPT !.pcm = @ \cup {s}]
    <3>1. wire \in Seq(Response) /\ a \in 1 .. Len(wire) /\ wire[a] \in Response
      BY <2>2 DEF WireType
    <3>2. e \in Response
      BY <3>1 DEF Response
    <3>3. wire' = [wire EXCEPT ![a] = e]
      BY <1>3, <2>2 DEF SayMore
    <3>. HIDE DEF a, e
    <3>4. wire' \in Seq(Response) /\ Len(wire') = Len(wire)
      BY <3>1, <3>2, <3>3, OneResponse
    <3>. QED
      BY <1>3, <3>4 DEF WireType
  <2>. QED
    BY <2>1, <2>2
<1>4. ASSUME NEW b \in BOOLEAN, SayDone(b)
      PROVE  WireType'
  <2>1. CASE UNCHANGED wireVars
    BY <2>1 DEF wireVars, WireType
  <2>2. CASE ~UNCHANGED wireVars
    <3>. DEFINE w == Created.wire  a == Created.active
                e == [w[a] EXCEPT !.status = Created.status]
    <3>1. w \in Seq(Response) /\ a \in 1 .. Len(w) /\ Created.status \in {"completed", "cancelled"}
      BY CreatedShape
    <3>2. w[a] \in Response
      BY <3>1
    <3>3. e \in Response
      BY <3>1, <3>2 DEF Response
    <3>4. adapter' = [active |-> 0, status |-> "completed"] /\ wire' = [w EXCEPT ![a] = e]
      BY <1>4, <2>2 DEF SayDone
    <3>. HIDE DEF w, a, e
    <3>5. wire' \in Seq(Response) /\ Len(wire') \in Nat
      BY <3>1, <3>3, <3>4, OneResponse
    <3>. QED
      BY <3>4, <3>5 DEF WireType
  <2>. QED
    BY <2>1, <2>2
<1>. QED
  BY <1>1, <1>2, <1>3, <1>4, WireSteps

LEMMA InitTyped == Init => TypeInv
<1>. SUFFICES ASSUME Init PROVE TypeInv
  OBVIOUS
<1>1. NoDrain \in Drain
  BY DEF NoDrain, Drain
<1>2. drain \in [Sentences -> Drain] /\ ChunksCounted
  BY <1>1 DEF Init, ChunksCounted, InHand, NoDrain
<1>3. queue \in Seq(Sentences) /\ sends \in Seq(Tasks) /\ WireType
  BY DEF Init, WireType
<1>4. budget \in [Disturbances -> 0 .. MaxDisturb]
  BY DEF Init
<1>5. /\ client \in [given : 0 .. MaxSentences, flushes : 0 .. MaxFlushes, closed : BOOLEAN]
      /\ state \in [flush : BOOLEAN, closed : BOOLEAN, current : 0 .. MaxSentences]
      /\ lease \in 0 .. MaxSentences
  BY DEF Init
<1>6. /\ out \in [pc : {"loop", "taken", "waiting", "erring", "turnDone", "sessionDone", "over"},
                 s : 0 .. MaxSentences]
      /\ history \in [aborted : 0 .. MaxSentences, slipped : 0 .. MaxSentences,
                      barged : 0 .. MaxSentences, stray : SUBSET Sentences]
  BY DEF Init
<1>7. /\ deployment \in Deployments /\ resetting \in BOOLEAN /\ headerSent \in BOOLEAN
      /\ asr \in {"running", "failed", "over"}
      /\ handler \in {"running", "closing", "released"}
  BY DEF Init
<1>. QED
  BY <1>2, <1>3, <1>4, <1>5, <1>6, <1>7 DEF TypeInv, TypeOK, Tasks, WireType, Response

LEMMA TypeKeeps ==
  ASSUME TypeInv, [Next]_vars
  PROVE  TypeInv'
<1>. TypeOK
  BY DEF TypeInv
<1>1. drain' \in [Sentences -> Drain] /\ ChunksCounted'
  BY DrainsKeepType
<1>2. WireType'
  BY WireKeepsType DEF TypeOK, WireType, Response
<1>3. /\ deployment' \in Deployments
      /\ headerSent' \in BOOLEAN /\ resetting' \in BOOLEAN
      /\ asr' \in {"running", "failed", "over"}
      /\ handler' \in {"running", "closing", "released"}
      /\ lease' \in 0 .. MaxSentences
  BY SMTT(30), PlainSteps DEF TypeOK, Sentences
<1>4. budget' \in [Disturbances -> 0 .. MaxDisturb]
  <2>1. ASSUME NEW kind \in Disturbances, Disturb(kind)
        PROVE  budget' \in [Disturbances -> 0 .. MaxDisturb]
    <3>1. budget[kind] \in 0 .. MaxDisturb /\ budget[kind] > 0
      BY <2>1 DEF TypeOK, Disturb
    <3>2. budget[kind] - 1 \in 0 .. MaxDisturb
      BY <3>1
    <3>. QED
      BY <2>1, <3>2 DEF TypeOK, Disturb
  <2>. QED
    BY <2>1, BudgetSteps DEF TypeOK
<1>5. client' \in [given : 0 .. MaxSentences, flushes : 0 .. MaxFlushes, closed : BOOLEAN]
  <2>. DEFINE more == client.given + 1
              again == client.flushes + 1
  <2>1. /\ client.given \in 0 .. MaxSentences /\ client.flushes \in 0 .. MaxFlushes
        /\ deployment.sentences \in 0 .. MaxSentences /\ deployment.flushes \in 0 .. MaxFlushes
    BY DEF TypeOK
  <2>2. /\ client.given < deployment.sentences => more \in 0 .. MaxSentences
        /\ client.flushes < deployment.flushes => again \in 0 .. MaxFlushes
    BY <2>1
  <2>3. \/ UNCHANGED client
        \/ client.given < deployment.sentences /\ client' = [client EXCEPT !.given = more]
        \/ client.flushes < deployment.flushes /\ client' = [client EXCEPT !.flushes = again]
        \/ /\ client.given < deployment.sentences /\ client.flushes < deployment.flushes
           /\ client' = [client EXCEPT !.given = more, !.flushes = again]
        \/ client' = [client EXCEPT !.closed = TRUE]
    BY ClientSteps DEF TypeOK
  <2>. HIDE DEF more, again
  <2>. QED
    BY <2>2, <2>3 DEF TypeOK
<1>6. queue' \in Seq(Sentences)
  <2>1. client.given < deployment.sentences => client.given + 1 \in Sentences
    BY SMTT(30) DEF TypeOK, Sentences
  <2>2. queue \in Seq(Sentences)
    BY DEF TypeOK
  <2>3. /\ queue # <<>> => Tail(queue) \in Seq(Sentences)
        /\ client.given < deployment.sentences
              => Append(queue, client.given + 1) \in Seq(Sentences)
    BY <2>1, <2>2
  <2>4. CASE queue' \in {queue, <<>>}
    <3>1. queue' = queue \/ queue' = <<>>
      BY <2>4
    <3>2. CASE queue' = <<>>
      BY <3>2
    <3>. QED
      BY <2>2, <3>1, <3>2
  <2>5. CASE queue # <<>> /\ queue' = Tail(queue)
    BY <2>3, <2>5
  <2>6. CASE /\ client.given < deployment.sentences
             /\ queue' = Append(queue, client.given + 1)
    BY <2>3, <2>6
  <2>. QED
    BY <2>4, <2>5, <2>6, QueueSteps
<1>7. queue # <<>> => Head(queue) \in 0 .. MaxSentences
  BY SMTT(30) DEF TypeOK, Sentences
<1>8. state' \in [flush : BOOLEAN, closed : BOOLEAN, current : 0 .. MaxSentences]
  <2>1. /\ state \in [flush : BOOLEAN, closed : BOOLEAN, current : 0 .. MaxSentences]
        /\ out.s \in 0 .. MaxSentences /\ MaxSentences \in Nat
    BY DEF TypeOK
  <2>2. ASSUME NEW s \in 0 .. MaxSentences, state' = [state EXCEPT !.current = s]
        PROVE  state' \in [flush : BOOLEAN, closed : BOOLEAN, current : 0 .. MaxSentences]
    BY <2>1, <2>2
  <2>3. CASE \/ state' = [state EXCEPT !.current = 0]
             \/ state' = [state EXCEPT !.current = out.s]
             \/ queue # <<>> /\ state' = [state EXCEPT !.current = Head(queue)]
    BY <1>7, <2>1, <2>2, <2>3
  <2>4. CASE \/ UNCHANGED state
             \/ state' = [state EXCEPT !.flush = TRUE]
             \/ state' = [state EXCEPT !.flush = FALSE]
             \/ state' = [state EXCEPT !.closed = TRUE]
    BY <2>1, <2>4
  <2>. QED
    BY <2>3, <2>4, StateSteps
<1>9. out' \in [pc : {"loop", "taken", "waiting", "erring", "turnDone", "sessionDone", "over"},
                s : 0 .. MaxSentences]
  BY <1>7, OutSteps DEF TypeOK, OutGoes
<1>10. sends' \in Seq(Tasks)
  <2>1. sends \in Seq(Tasks)
    BY DEF TypeOK, Tasks
  <2>2. sends # <<>> => Tail(sends) \in Seq(Tasks)
    BY <2>1
  <2>3. \A t, u : Withdrawn(sends, t) \in Seq(Tasks)
                  /\ Withdrawn(Withdrawn(sends, t), u) \in Seq(Tasks)
    BY <2>1, WithdrawnShape
  <2>4. sends # <<>> => \A t : Withdrawn(Tail(sends), t) \in Seq(Tasks)
    BY <2>2, WithdrawnShape
  <2>5. \A t \in Tasks : Append(sends, t) \in Seq(Tasks)
                        /\ (sends # <<>> => Append(Tail(sends), t) \in Seq(Tasks))
    BY <2>1, <2>2
  <2>. QED
    BY <2>1, <2>2, <2>3, <2>4, <2>5, SendsSteps DEF SendAs, Without
<1>11. history' \in [aborted : 0 .. MaxSentences, slipped : 0 .. MaxSentences,
                     barged : 0 .. MaxSentences, stray : SUBSET Sentences]
  <2>1. /\ history \in [aborted : 0 .. MaxSentences, slipped : 0 .. MaxSentences,
                        barged : 0 .. MaxSentences, stray : SUBSET Sentences]
        /\ client.given \in 0 .. MaxSentences /\ OutOfReach \in 0 .. MaxSentences
    BY DEF TypeOK, OutOfReach
  <2>2. ASSUME NEW s \in Sentences, history' = [history EXCEPT !.stray = @ \cup {s}]
        PROVE  history' \in [aborted : 0 .. MaxSentences, slipped : 0 .. MaxSentences,
                            barged : 0 .. MaxSentences, stray : SUBSET Sentences]
    <3>. DEFINE more == history.stray \cup {s}
    <3>1. more \in SUBSET Sentences /\ history' = [history EXCEPT !.stray = more]
      BY <2>1, <2>2
    <3>. HIDE DEF more
    <3>. QED
      BY <2>1, <3>1
  <2>. QED
    BY <2>1, <2>2, HistorySteps DEF HistoryAborted
<1>. QED
  BY <1>1, <1>2, <1>3, <1>4, <1>5, <1>6, <1>8, <1>9, <1>10, <1>11
     DEF TypeInv, TypeOK, Tasks, WireType, Response

(* Whatever crosses what in a session, its tasks, drains and responses stay   *)
(* in their states: the adapter's active response is one on the wire          *)
(* (core/v2v.py), and a drain's queue holds no chunk its thread did not make. *)
THEOREM TypeCorrect == Spec => []TypeOK
<1>1. TypeInv /\ [Next]_vars => TypeInv'
  BY TypeKeeps
<1>2. TypeInv => TypeOK
  BY DEF TypeInv
<1>. QED
  BY <1>1, <1>2, InitTyped, PTL DEF Spec

-----------------------------------------------------------------------------
(* A drain between its lease and its finally. *)
Working == {"header", "started", "speaking", "audio", "error", "ending"}

(* What a drain's record is; how many chunks there are does not matter here. *)
DrainRecord == [pc : {"none", "waits", "header", "started", "speaking", "audio", "error",
                      "ending", "closing", "gone"},
                stop : BOOLEAN,
                worker : {"none", "running", "handing", "stuck", "ended", "failed"},
                left : Int, chunks : Int]

DrainsTyped == drain \in [Sentences -> DrainRecord]

(* Who works, or has its thread in the runtime, has the lease. *)
LeaseHeld ==
    deployment.serial =>
       \A s \in Sentences :
          /\ drain[s].pc \in Working => lease = s
          /\ drain[s].worker \in InRuntimeStates =>
                /\ lease = s
                /\ drain[s].pc \in {"speaking", "audio", "error", "ending", "closing"}

(* A sentence still to be begun has no drain; none is begun twice. *)
Fresh ==
    /\ client.given \in 0 .. MaxSentences
    /\ queue \in Seq(Sentences)
    /\ \A i \in 1 .. Len(queue) :
          queue[i] <= client.given /\ drain[queue[i]].pc = "none"
    /\ \A i, j \in 1 .. Len(queue) : i < j => queue[i] < queue[j]
    /\ \A s \in Sentences : s > client.given => drain[s].pc = "none"
    /\ \A s \in Sentences : drain[s].pc = "none" => drain[s].worker = "none"
    /\ out.pc = "taken" =>
          /\ out.s \in Sentences /\ out.s <= client.given
          /\ drain[out.s].pc = "none"
          /\ \A i \in 1 .. Len(queue) : out.s < queue[i]

IInv == DrainsTyped /\ LeaseHeld /\ Fresh

-----------------------------------------------------------------------------
LEMMA InitIInv == Init => IInv
<1>. SUFFICES ASSUME Init PROVE IInv
  OBVIOUS
<1>1. DrainsTyped
  BY DEF Init, DrainsTyped, NoDrain, DrainRecord, Sentences
<1>2. LeaseHeld
  BY DEF Init, LeaseHeld, NoDrain, Working, InRuntimeStates, Sentences
<1>3. Fresh
  BY DEF Init, Fresh, NoDrain, Sentences
<1>. QED
  BY <1>1, <1>2, <1>3 DEF IInv

(* Stopping or killing a drain never puts it to work. *)
LEMMA KilledKeeps ==
  ASSUME IInv, NEW c, drain' = Killed(c) \/ drain' = Stopped(c) \/ drain' = drain,
         UNCHANGED <<deployment, lease>>
  PROVE  /\ DrainsTyped' /\ LeaseHeld'
         /\ \A s \in Sentences : /\ drain[s].pc = "none" <=> drain'[s].pc = "none"
                                 /\ drain'[s].worker = drain[s].worker
<1>1. CASE c \notin Sentences \/ drain' = drain
  <2>1. drain' = drain
    BY <1>1 DEF IInv, DrainsTyped, Killed, Stopped
  <2>. QED
    BY <2>1 DEF IInv, DrainsTyped, LeaseHeld
<1>2. CASE c \in Sentences /\ drain' # drain
  <2>. DEFINE pc == IF drain' = Killed(c) /\ drain[c].pc \in Unfinished
                    THEN "closing" ELSE drain[c].pc
  <2>1. drain' = [drain EXCEPT ![c] = [drain[c] EXCEPT !.stop = TRUE, !.pc = pc]]
    BY <1>2 DEF IInv, DrainsTyped, Killed, Stopped, DrainRecord
  <2>2. pc \in {"none", "waits", "header", "started", "speaking", "audio", "error",
                "ending", "closing", "gone"}
    BY <1>2 DEF IInv, DrainsTyped, DrainRecord
  <2>3. /\ DrainsTyped'
        /\ drain'[c].pc = pc /\ drain'[c].worker = drain[c].worker
        /\ \A s \in Sentences \ {c} : drain'[s] = drain[s]
    <3>. DEFINE r == [drain[c] EXCEPT !.stop = TRUE, !.pc = pc]
    <3>1. drain[c] \in DrainRecord
      BY <1>2 DEF IInv, DrainsTyped
    <3>2. r \in DrainRecord /\ r.pc = pc /\ r.worker = drain[c].worker
      BY <2>2, <3>1 DEF DrainRecord
    <3>. HIDE DEF r, pc
    <3>3. drain' = [drain EXCEPT ![c] = r]
      BY <2>1 DEF r
    <3>. QED
      BY <1>2, <3>2, <3>3 DEF IInv, DrainsTyped
  <2>4. pc = drain[c].pc \/ (drain[c].pc \in Unfinished /\ pc = "closing")
    OBVIOUS
  <2>. QED
    BY <1>2, <2>3, <2>4 DEF IInv, LeaseHeld, Working, InRuntimeStates, Unfinished
<1>. QED
  BY <1>1, <1>2

(* One drain moves; it works, or its thread runs, only under the lease. *)
LEMMA MoveKeeps ==
  ASSUME IInv, NEW s \in Sentences, NEW r \in DrainRecord,
         drain' = [drain EXCEPT ![s] = r],
         UNCHANGED <<deployment, lease>>,
         deployment.serial =>
            /\ r.pc \in Working => lease = s
            /\ r.worker \in InRuntimeStates =>
                  /\ lease = s
                  /\ r.pc \in {"speaking", "audio", "error", "ending", "closing"}
  PROVE  DrainsTyped' /\ LeaseHeld'
  BY DEF IInv, DrainsTyped, LeaseHeld

(* What is still to be begun stays so, or is dropped. *)
LEMMA FreshKeeps ==
  ASSUME Fresh,
         client'.given = client.given,
         queue' = queue \/ queue' = <<>>,
         out' = out \/ out'.pc # "taken",
         \A s \in Sentences : drain'[s].pc = "none" <=> drain[s].pc = "none",
         \A s \in Sentences : drain'[s].pc = "none" => drain'[s].worker = "none"
  PROVE  Fresh'
<1>1. CASE queue' = queue
  <2>1. \A i \in 1 .. Len(queue) : queue[i] \in Sentences
    BY DEF Fresh
  <2>2. \A i \in 1 .. Len(queue') :
           queue'[i] <= client'.given /\ drain'[queue'[i]].pc = "none"
    BY <1>1, <2>1 DEF Fresh
  <2>3. \A t \in Sentences : t > client'.given => drain'[t].pc = "none"
    BY DEF Fresh, Sentences
  <2>4. out'.pc = "taken" =>
           /\ out'.s \in Sentences /\ out'.s <= client'.given
           /\ drain'[out'.s].pc = "none"
           /\ \A i \in 1 .. Len(queue') : out'.s < queue'[i]
    BY <1>1 DEF Fresh
  <2>. QED
    BY <1>1, <2>2, <2>3, <2>4 DEF Fresh
<1>2. CASE queue' = <<>>
  <2>1. queue' \in Seq(Sentences) /\ Len(queue') = 0
    BY <1>2
  <2>2. \A t \in Sentences : t > client'.given => drain'[t].pc = "none"
    BY DEF Fresh, Sentences
  <2>3. out'.pc = "taken" =>
           /\ out'.s \in Sentences /\ out'.s <= client'.given
           /\ drain'[out'.s].pc = "none"
    BY DEF Fresh
  <2>. QED
    BY <2>1, <2>2, <2>3 DEF Fresh
<1>. QED
  BY <1>1, <1>2

(* A drain that was begun and goes on, as field values. *)
LEMMA Moves ==
  ASSUME IInv, NEW s \in Sentences, drain[s].pc # "none", NEW r \in DrainRecord, r.pc # "none",
         drain' = [drain EXCEPT ![s] = r],
         UNCHANGED <<deployment, lease, client, queue, out>>,
         deployment.serial =>
            /\ r.pc \in Working => lease = s
            /\ r.worker \in InRuntimeStates =>
                  /\ lease = s
                  /\ r.pc \in {"speaking", "audio", "error", "ending", "closing"}
  PROVE  IInv'
<1>1. DrainsTyped' /\ LeaseHeld'
  BY MoveKeeps
<1>2. \A t \in Sentences : /\ drain'[t].pc = "none" <=> drain[t].pc = "none"
                           /\ drain'[t].pc = "none" => drain'[t].worker = "none"
  BY DEF IInv, DrainsTyped, Fresh
<1>3. Fresh'
  BY <1>2, FreshKeeps DEF IInv
<1>. QED
  BY <1>1, <1>3 DEF IInv

LEMMA DrainStepKeeps ==
  ASSUME IInv, NEW s \in Sentences, DrainStep(s)
  PROVE  IInv'
<1>. DEFINE d == drain[s]
<1>. d \in DrainRecord
  BY DEF IInv, DrainsTyped
<1>1. /\ deployment.serial /\ d.pc \in Working => lease = s
      /\ deployment.serial /\ d.worker \in InRuntimeStates =>
            /\ lease = s
            /\ d.pc \in {"speaking", "audio", "error", "ending", "closing"}
  BY DEF IInv, LeaseHeld
<1>2. CASE HeaderOut(s)
  <2>1. PICK p \in {"closing", "started"} : drain' = [drain EXCEPT ![s].pc = p]
    BY <1>2 DEF HeaderOut, AfterHeader, DrainGoes
  <2>. DEFINE r == [d EXCEPT !.pc = p]
  <2>2. /\ r \in DrainRecord /\ drain' = [drain EXCEPT ![s] = r]
        /\ r.pc = p /\ r.worker = d.worker
    BY <1>2, <2>1 DEF DrainRecord
  <2>. QED
    BY <1>1, <1>2, <2>2, Moves DEF HeaderOut, Working, InRuntimeStates, sideVars
<1>3. CASE StartedOut(s)
  <2>1. PICK r \in {[d EXCEPT !.pc = "closing"], [d EXCEPT !.pc = "speaking", !.worker = "running"]} :
           drain' = [drain EXCEPT ![s] = r]
    BY <1>3 DEF StartedOut, DrainGoes
  <2>2. /\ r \in DrainRecord
        /\ \/ r.pc = "closing" /\ r.worker = d.worker
           \/ r.pc = "speaking" /\ r.worker = "running"
    BY <2>1 DEF DrainRecord
  <2>. QED
    BY <1>1, <1>3, <2>1, <2>2, Moves DEF StartedOut, Working, InRuntimeStates, sideVars
<1>4. CASE TakeChunk(s)
  <2>. DEFINE closing == [d EXCEPT !.pc = "closing"]
              taking == [d EXCEPT !.pc = "audio", !.chunks = d.chunks - 1]
  <2>1. PICK r \in {closing, taking} : drain' = [drain EXCEPT ![s] = r]
    BY <1>4 DEF TakeChunk, DrainGoes, IInv, DrainsTyped, DrainRecord
  <2>2. r \in DrainRecord /\ r.pc \in {"closing", "audio"} /\ r.worker = d.worker
    <3>1. closing \in DrainRecord /\ closing.pc = "closing" /\ closing.worker = d.worker
      BY DEF DrainRecord
    <3>2. d.chunks - 1 \in Int
      BY DEF DrainRecord
    <3>3. taking \in DrainRecord /\ taking.pc = "audio" /\ taking.worker = d.worker
      BY <3>2 DEF DrainRecord
    <3>. HIDE DEF closing, taking
    <3>. QED
      BY <2>1, <3>1, <3>3
  <2>. QED
    BY <1>1, <1>4, <2>1, <2>2, Moves DEF TakeChunk, Working, InRuntimeStates, sideVars
<1>5. CASE AudioOut(s)
  <2>1. PICK p \in {"speaking"} : drain' = [drain EXCEPT ![s].pc = p]
    BY <1>5 DEF AudioOut, DrainGoes
  <2>. DEFINE r == [d EXCEPT !.pc = p]
  <2>2. /\ r \in DrainRecord /\ drain' = [drain EXCEPT ![s] = r]
        /\ r.pc = p /\ r.worker = d.worker
    BY <1>5, <2>1 DEF DrainRecord
  <2>. QED
    BY <1>1, <1>5, <2>2, Moves DEF AudioOut, Working, InRuntimeStates, sideVars
<1>6. CASE TakeEnd(s)
  <2>1. PICK p \in {"closing", "ending", "error"} : drain' = [drain EXCEPT ![s].pc = p]
    BY <1>6 DEF TakeEnd, DrainGoes
  <2>. DEFINE r == [d EXCEPT !.pc = p]
  <2>2. /\ r \in DrainRecord /\ drain' = [drain EXCEPT ![s] = r]
        /\ r.pc = p /\ r.worker = d.worker
    BY <1>6, <2>1 DEF DrainRecord
  <2>. QED
    BY <1>1, <1>6, <2>2, Moves DEF TakeEnd, Working, InRuntimeStates, sideVars
<1>7. CASE ChunkTimesOut(s)
  <2>1. PICK r \in {[d EXCEPT !.pc = "closing"], [d EXCEPT !.stop = TRUE, !.pc = "error"]} :
           drain' = [drain EXCEPT ![s] = r]
    BY <1>7 DEF ChunkTimesOut, DrainGoes
  <2>2. r \in DrainRecord /\ r.pc \in {"closing", "error"} /\ r.worker = d.worker
    BY <2>1 DEF DrainRecord
  <2>. QED
    BY <1>1, <1>7, <2>1, <2>2, Moves DEF ChunkTimesOut, Working, InRuntimeStates, sideVars
<1>8. CASE ErrorOut(s)
  <2>1. PICK p \in {"closing", "ending"} : drain' = [drain EXCEPT ![s].pc = p]
    BY <1>8 DEF ErrorOut, DrainGoes
  <2>. DEFINE r == [d EXCEPT !.pc = p]
  <2>2. /\ r \in DrainRecord /\ drain' = [drain EXCEPT ![s] = r]
        /\ r.pc = p /\ r.worker = d.worker
    BY <1>8, <2>1 DEF DrainRecord
  <2>. QED
    BY <1>1, <1>8, <2>2, Moves DEF ErrorOut, Working, InRuntimeStates, sideVars
<1>9. CASE SentenceDoneOut(s)
  <2>1. PICK p \in {"closing"} : drain' = [drain EXCEPT ![s].pc = p]
    BY <1>9 DEF SentenceDoneOut, DrainGoes
  <2>. DEFINE r == [d EXCEPT !.pc = p]
  <2>2. /\ r \in DrainRecord /\ drain' = [drain EXCEPT ![s] = r]
        /\ r.pc = p /\ r.worker = d.worker
    BY <1>9, <2>1 DEF DrainRecord
  <2>. QED
    BY <1>1, <1>9, <2>2, Moves DEF SentenceDoneOut, Working, InRuntimeStates, sideVars
<1>10. CASE GetLease(s)
  <2>1. PICK p \in {"closing", "started", "header"} : drain' = [drain EXCEPT ![s].pc = p]
    BY <1>10 DEF GetLease, DrainGoes
  <2>. DEFINE r == [d EXCEPT !.pc = p]
  <2>2. /\ r \in DrainRecord /\ drain' = [drain EXCEPT ![s] = r]
        /\ r.pc = p /\ r.worker = d.worker
    BY <2>1 DEF DrainRecord
  <2>. HIDE DEF r
  <2>3. DrainsTyped' /\ drain'[s] = r /\ \A t \in Sentences \ {s} : drain'[t] = drain[t]
    BY <2>2 DEF IInv, DrainsTyped
  <2>4. LeaseHeld'
    BY <1>1, <1>10, <2>2, <2>3
       DEF IInv, LeaseHeld, GetLease, Working, InRuntimeStates, sideVars, Sentences
  <2>5. Fresh'
    BY <1>10, <2>2, <2>3, FreshKeeps DEF IInv, Fresh, GetLease
  <2>. QED
    BY <2>3, <2>4, <2>5 DEF IInv
<1>11. CASE CloseDrain(s)
  <2>. DEFINE r == [d EXCEPT !.pc = "gone"]
  <2>2. /\ r \in DrainRecord /\ drain' = [drain EXCEPT ![s] = r]
        /\ r.pc = "gone" /\ r.worker = d.worker
    BY <1>11 DEF DrainRecord, CloseDrain, DrainGoes
  <2>. HIDE DEF r
  <2>3. DrainsTyped' /\ drain'[s] = r /\ \A t \in Sentences \ {s} : drain'[t] = drain[t]
    BY <2>2 DEF IInv, DrainsTyped
  <2>4. LeaseHeld'
    BY <1>11, <2>2, <2>3
       DEF IInv, LeaseHeld, CloseDrain, RuntimeLeft, Working, InRuntimeStates, sideVars
  <2>5. Fresh'
    BY <1>11, <2>2, <2>3, FreshKeeps DEF IInv, Fresh, CloseDrain
  <2>. QED
    BY <2>3, <2>4, <2>5 DEF IInv
<1>. QED
  BY <1>2, <1>3, <1>4, <1>5, <1>6, <1>7, <1>8, <1>9, <1>10, <1>11 DEF DrainStep

(* The runtime's thread moves. *)
LEMMA RuntimeKeeps ==
  ASSUME IInv, NEW s \in Sentences,
         \/ InRuntime(SynthYields(s)) \/ InRuntime(SynthHandsOver(s))
         \/ InRuntime(SynthEnds(s)) \/ InRuntime(SynthHangs(s))
         \/ InRuntime(SynthRecovers(s))
  PROVE  IInv'
<1>. DEFINE d == drain[s]
<1>. d \in DrainRecord
  BY DEF IInv, DrainsTyped
<1>1. d.worker \in InRuntimeStates
  BY DEF InRuntime, SynthYields, SynthHandsOver, SynthEnds, SynthHangs, SynthRecovers,
         InRuntimeStates
<1>2. PICK w \in {"running", "handing", "stuck", "ended", "failed"} :
        \/ drain' = [drain EXCEPT ![s].worker = w]
        \/ drain' = [drain EXCEPT ![s].worker = w, ![s].left = @ - 1]
        \/ drain' = [drain EXCEPT ![s].worker = w, ![s].chunks = @ + 1]
  BY DEF InRuntime, SynthYields, SynthHandsOver, SynthEnds, SynthHangs, SynthRecovers,
         WorkerGoes
<1>. DEFINE moved == [d EXCEPT !.worker = w]
            yielded == [d EXCEPT !.worker = w, !.left = d.left - 1]
            handed == [d EXCEPT !.worker = w, !.chunks = d.chunks + 1]
<1>3. PICK r \in {moved, yielded, handed} : drain' = [drain EXCEPT ![s] = r]
  BY <1>2 DEF IInv, DrainsTyped, DrainRecord
<1>4. r \in DrainRecord /\ r.pc = d.pc
  <2>1. moved \in DrainRecord /\ moved.pc = d.pc
    BY DEF DrainRecord
  <2>2. d.left - 1 \in Int /\ d.chunks + 1 \in Int
    BY DEF DrainRecord
  <2>3. yielded \in DrainRecord /\ yielded.pc = d.pc
    BY <2>2 DEF DrainRecord
  <2>4. handed \in DrainRecord /\ handed.pc = d.pc
    BY <2>2 DEF DrainRecord
  <2>. HIDE DEF moved, yielded, handed
  <2>. QED
    BY <1>3, <2>1, <2>3, <2>4
<1>5. d.pc # "none"
  BY <1>1 DEF IInv, Fresh, InRuntimeStates
<1>6. deployment.serial =>
         /\ lease = s
         /\ d.pc \in {"speaking", "audio", "error", "ending", "closing"}
  BY <1>1 DEF IInv, LeaseHeld
<1>7. UNCHANGED <<deployment, lease, client, queue, out>>
  BY DEF InRuntime, sideVars
<1>. QED
  BY <1>3, <1>4, <1>5, <1>6, <1>7, Moves

(* A new sentence in the queue is newer than all of them. *)
LEMMA AppendKeeps ==
  ASSUME IInv, client.given < MaxSentences, client'.given = client.given + 1,
         queue' = Append(queue, client.given + 1),
         UNCHANGED <<deployment, out, drain, lease>>
  PROVE  IInv'
<1>1. DrainsTyped' /\ LeaseHeld'
  BY DEF IInv, DrainsTyped, LeaseHeld
<1>. DEFINE n == client.given + 1
<1>2. n \in Sentences /\ client'.given \in 0 .. MaxSentences
  BY BoundsAssumption DEF IInv, Fresh, Sentences
<1>3. \A i \in 1 .. Len(queue) : queue[i] \in Sentences
  BY DEF IInv, Fresh
<1>4. /\ queue' \in Seq(Sentences) /\ Len(queue') = Len(queue) + 1
      /\ \A i \in 1 .. Len(queue) : queue'[i] = queue[i]
      /\ queue'[Len(queue) + 1] = n
      /\ Len(queue) \in Nat
  BY <1>2 DEF IInv, Fresh
<1>5. \A i \in 1 .. Len(queue') : i \in 1 .. Len(queue) \/ i = Len(queue) + 1
  BY <1>4
<1>6. drain[n].pc = "none"
  BY <1>2 DEF IInv, Fresh, Sentences
<1>7. \A i \in 1 .. Len(queue') :
         queue'[i] <= client'.given /\ drain'[queue'[i]].pc = "none"
  BY <1>2, <1>3, <1>4, <1>5, <1>6 DEF IInv, Fresh, Sentences
<1>8. \A i, j \in 1 .. Len(queue') : i < j => queue'[i] < queue'[j]
  <2>. SUFFICES ASSUME NEW i \in 1 .. Len(queue'), NEW j \in 1 .. Len(queue'), i < j
               PROVE  queue'[i] < queue'[j]
    OBVIOUS
  <2>1. i \in 1 .. Len(queue)
    BY <1>4
  <2>2. CASE j \in 1 .. Len(queue)
    BY <1>4, <2>1, <2>2 DEF IInv, Fresh
  <2>3. CASE j = Len(queue) + 1
    BY <1>2, <1>3, <1>4, <2>1, <2>3 DEF IInv, Fresh, Sentences
  <2>. QED
    BY <1>5, <2>2, <2>3
<1>9. \A t \in Sentences : t > client'.given => drain'[t].pc = "none"
  BY DEF IInv, Fresh, Sentences
<1>10. out'.pc = "taken" =>
         /\ out'.s \in Sentences /\ out'.s <= client'.given
         /\ drain'[out'.s].pc = "none"
         /\ \A i \in 1 .. Len(queue') : out'.s < queue'[i]
  BY <1>4, <1>5 DEF IInv, Fresh, Sentences
<1>11. \A t \in Sentences : drain'[t].pc = "none" => drain'[t].worker = "none"
  BY DEF IInv, Fresh
<1>12. Fresh'
  BY <1>2, <1>4, <1>7, <1>8, <1>9, <1>10, <1>11 DEF Fresh
<1>. QED
  BY <1>1, <1>12 DEF IInv

(* A sentence out of the queue has a drain now, or is dropped as mute. *)
LEMMA BegunKeeps ==
  ASSUME IInv, NEW s \in Sentences, s <= client.given, drain[s].pc = "none",
         queue' \in Seq(Sentences),
         \A i \in 1 .. Len(queue') :
            /\ s < queue'[i]
            /\ queue'[i] <= client.given /\ drain[queue'[i]].pc = "none",
         \A i, j \in 1 .. Len(queue') : i < j => queue'[i] < queue'[j],
         BeginSentence(s), UNCHANGED <<deployment, client, lease>>
  PROVE  IInv'
<1>. DEFINE r == [drain[s] EXCEPT !.pc = "waits"]
<1>1. drain[s] \in DrainRecord /\ drain[s].worker = "none"
  BY DEF IInv, DrainsTyped, Fresh
<1>2. r \in DrainRecord /\ r.pc = "waits" /\ r.worker = "none"
  BY <1>1 DEF DrainRecord
<1>3. drain' = drain \/ drain' = [drain EXCEPT ![s] = r]
  BY DEF BeginSentence
<1>. HIDE DEF r
<1>4. /\ DrainsTyped'
      /\ \A t \in Sentences \ {s} : drain'[t] = drain[t]
      /\ drain'[s] = drain[s] \/ drain'[s] = r
  BY <1>2, <1>3 DEF IInv, DrainsTyped
<1>5. LeaseHeld'
  BY <1>1, <1>2, <1>4 DEF IInv, LeaseHeld, Working, InRuntimeStates
<1>6. out'.pc # "taken"
  BY DEF BeginSentence, OutGoes
<1>7. \A i \in 1 .. Len(queue') : queue'[i] \in Sentences /\ queue'[i] # s
  BY DEF Sentences
<1>8. \A i \in 1 .. Len(queue') :
         queue'[i] <= client'.given /\ drain'[queue'[i]].pc = "none"
  BY <1>4, <1>7
<1>9. \A t \in Sentences : t > client'.given => drain'[t].pc = "none"
  <2>1. \A t \in Sentences : t > client.given => t # s
    BY DEF IInv, Fresh, Sentences
  <2>. QED
    BY <1>4, <2>1 DEF IInv, Fresh
<1>10. \A t \in Sentences : drain'[t].pc = "none" => drain'[t].worker = "none"
  BY <1>1, <1>2, <1>4 DEF IInv, Fresh
<1>11. Fresh'
  BY <1>6, <1>8, <1>9, <1>10 DEF IInv, Fresh
<1>. QED
  BY <1>4, <1>5, <1>11 DEF IInv

(* The head of the queue, and what is left behind it. *)
LEMMA Taking ==
  ASSUME IInv, queue # <<>>
  PROVE  /\ Head(queue) \in Sentences /\ Head(queue) <= client.given
         /\ drain[Head(queue)].pc = "none"
         /\ Tail(queue) \in Seq(Sentences)
         /\ \A i \in 1 .. Len(Tail(queue)) :
               /\ Head(queue) < Tail(queue)[i]
               /\ Tail(queue)[i] <= client.given /\ drain[Tail(queue)[i]].pc = "none"
         /\ \A i, j \in 1 .. Len(Tail(queue)) : i < j => Tail(queue)[i] < Tail(queue)[j]
<1>1. queue \in Seq(Sentences) /\ Len(queue) \in Nat /\ Len(queue) > 0
  BY DEF IInv, Fresh
<1>2. /\ Tail(queue) \in Seq(Sentences) /\ Len(Tail(queue)) = Len(queue) - 1
      /\ \A i \in 1 .. Len(queue) - 1 : Tail(queue)[i] = queue[i + 1]
      /\ Head(queue) = queue[1]
  BY <1>1
<1>3. \A i \in 1 .. Len(queue) : queue[i] \in Sentences
  BY <1>1
<1>4. \A i \in 1 .. Len(Tail(queue)) : i + 1 \in 1 .. Len(queue) /\ 1 < i + 1
  BY <1>1, <1>2
<1>5. \A i \in 1 .. Len(queue) : 1 < i => queue[1] < queue[i]
  BY <1>1 DEF IInv, Fresh
<1>6. \A i \in 1 .. Len(Tail(queue)) :
         /\ Head(queue) < Tail(queue)[i]
         /\ Tail(queue)[i] <= client.given /\ drain[Tail(queue)[i]].pc = "none"
  <2>. SUFFICES ASSUME NEW i \in 1 .. Len(Tail(queue))
               PROVE  /\ Head(queue) < Tail(queue)[i]
                      /\ Tail(queue)[i] <= client.given /\ drain[Tail(queue)[i]].pc = "none"
    OBVIOUS
  <2>1. Tail(queue)[i] = queue[i + 1] /\ i + 1 \in 1 .. Len(queue) /\ queue[1] < queue[i + 1]
    BY <1>2, <1>4, <1>5
  <2>2. queue[i + 1] \in Sentences /\ queue[1] \in Sentences
    BY <1>1, <1>3, <2>1
  <2>. QED
    BY <1>2, <2>1, <2>2 DEF IInv, Fresh, Sentences
<1>7. \A i, j \in 1 .. Len(Tail(queue)) : i < j => Tail(queue)[i] < Tail(queue)[j]
  <2>. SUFFICES ASSUME NEW i \in 1 .. Len(Tail(queue)), NEW j \in 1 .. Len(Tail(queue)), i < j
               PROVE  Tail(queue)[i] < Tail(queue)[j]
    OBVIOUS
  <2>1. /\ Tail(queue)[i] = queue[i + 1] /\ Tail(queue)[j] = queue[j + 1]
        /\ i + 1 \in 1 .. Len(queue) /\ j + 1 \in 1 .. Len(queue) /\ i + 1 < j + 1
    BY <1>1, <1>2, <1>4
  <2>. QED
    BY <2>1 DEF IInv, Fresh
<1>8. 1 \in 1 .. Len(queue)
  BY <1>1
<1>. QED
  BY <1>2, <1>3, <1>6, <1>7, <1>8 DEF IInv, Fresh

(* tts_out_task: one case per action. *)
LEMMA TtsOutKeeps ==
  ASSUME IInv, TtsOutStep
  PROVE  IInv'
<1>. USE DEF sideVars
<1>1. CASE LoopExits \/ EndTurn \/ TurnDoneSent \/ SessionDoneSent \/ SentenceOver
           \/ ExpiryReported
  <2>1. /\ UNCHANGED <<deployment, client, queue, drain, lease>> /\ out'.pc # "taken"
    <3>1. CASE EndTurn
      BY <3>1 DEF EndTurn, OutGoes
    <3>2. CASE LoopExits \/ SentenceOver \/ ExpiryReported
      BY <3>2 DEF LoopExits, SentenceOver, ExpiryReported, OutGoes
    <3>3. CASE TurnDoneSent
      <4>1. out' = [pc |-> "loop", s |-> 0]
        BY <3>3 DEF TurnDoneSent, OutGoes
      <4>2. UNCHANGED <<deployment, client, queue, drain, lease>>
        BY <3>3 DEF TurnDoneSent
      <4>. QED
        BY <4>1, <4>2
    <3>4. CASE SessionDoneSent
      <4>1. out' = [pc |-> "over", s |-> 0]
        BY <3>4 DEF SessionDoneSent, OutGoes
      <4>2. UNCHANGED <<deployment, client, queue, drain, lease>>
        BY <3>4 DEF SessionDoneSent
      <4>. QED
        BY <4>1, <4>2
    <3>. QED
      BY <1>1, <3>1, <3>2, <3>3, <3>4
  <2>2. DrainsTyped' /\ LeaseHeld'
    BY <2>1 DEF IInv, DrainsTyped, LeaseHeld
  <2>3. \A s \in Sentences : drain'[s].pc = "none" => drain'[s].worker = "none"
    BY <2>1 DEF IInv, Fresh
  <2>4. Fresh'
    BY <2>1, <2>3, FreshKeeps DEF IInv
  <2>. QED
    BY <2>2, <2>4 DEF IInv
<1>2. CASE TakeSentence
  <2>1. queue # <<>> /\ queue' = Tail(queue) /\ UNCHANGED <<deployment, client, lease>>
    BY <1>2 DEF TakeSentence
  <2>2. CASE BeginSentence(Head(queue))
    BY <2>1, <2>2, Taking, BegunKeeps
  <2>3. CASE UNCHANGED drain /\ out' = [pc |-> "taken", s |-> Head(queue)]
    <3>1. DrainsTyped' /\ LeaseHeld'
      BY <2>1, <2>3 DEF IInv, DrainsTyped, LeaseHeld
    <3>2. /\ client'.given \in 0 .. MaxSentences
          /\ \A t \in Sentences : t > client'.given => drain'[t].pc = "none"
          /\ \A t \in Sentences : drain'[t].pc = "none" => drain'[t].worker = "none"
      BY <2>1, <2>3 DEF IInv, Fresh
    <3>3. out'.pc = "taken" =>
            /\ out'.s \in Sentences /\ out'.s <= client'.given
            /\ drain'[out'.s].pc = "none"
            /\ \A i \in 1 .. Len(queue') : out'.s < queue'[i]
      BY <2>1, <2>3, Taking
    <3>4. /\ queue' \in Seq(Sentences)
          /\ \A i \in 1 .. Len(queue') :
                queue'[i] <= client'.given /\ drain'[queue'[i]].pc = "none"
          /\ \A i, j \in 1 .. Len(queue') : i < j => queue'[i] < queue'[j]
      BY <2>1, <2>3, Taking
    <3>5. Fresh'
      BY <3>2, <3>3, <3>4 DEF Fresh
    <3>. QED
      BY <3>1, <3>5 DEF IInv
  <2>. QED
    BY <1>2, <2>2, <2>3 DEF TakeSentence, OutGoes
<1>3. CASE SentenceTaken
  <2>1. /\ out.pc = "taken" /\ BeginSentence(out.s)
        /\ UNCHANGED <<deployment, client, queue, lease>>
    BY <1>3 DEF SentenceTaken
  <2>2. /\ out.s \in Sentences /\ out.s <= client.given /\ drain[out.s].pc = "none"
        /\ queue' \in Seq(Sentences)
        /\ \A i \in 1 .. Len(queue') :
              /\ out.s < queue'[i]
              /\ queue'[i] <= client.given /\ drain[queue'[i]].pc = "none"
        /\ \A i, j \in 1 .. Len(queue') : i < j => queue'[i] < queue'[j]
    BY <2>1 DEF IInv, Fresh
  <2>. QED
    BY <2>1, <2>2, BegunKeeps
<1>4. CASE SentenceExpires
  <2>1. /\ drain' = Stopped(out.s) /\ out'.pc # "taken"
        /\ UNCHANGED <<deployment, client, queue, lease>>
    BY <1>4 DEF SentenceExpires, OutGoes
  <2>2. /\ DrainsTyped' /\ LeaseHeld'
        /\ \A s \in Sentences : /\ drain[s].pc = "none" <=> drain'[s].pc = "none"
                                /\ drain'[s].worker = drain[s].worker
    BY <2>1, KilledKeeps
  <2>3. \A s \in Sentences : drain'[s].pc = "none" => drain'[s].worker = "none"
    BY <2>2 DEF IInv, Fresh
  <2>4. Fresh'
    BY <2>1, <2>2, <2>3, FreshKeeps DEF IInv
  <2>. QED
    BY <2>2, <2>4 DEF IInv
<1>. QED
  BY <1>1, <1>2, <1>3, <1>4 DEF TtsOutStep

(* Whatever only stops drains and drops sentences. *)
LEMMA SilencingKeeps ==
  ASSUME IInv, NEW c, drain' = Killed(c) \/ drain' = Stopped(c) \/ drain' = drain,
         UNCHANGED <<deployment, lease>>, client'.given = client.given,
         queue' = queue \/ queue' = <<>>, out' = out \/ out'.pc # "taken"
  PROVE  IInv'
<1>1. /\ DrainsTyped' /\ LeaseHeld'
      /\ \A s \in Sentences : /\ drain[s].pc = "none" <=> drain'[s].pc = "none"
                              /\ drain'[s].worker = drain[s].worker
  BY KilledKeeps
<1>2. \A s \in Sentences : drain'[s].pc = "none" => drain'[s].worker = "none"
  BY <1>1 DEF IInv, Fresh
<1>3. Fresh'
  BY <1>1, <1>2, FreshKeeps DEF IInv
<1>. QED
  BY <1>1, <1>3 DEF IInv

(* What is known of the client. *)
ClientRecord == [given : Int, flushes : Int, closed : BOOLEAN]

LEMMA NextKeeps ==
  ASSUME IInv, TypeOK, [Next]_vars
  PROVE  IInv'
<1>. USE DEF sideVars
<1>1. deployment' = deployment /\ client \in ClientRecord
  BY PlainSteps DEF TypeOK, ClientRecord
<1>2. CASE ClientText \/ DirectSpeak
  <2>1. client.given < deployment.sentences
    BY <1>2 DEF ClientText, DirectSpeak
  <2>2. client.given < MaxSentences
    BY <2>1 DEF IInv, Fresh, TypeOK
  <2>3. /\ client'.given = client.given + 1 /\ queue' = Append(queue, client.given + 1)
        /\ UNCHANGED <<deployment, out, drain, lease>>
    <3>1. CASE ClientText
      BY <1>1, <3>1 DEF ClientText, ClientRecord
    <3>2. CASE DirectSpeak
      BY <1>1, <3>2 DEF DirectSpeak, ClientRecord
    <3>. QED
      BY <1>2, <3>1, <3>2
  <2>. QED
    BY <1>1, <2>2, <2>3, AppendKeeps
<1>3. CASE ClientFlush \/ ConversationReset \/ AsrCloses \/ AsrFails \/ HandlerReleases
           \/ UNCHANGED vars
  <2>1. UNCHANGED <<lease, queue, drain, out>> /\ client'.given = client.given
    BY <1>1, <1>3 DEF ClientFlush, ConversationReset, AsrCloses, AsrFails, HandlerReleases,
                      vars, ClientRecord
  <2>. QED
    BY <1>1, <2>1, SilencingKeeps
<1>4. CASE Abort \/ ResponseCancel \/ ResetAborts \/ SpeechStart
  <2>1. /\ drain' = Killed(state.current) \/ drain' = drain
        /\ UNCHANGED <<lease, client, out>>
        /\ queue' = queue \/ queue' = <<>>
    BY <1>4 DEF Abort, ResponseCancel, ResetAborts, SpeechStart, Aborts, KillCurrent,
                AbortCleared
  <2>. QED
    BY <1>1, <2>1, SilencingKeeps
<1>5. CASE Leave \/ HandlerCloses
  <2>1. CancelOut /\ UNCHANGED <<lease, queue>> /\ client'.given = client.given
    BY <1>1, <1>5 DEF Leave, HandlerCloses, ClientRecord
  <2>2. /\ drain' = Stopped(out.s) \/ drain' = drain
        /\ out' = out \/ out'.pc # "taken"
    BY <2>1 DEF CancelOut, OutGoes
  <2>3. CASE drain' = Stopped(out.s)
    BY <1>1, <2>1, <2>2, <2>3, SilencingKeeps
  <2>4. CASE drain' = drain
    BY <1>1, <2>1, <2>2, <2>4, SilencingKeeps
  <2>. QED
    BY <2>2, <2>3, <2>4
<1>6. CASE TtsOutStep
  BY <1>1, <1>6, TtsOutKeeps
<1>7. ASSUME NEW s \in Sentences, DrainStep(s)
      PROVE  IInv'
  BY <1>7, DrainStepKeeps
<1>8. ASSUME NEW s \in Sentences,
             \/ InRuntime(SynthYields(s)) \/ InRuntime(SynthHandsOver(s))
             \/ InRuntime(SynthEnds(s)) \/ InRuntime(SynthHangs(s))
             \/ InRuntime(SynthRecovers(s))
      PROVE  IInv'
  BY <1>8, RuntimeKeeps
<1>. QED
  BY <1>1, <1>2, <1>3, <1>4, <1>5, <1>6, <1>7, <1>8 DEF Next

(* Two threads in the runtime would both hold its one lease. *)
LEMMA HeldByOne == IInv => OneRuntimeUser
  BY DEF IInv, LeaseHeld, OneRuntimeUser

-----------------------------------------------------------------------------
(* However sentences are cancelled, abandoned after their deadline, or      *)
(* outlive the session, one that runs alone in the runtime runs alone until *)
(* its thread has left (drain's finally).                                  *)
THEOREM RuntimeExclusive == Spec => []OneRuntimeUser
<1>1. Init => TypeInv /\ IInv
  BY InitTyped, InitIInv
<1>2. (TypeInv /\ IInv) /\ [Next]_vars => (TypeInv /\ IInv)'
  BY TypeKeeps, NextKeeps DEF TypeInv
<1>. QED
  BY <1>1, <1>2, HeldByOne, PTL DEF Spec


------------------------------------------------------------------------------

(***************************************************************************)
(* The queue on the send lock, as the set of tasks that wait in it: each   *)
(* once, sentences in their order and none of them behind tts_out_task.    *)
(***************************************************************************)
Orderly(q, A) ==
    /\ q \in Seq(Tasks)
    /\ \A i \in 1 .. Len(q) : q[i] \in A
    /\ \A t \in A : \E i \in 1 .. Len(q) : q[i] = t
    /\ \A i, j \in 1 .. Len(q) : i < j =>
          /\ q[i] # q[j]
          /\ q[i] = TtsOut => q[j] \notin Sentences
          /\ q[i] \in Sentences /\ q[j] \in Sentences => q[i] < q[j]

(* The first task: it leaves the set, and every sentence is behind it. *)
LEMMA FirstLeaves ==
  ASSUME NEW q, NEW A, Orderly(q, A), q # <<>>
  PROVE  /\ Head(q) \in A /\ Orderly(Tail(q), A \ {Head(q)})
         /\ \A s \in A \cap Sentences :
               /\ Head(q) # TtsOut
               /\ Head(q) \in Sentences => Head(q) <= s
<1>1. /\ q \in Seq(Tasks) /\ Len(q) \in Nat /\ Len(q) > 0 /\ Head(q) = q[1]
      /\ Tail(q) \in Seq(Tasks) /\ Len(Tail(q)) = Len(q) - 1
      /\ \A i \in 1 .. Len(q) - 1 : Tail(q)[i] = q[i + 1]
  BY DEF Orderly
<1>2. \A i \in 1 .. Len(q) : i # 1 =>
         /\ 1 < i /\ q[1] # q[i]
         /\ q[1] = TtsOut => q[i] \notin Sentences
         /\ q[1] \in Sentences /\ q[i] \in Sentences => q[1] < q[i]
  BY <1>1 DEF Orderly
<1>3. \A i \in 1 .. Len(Tail(q)) : /\ i + 1 \in 1 .. Len(q) /\ i + 1 # 1
                                   /\ Tail(q)[i] = q[i + 1]
  BY <1>1
<1>4. \A i \in 1 .. Len(Tail(q)) : Tail(q)[i] \in A \ {Head(q)}
  BY <1>1, <1>2, <1>3 DEF Orderly
<1>5. ASSUME NEW t \in A \ {Head(q)}
      PROVE  \E i \in 1 .. Len(Tail(q)) : Tail(q)[i] = t
  <2>1. PICK i \in 1 .. Len(q) : q[i] = t
    BY DEF Orderly
  <2>2. i - 1 \in 1 .. Len(Tail(q)) /\ Tail(q)[i - 1] = q[(i - 1) + 1] /\ (i - 1) + 1 = i
    BY <1>1, <2>1
  <2>. QED
    BY <2>1, <2>2
<1>6. \A i, j \in 1 .. Len(Tail(q)) : i < j =>
          /\ Tail(q)[i] # Tail(q)[j]
          /\ Tail(q)[i] = TtsOut => Tail(q)[j] \notin Sentences
          /\ Tail(q)[i] \in Sentences /\ Tail(q)[j] \in Sentences => Tail(q)[i] < Tail(q)[j]
  <2>. SUFFICES ASSUME NEW i \in 1 .. Len(Tail(q)), NEW j \in 1 .. Len(Tail(q)), i < j
               PROVE  /\ Tail(q)[i] # Tail(q)[j]
                      /\ Tail(q)[i] = TtsOut => Tail(q)[j] \notin Sentences
                      /\ Tail(q)[i] \in Sentences /\ Tail(q)[j] \in Sentences
                            => Tail(q)[i] < Tail(q)[j]
    OBVIOUS
  <2>1. i + 1 \in 1 .. Len(q) /\ j + 1 \in 1 .. Len(q) /\ i + 1 < j + 1
    BY <1>1, <1>3
  <2>. QED
    BY <1>3, <2>1 DEF Orderly
<1>7. Head(q) \in A
  BY <1>1 DEF Orderly
<1>8. ASSUME NEW s \in A \cap Sentences
      PROVE  Head(q) # TtsOut /\ (Head(q) \in Sentences => Head(q) <= s)
  <2>1. PICK i \in 1 .. Len(q) : q[i] = s
    BY DEF Orderly
  <2>2. s \in Sentences /\ s \in Int
    BY TasksAre
  <2>3. CASE i = 1
    <3>1. Head(q) = s
      BY <1>1, <2>1, <2>3
    <3>. QED
      BY <2>2, <3>1, TasksAre
  <2>4. CASE i # 1
    <3>1. Head(q) # TtsOut /\ (Head(q) \in Sentences => Head(q) < s)
      BY <1>1, <1>2, <2>1, <2>2, <2>4
    <3>2. Head(q) \in Sentences => Head(q) \in Int
      BY TasksAre
    <3>. QED
      BY <2>2, <3>1, <3>2
  <2>. QED
    BY <2>3, <2>4
<1>. QED
  BY <1>1, <1>4, <1>5, <1>6, <1>7, <1>8 DEF Orderly

(* A new sender joins behind the others. *)
LEMMA LastJoins ==
  ASSUME NEW q, NEW A, Orderly(q, A), NEW t \in Tasks, t \notin A,
         t \in Sentences => TtsOut \notin A /\ \A s \in A \cap Sentences : s < t
  PROVE  Orderly(Append(q, t), A \cup {t})
<1>. DEFINE r == Append(q, t)
<1>1. /\ r \in Seq(Tasks) /\ Len(q) \in Nat /\ Len(r) = Len(q) + 1
      /\ r[Len(q) + 1] = t /\ \A i \in 1 .. Len(q) : r[i] = q[i]
  BY DEF Orderly
<1>2. \A i \in 1 .. Len(r) : i \in 1 .. Len(q) \/ i = Len(q) + 1
  BY <1>1
<1>3. \A i \in 1 .. Len(q) : q[i] \in A /\ i \in 1 .. Len(r)
  BY <1>1 DEF Orderly
<1>. HIDE DEF r
<1>4. \A i \in 1 .. Len(r) : r[i] \in A \cup {t}
  BY <1>1, <1>2, <1>3
<1>5. \A u \in A \cup {t} : \E i \in 1 .. Len(r) : r[i] = u
  <2>1. \A u \in A : \E i \in 1 .. Len(r) : r[i] = u
    BY <1>1, <1>3 DEF Orderly
  <2>2. Len(q) + 1 \in 1 .. Len(r)
    BY <1>1
  <2>. QED
    BY <1>1, <2>1, <2>2
<1>6. ASSUME NEW i \in 1 .. Len(r), NEW j \in 1 .. Len(r), i < j
      PROVE  /\ r[i] # r[j]
             /\ r[i] = TtsOut => r[j] \notin Sentences
             /\ r[i] \in Sentences /\ r[j] \in Sentences => r[i] < r[j]
  <2>1. i \in 1 .. Len(q)
    BY <1>1, <1>6
  <2>2. CASE j \in 1 .. Len(q)
    BY <1>1, <1>6, <2>1, <2>2 DEF Orderly
  <2>3. CASE j = Len(q) + 1
    BY <1>1, <1>3, <2>1, <2>3
  <2>. QED
    BY <1>2, <2>2, <2>3
<1>. QED
  BY <1>1, <1>4, <1>5, <1>6 DEF Orderly, r

(* A cancelled sender leaves from wherever it is. *)
LEMMA OneWithdraws ==
  ASSUME NEW q, NEW A, Orderly(q, A), NEW t
  PROVE  Orderly(Withdrawn(q, t), A \ {t})
<1>. DEFINE places == {i \in 1 .. Len(q) : q[i] = t}
            place == CHOOSE i \in places : TRUE
            len == Len(q) - 1
            from == [i \in 1 .. len |-> IF i < place THEN i ELSE i + 1]
            r == [i \in 1 .. len |-> q[IF i < place THEN i ELSE i + 1]]
<1>0. q \in Seq(Tasks) /\ Len(q) \in Nat
  BY DEF Orderly
<1>1. CASE places = {}
  <2>1. Withdrawn(q, t) = q
    BY <1>1 DEF Withdrawn
  <2>2. t \notin A
    BY <1>1 DEF Orderly
  <2>3. A \ {t} = A
    BY <2>2
  <2>. QED
    BY <2>1, <2>3
<1>2. CASE places # {}
  <2>1. place \in 1 .. Len(q) /\ q[place] = t
    BY <1>2
  <2>2. Withdrawn(q, t) = r
    BY <1>2 DEF Withdrawn
  <2>. HIDE DEF place
  <2>3. /\ len \in Nat
        /\ \A i \in 1 .. len : /\ from[i] \in 1 .. Len(q) /\ from[i] # place
                               /\ r[i] = q[from[i]]
        /\ \A i, j \in 1 .. len : i < j => from[i] < from[j]
    BY <1>0, <2>1
  <2>4. r \in Seq(Tasks) /\ Len(r) = len
    BY <2>2, <2>3, <1>0, WithdrawnShape
  <2>5. \A j \in 1 .. Len(q) : j # place => \E i \in 1 .. len : from[i] = j
    <3>. SUFFICES ASSUME NEW j \in 1 .. Len(q), j # place
                 PROVE  \E i \in 1 .. len : from[i] = j
      OBVIOUS
    <3>1. CASE j < place
      <4>1. j \in 1 .. len /\ from[j] = j
        BY <1>0, <2>1, <3>1
      <4>. QED
        BY <4>1
    <3>2. CASE j > place
      <4>1. j - 1 \in 1 .. len /\ from[j - 1] = j
        BY <1>0, <2>1, <3>2
      <4>. QED
        BY <4>1
    <3>. QED
      BY <1>0, <2>1, <3>1, <3>2
  <2>. HIDE DEF r, from, len
  <2>6. \A i \in 1 .. Len(q) : i # place => q[i] # t
    BY <1>0, <2>1 DEF Orderly
  <2>7. \A i \in 1 .. Len(r) : r[i] \in A \ {t}
    <3>1. \A i \in 1 .. Len(q) : q[i] \in A
      BY DEF Orderly
    <3>. QED
      BY <2>3, <2>4, <2>6, <3>1
  <2>8. ASSUME NEW u \in A \ {t}
        PROVE  \E i \in 1 .. Len(r) : r[i] = u
    <3>1. PICK j \in 1 .. Len(q) : q[j] = u
      BY DEF Orderly
    <3>2. PICK i \in 1 .. len : from[i] = j
      BY <2>1, <2>5, <3>1
    <3>. QED
      BY <2>3, <2>4, <3>1, <3>2
  <2>9. ASSUME NEW i \in 1 .. Len(r), NEW j \in 1 .. Len(r), i < j
        PROVE  /\ r[i] # r[j]
               /\ r[i] = TtsOut => r[j] \notin Sentences
               /\ r[i] \in Sentences /\ r[j] \in Sentences => r[i] < r[j]
    <3>1. /\ from[i] \in 1 .. Len(q) /\ from[j] \in 1 .. Len(q) /\ from[i] < from[j]
          /\ r[i] = q[from[i]] /\ r[j] = q[from[j]]
      BY <2>3, <2>4, <2>9
    <3>. QED
      BY <3>1 DEF Orderly
  <2>10. Orderly(r, A \ {t})
    BY <2>4, <2>7, <2>8, <2>9 DEF Orderly
  <2>. QED
    BY <2>2, <2>10
<1>. QED
  BY <1>1, <1>2

(***************************************************************************)
(* Who may still speak.  A drain that has not been stopped is the one      *)
(* tts_out_task waits for, and the newest that was begun.                  *)
(***************************************************************************)
Sending == {"header", "started", "audio", "error", "ending"}
Tuned(s) == drain[s].pc \in Unfinished /\ ~drain[s].stop
Begun(s) == drain[s].pc # "none"

CurrentInv ==
    /\ out.pc \in {"waiting", "erring"} =>
          out.s \in Sentences /\ Begun(out.s) /\ state.current = out.s
    /\ out.pc \notin {"waiting", "erring"} => state.current = 0
    /\ \A s \in Sentences : Tuned(s) => out.pc = "waiting" /\ out.s = s
    /\ out.pc = "waiting" => \A s \in Sentences : Begun(s) => s <= out.s
    /\ \A s \in Sentences : Begun(s) =>
          /\ \A i \in 1 .. Len(queue) : s < queue[i]
          /\ out.pc = "taken" => s < out.s

(* What was given before an abort is neither queued nor about to start, but  *)
(* for the sentence that was out of the abort's reach.                      *)
Early(s) == drain[s].pc \in {"waits", "header", "started"} /\ ~drain[s].stop

AbortInv ==
    /\ history.aborted <= client.given
    /\ \A i \in 1 .. Len(queue) : history.aborted < queue[i]
    /\ out.pc = "taken" => deployment.spawns /\ MayBegin(out.s)
    /\ \A s \in Sentences : Early(s) => MayBegin(s)

(* The send lock's queue holds exactly the tasks that are sending. *)
EndingTurn == {"erring", "turnDone", "sessionDone"}
Awaiting ==
    {s \in Sentences : drain[s].pc \in Sending}
      \cup (IF out.pc \in EndingTurn THEN {TtsOut} ELSE {})
      \cup (IF resetting THEN {Dispatcher} ELSE {})

SendsInv == Orderly(sends, Awaiting)

(* Who has something to say says it in the response it was started in.  *)
Speaks(s) ==
    \/ drain[s].pc \in {"audio", "ending"}
    \/ Tuned(s) /\ drain[s].pc \in {"speaking", "error"}

WireInv ==
    /\ ~client.closed =>
          \A s \in Sentences : Speaks(s) =>
             adapter.active # 0 /\ s \in wire[adapter.active].said
    /\ SentInItsResponse
    /\ \A r \in 1 .. Len(wire) : \A t \in wire[r].said :
          /\ Begun(t)
          /\ \A s \in Sentences : drain[s].pc \in Sending => t <= s

VoiceInv == CurrentInv /\ AbortInv /\ SendsInv /\ WireInv

LEMMA InitVoice == Init => VoiceInv
<1>. SUFFICES ASSUME Init PROVE VoiceInv
  OBVIOUS
<1>1. \A s \in Sentences : drain[s].pc = "none"
  BY DEF Init, NoDrain
<1>2. CurrentInv /\ AbortInv
  <2>1. \A s \in Sentences : ~Tuned(s) /\ ~Begun(s) /\ ~Early(s)
    BY <1>1 DEF Tuned, Begun, Early, Unfinished
  <2>2. /\ out.pc = "loop" /\ state.current = 0 /\ Len(queue) = 0
        /\ history.aborted = 0 /\ client.given = 0
    BY DEF Init
  <2>. QED
    BY <2>1, <2>2 DEF CurrentInv, AbortInv
<1>3. Awaiting = {} /\ sends = <<>>
  BY <1>1 DEF Init, Awaiting, Sending, EndingTurn
<1>4. Orderly(<<>>, {})
  BY DEF Orderly
<1>5. WireInv
  BY <1>1 DEF Init, WireInv, Speaks, Tuned, Unfinished, SentInItsResponse
<1>. QED
  BY <1>2, <1>3, <1>4, <1>5 DEF VoiceInv, SendsInv

(* Steps that begin no drain and let none speak that did not. *)
LEMMA CurrentKeeps ==
  ASSUME TypeOK, CurrentInv,
         \A s \in Sentences : Begun(s)' <=> Begun(s),
         \A s \in Sentences : Tuned(s)' => Tuned(s),
         queue' = queue \/ queue' = <<>>,
         \/ UNCHANGED out /\ state'.current = state.current
         \/ /\ out'.pc \notin {"waiting", "erring", "taken"} /\ state'.current = 0
            /\ \A s \in Sentences : ~Tuned(s)'
         \/ /\ out.pc = "waiting" /\ out'.pc = "erring" /\ out'.s = out.s
            /\ state'.current = state.current
            /\ \A s \in Sentences : ~Tuned(s)'
  PROVE  CurrentInv'
<1>1. \A s \in Sentences : Begun(s) => \A i \in 1 .. Len(queue') : s < queue'[i]
  BY DEF CurrentInv
<1>. QED
  BY <1>1 DEF CurrentInv, Begun

LEMMA AbortKeeps ==
  ASSUME TypeOK, AbortInv,
         deployment' = deployment, client'.given = client.given,
         history'.aborted = history.aborted, history'.slipped = history.slipped,
         out' = out \/ out'.pc # "taken",
         queue' = queue \/ queue' = <<>>,
         \A s \in Sentences : Early(s)' => Early(s)
  PROVE  AbortInv'
<1>1. \A i \in 1 .. Len(queue') : history.aborted < queue'[i]
  BY DEF AbortInv
<1>. QED
  BY <1>1 DEF AbortInv, MayBegin

LEMMA Responses ==
  ASSUME TypeOK
  PROVE  WireType /\ \A r \in 1 .. Len(wire) : wire[r] \in Response
<1>1. wire \in Seq(Response)
  BY DEF TypeOK, Response
<1>. QED
  BY <1>1 DEF TypeOK, WireType

(* _ensure_response_created opens a response without content, if any. *)
LEMMA CreatedResponses ==
  ASSUME WireType
  PROVE  /\ \A r \in 1 .. Len(Created.wire) :
               \/ r \in 1 .. Len(wire) /\ Created.wire[r] = wire[r]
               \/ Created.wire[r].said = {} /\ Created.wire[r].pcm = {}
         /\ adapter.active # 0 => Created.active = adapter.active /\ Created.wire = wire
<1>1. CASE adapter.active # 0
  BY <1>1 DEF Created, WireType
<1>2. CASE adapter.active = 0
  <2>. DEFINE fresh == [status |-> "open", said |-> {}, pcm |-> {}]
  <2>1. Created.wire = Append(wire, fresh)
    BY <1>2 DEF Created
  <2>2. fresh.said = {} /\ fresh.pcm = {}
    OBVIOUS
  <2>3. wire \in Seq(Response)
    BY DEF WireType
  <2>. HIDE DEF fresh
  <2>4. \A r \in 1 .. Len(Created.wire) :
           (r \in 1 .. Len(wire) /\ Created.wire[r] = wire[r]) \/ Created.wire[r] = fresh
    BY <2>1, <2>3
  <2>. QED
    BY <1>2, <2>2, <2>4
<1>. QED
  BY <1>1, <1>2

LEMMA WireKeeps ==
  ASSUME TypeOK, WireInv, UNCHANGED wire, adapter'.active = adapter.active,
         history'.stray = history.stray,
         client'.closed \/ client'.closed = client.closed,
         \A s \in Sentences : Begun(s)' <=> Begun(s),
         \A s \in Sentences : Speaks(s)' => Speaks(s),
         \A s \in Sentences : drain'[s].pc \in Sending =>
            drain[s].pc \in Sending \/ \A t \in Sentences : Begun(t) => t <= s
  PROVE  WireInv'
<1>1. \A r \in 1 .. Len(wire) : wire[r].said \subseteq Sentences
  BY Responses DEF Response
<1>2. ~client'.closed =>
          \A s \in Sentences : Speaks(s)' =>
             adapter'.active # 0 /\ s \in wire'[adapter'.active].said
  BY DEF WireInv
<1>3. SentInItsResponse'
  BY DEF WireInv, SentInItsResponse
<1>4. \A r \in 1 .. Len(wire') : \A t \in wire'[r].said :
          /\ Begun(t)'
          /\ \A s \in Sentences : drain'[s].pc \in Sending => t <= s
  BY <1>1 DEF WireInv
<1>. QED
  BY <1>2, <1>3, <1>4 DEF WireInv

(* Stopping a drain, and killing it: it may only fall silent. *)
LEMMA Hushed ==
  ASSUME TypeOK, NEW c, drain' = Killed(c) \/ drain' = Stopped(c) \/ drain' = drain
  PROVE  /\ \A s \in Sentences : Begun(s)' <=> Begun(s)
         /\ \A s \in Sentences : Tuned(s)' => Tuned(s)
         /\ \A s \in Sentences : Early(s)' => Early(s)
         /\ \A s \in Sentences : Speaks(s)' => Speaks(s)
         /\ \A s \in Sentences : drain'[s].pc \in Sending => drain[s].pc \in Sending
         /\ drain' # drain => ~Tuned(c)'
         /\ drain' = Stopped(c) => {s \in Sentences : drain'[s].pc \in Sending}
                                   = {s \in Sentences : drain[s].pc \in Sending}
         /\ drain' = Killed(c) => {s \in Sentences : drain'[s].pc \in Sending}
                                  = {s \in Sentences : drain[s].pc \in Sending} \ {c}
<1>0. drain \in [Sentences -> Drain]
  BY DEF TypeOK
<1>1. CASE drain' = drain /\ c \notin Sentences
  BY <1>1 DEF Begun, Tuned, Early, Speaks
<1>2. CASE c \notin Sentences
  <2>1. drain' = drain
    BY <1>0, <1>2 DEF Killed, Stopped
  <2>. QED
    BY <1>1, <1>2, <2>1
<1>3. CASE c \in Sentences /\ drain' # drain
  <2>. DEFINE d == drain[c]
              p == IF drain' = Killed(c) /\ d.pc \in Unfinished THEN "closing" ELSE d.pc
              r == [d EXCEPT !.stop = TRUE, !.pc = p]
  <2>0. d \in Drain
    BY <1>0, <1>3
  <2>1. drain' = [drain EXCEPT ![c] = r]
    BY <1>0, <1>3, <2>0 DEF Killed, Stopped, Drain
  <2>2. r.stop = TRUE /\ r.pc = p
    BY <2>0 DEF Drain
  <2>. HIDE DEF r
  <2>3. drain'[c] = r /\ \A s \in Sentences \ {c} : drain'[s] = drain[s]
    BY <1>0, <1>3, <2>1
  <2>4. p = d.pc \/ (p = "closing" /\ d.pc \in Unfinished)
    OBVIOUS
  <2>5. drain' = Killed(c) => p \notin Sending
    BY DEF Sending, Unfinished
  <2>6. CASE drain' = Killed(c)
    <3>1. drain' = Stopped(c) => p = d.pc
      <4>1. Stopped(c)[c].pc = d.pc
        BY <1>0, <1>3, <2>0 DEF Stopped, Drain
      <4>. QED
        BY <2>2, <2>3, <4>1
    <3>. HIDE DEF p
    <3>2. /\ \A s \in Sentences : Begun(s)' <=> Begun(s)
          /\ \A s \in Sentences : Tuned(s)' => Tuned(s)
          /\ \A s \in Sentences : Early(s)' => Early(s)
          /\ ~Tuned(c)'
      BY <1>3, <2>2, <2>3, <2>4, <2>6 DEF Begun, Tuned, Early, Unfinished
    <3>3. \A s \in Sentences : Speaks(s)' => Speaks(s)
      BY <1>3, <2>2, <2>3, <2>4, <2>6 DEF Tuned, Speaks, Unfinished
    <3>4. /\ \A s \in Sentences : drain'[s].pc \in Sending => drain[s].pc \in Sending
          /\ {s \in Sentences : drain'[s].pc \in Sending}
                = {s \in Sentences : drain[s].pc \in Sending} \ {c}
      BY <1>3, <2>2, <2>3, <2>4, <2>5, <2>6 DEF Sending
    <3>5. drain' = Stopped(c) => c \notin {s \in Sentences : drain[s].pc \in Sending}
      BY <2>5, <2>6, <3>1
    <3>. QED
      BY <3>2, <3>3, <3>4, <3>5
  <2>7. CASE drain' # Killed(c)
    <3>1. p = d.pc
      BY <2>7
    <3>. HIDE DEF p
    <3>. QED
      BY <1>3, <2>2, <2>3, <3>1, <2>7
         DEF Begun, Tuned, Early, Speaks, Sending, Unfinished
  <2>. QED
    BY <2>6, <2>7
<1>4. CASE c \in Sentences /\ drain' = drain
  <2>1. drain' = Killed(c) => c \notin {s \in Sentences : drain[s].pc \in Sending}
    <3>. SUFFICES ASSUME drain' = Killed(c), drain[c].pc \in Sending PROVE FALSE
      OBVIOUS
    <3>1. Killed(c)[c].pc = "closing"
      BY <1>0, <1>4 DEF Killed, Drain, Sending, Unfinished
    <3>. QED
      BY <1>4, <3>1 DEF Sending
  <2>. QED
    BY <1>4, <2>1 DEF Begun, Tuned, Early, Speaks
<1>. QED
  BY <1>2, <1>3, <1>4

(* Steps that send nothing and withdraw nothing. *)
LEMMA SendsKeeps ==
  ASSUME SendsInv, UNCHANGED <<sends, resetting>>,
         out'.pc \in EndingTurn <=> out.pc \in EndingTurn,
         \A s \in Sentences : drain'[s].pc \in Sending <=> drain[s].pc \in Sending
  PROVE  SendsInv'
<1>1. Awaiting' = Awaiting
  BY DEF Awaiting
<1>. QED
  BY <1>1 DEF SendsInv

(* No drain's stage or stop event changes. *)
LEMMA NothingSaid ==
  ASSUME TypeOK, VoiceInv,
         UNCHANGED <<deployment, sends, resetting, out, wire, adapter, history>>,
         client'.given = client.given,
         client'.closed \/ client'.closed = client.closed,
         state'.current = state.current,
         queue' = queue \/ queue' = <<>>,
         \A s \in Sentences : drain'[s].pc = drain[s].pc /\ drain'[s].stop = drain[s].stop
  PROVE  VoiceInv'
<1>1. /\ \A s \in Sentences : Begun(s)' <=> Begun(s)
      /\ \A s \in Sentences : Tuned(s)' <=> Tuned(s)
      /\ \A s \in Sentences : Early(s)' <=> Early(s)
      /\ \A s \in Sentences : Speaks(s)' <=> Speaks(s)
  BY DEF Begun, Tuned, Early, Speaks
<1>2. CurrentInv'
  BY <1>1, CurrentKeeps DEF VoiceInv
<1>3. AbortInv'
  BY <1>1, AbortKeeps DEF VoiceInv
<1>4. SendsInv'
  BY SendsKeeps DEF VoiceInv
<1>5. WireInv'
  BY <1>1, WireKeeps DEF VoiceInv
<1>. QED
  BY <1>2, <1>3, <1>4, <1>5 DEF VoiceInv

LEMMA RuntimeIsSilent ==
  ASSUME TypeOK, NEW s \in Sentences,
         \/ InRuntime(SynthYields(s)) \/ InRuntime(SynthHandsOver(s))
         \/ InRuntime(SynthEnds(s)) \/ InRuntime(SynthHangs(s))
         \/ InRuntime(SynthRecovers(s))
  PROVE  \A t \in Sentences : drain'[t].pc = drain[t].pc /\ drain'[t].stop = drain[t].stop
<1>1. drain \in [Sentences -> Drain] /\ drain[s] \in Drain
  BY DEF TypeOK
<1>2. PICK w \in {"running", "handing", "stuck", "ended", "failed"} :
        \/ drain' = [drain EXCEPT ![s].worker = w]
        \/ drain' = [drain EXCEPT ![s].worker = w, ![s].left = @ - 1]
        \/ drain' = [drain EXCEPT ![s].worker = w, ![s].chunks = @ + 1]
  BY DEF InRuntime, SynthYields, SynthHandsOver, SynthEnds, SynthHangs, SynthRecovers,
         WorkerGoes
<1>. DEFINE fewer == drain[s].left - 1
            more == drain[s].chunks + 1
<1>3. PICK r \in {[drain[s] EXCEPT !.worker = w], [drain[s] EXCEPT !.worker = w, !.left = fewer],
                 [drain[s] EXCEPT !.worker = w, !.chunks = more]} :
         drain' = [drain EXCEPT ![s] = r]
  BY <1>1, <1>2 DEF Drain
<1>. HIDE DEF fewer, more
<1>4. r.pc = drain[s].pc /\ r.stop = drain[s].stop
  BY <1>1, <1>3 DEF Drain
<1>. QED
  BY <1>1, <1>3, <1>4

(* The client gives one more sentence. *)
LEMMA GivingKeeps ==
  ASSUME TypeOK, IInv, VoiceInv, client.given < MaxSentences,
         client'.given = client.given + 1, client'.closed = client.closed,
         queue' = Append(queue, client.given + 1), state'.current = state.current,
         UNCHANGED <<deployment, out, drain, sends, resetting, wire, adapter, history>>
  PROVE  VoiceInv'
<1>. DEFINE n == client.given + 1
<1>0. client.given \in 0 .. MaxSentences
  BY DEF TypeOK
<1>1. n \in Sentences /\ client.given \in Nat
  BY <1>0, TasksAre DEF Sentences
<1>2. \A s \in Sentences : Begun(s) => s < n
  BY <1>1 DEF IInv, Fresh, Begun, Sentences
<1>3. /\ Len(queue) \in Nat /\ Len(queue') = Len(queue) + 1
      /\ \A i \in 1 .. Len(queue) : queue'[i] = queue[i]
      /\ queue'[Len(queue) + 1] = n
  BY <1>1 DEF TypeOK
<1>4. \A i \in 1 .. Len(queue') : i \in 1 .. Len(queue) \/ i = Len(queue) + 1
  BY <1>3
<1>5. history.aborted < n
  BY <1>1 DEF VoiceInv, AbortInv, TypeOK
<1>6. CurrentInv'
  <2>1. \A s \in Sentences : Begun(s) => \A i \in 1 .. Len(queue') : s < queue'[i]
    BY <1>2, <1>3, <1>4 DEF VoiceInv, CurrentInv
  <2>. QED
    BY <2>1 DEF VoiceInv, CurrentInv, Begun, Tuned
<1>7. AbortInv'
  <2>1. \A i \in 1 .. Len(queue') : history.aborted < queue'[i]
    BY <1>3, <1>4, <1>5 DEF VoiceInv, AbortInv
  <2>2. history.aborted <= n
    BY <1>1, <1>5 DEF TypeOK
  <2>. QED
    BY <2>1, <2>2 DEF VoiceInv, AbortInv, MayBegin, Early
<1>8. SendsInv'
  BY SendsKeeps DEF VoiceInv
<1>9. WireInv'
  BY WireKeeps DEF VoiceInv, Begun, Speaks, Tuned
<1>. QED
  BY <1>6, <1>7, <1>8, <1>9 DEF VoiceInv

(* abort, response.cancel and speech start: the current sentence is killed. *)
LEMMA KillingKeeps ==
  ASSUME TypeOK, VoiceInv, KillCurrent,
         UNCHANGED <<deployment, resetting, out, client, wire, state>>,
         adapter'.active = adapter.active, history'.stray = history.stray,
         \/ /\ queue' = queue /\ history'.aborted = history.aborted
            /\ history'.slipped = history.slipped
         \/ /\ queue' = <<>> /\ history'.aborted = client.given
            /\ history'.slipped = OutOfReach
  PROVE  VoiceInv'
<1>. DEFINE c == state.current
<1>1. drain' = Killed(c) \/ drain' = drain
  BY DEF KillCurrent
<1>2. /\ \A s \in Sentences : Begun(s)' <=> Begun(s)
      /\ \A s \in Sentences : Tuned(s)' => Tuned(s)
      /\ \A s \in Sentences : Early(s)' => Early(s)
      /\ \A s \in Sentences : Speaks(s)' => Speaks(s)
      /\ \A s \in Sentences : drain'[s].pc \in Sending => drain[s].pc \in Sending
  BY <1>1, Hushed
<1>3. CurrentInv'
  BY <1>2, CurrentKeeps DEF VoiceInv
<1>4. \A s \in Sentences : ~Tuned(s)'
  <2>1. CASE c = 0
    BY <1>2, <2>1 DEF VoiceInv, CurrentInv, Sentences
  <2>2. CASE c # 0
    <3>1. drain' = Killed(c)
      BY <2>2 DEF KillCurrent
    <3>2. \A s \in Sentences : Tuned(s) => s = c
      BY DEF VoiceInv, CurrentInv
    <3>3. c \in Sentences
      BY <2>2 DEF TypeOK, Sentences
    <3>4. Killed(c)[c].stop
      BY <3>3 DEF Killed, TypeOK, Drain
    <3>. QED
      BY <1>2, <3>1, <3>2, <3>4 DEF Tuned
  <2>. QED
    BY <2>1, <2>2
<1>5. AbortInv'
  <2>1. CASE /\ queue' = queue /\ history'.aborted = history.aborted
             /\ history'.slipped = history.slipped
    BY <1>2, <2>1, AbortKeeps DEF VoiceInv
  <2>2. CASE /\ queue' = <<>> /\ history'.aborted = client.given
             /\ history'.slipped = OutOfReach
    <3>1. \A s \in Sentences : ~Early(s)'
      BY <1>4 DEF Early, Tuned, Unfinished
    <3>2. Len(queue') = 0 /\ client.given <= client.given
      BY <2>2 DEF TypeOK
    <3>. QED
      BY <2>2, <3>1, <3>2 DEF VoiceInv, AbortInv, MayBegin, OutOfReach
  <2>. QED
    BY <2>1, <2>2
<1>6. SendsInv'
  <2>1. CASE c = 0
    BY <2>1, SendsKeeps DEF VoiceInv, KillCurrent
  <2>2. CASE c # 0
    <3>1. drain' = Killed(c) /\ sends' = Withdrawn(sends, c) /\ c \in Sentences
      BY <2>2 DEF KillCurrent, Without, TypeOK, Sentences
    <3>2. Awaiting' = Awaiting \ {c}
      BY <3>1, Hushed, TasksAre DEF Awaiting
    <3>. QED
      BY <3>1, <3>2, OneWithdraws DEF VoiceInv, SendsInv
  <2>. QED
    BY <2>1, <2>2
<1>7. WireInv'
  BY <1>2, WireKeeps DEF VoiceInv
<1>. QED
  BY <1>3, <1>5, <1>6, <1>7 DEF VoiceInv

(* A conversation reset: the acknowledgement is queued, then it aborts.  *)
LEMMA ResetKeeps ==
  ASSUME TypeOK, VoiceInv, ConversationReset
  PROVE  VoiceInv'
<1>1. /\ ~resetting /\ resetting' /\ sends' = Append(sends, Dispatcher)
      /\ UNCHANGED <<deployment, client, queue, state, out, drain, wire, history>>
      /\ adapter'.active = adapter.active
  BY DEF ConversationReset, Receiving, SendAs, Marked, sideVars, TypeOK
<1>2. CurrentInv'
  BY <1>1, CurrentKeeps DEF VoiceInv, Begun, Tuned
<1>3. AbortInv'
  BY <1>1, AbortKeeps DEF VoiceInv, Early
<1>4. SendsInv'
  <2>1. Awaiting' = Awaiting \cup {Dispatcher} /\ Dispatcher \notin Awaiting
    BY <1>1, TasksAre DEF Awaiting
  <2>. QED
    BY <1>1, <2>1, LastJoins, TasksAre DEF VoiceInv, SendsInv, Tasks
<1>5. WireInv'
  BY <1>1, WireKeeps DEF VoiceInv, Begun, Speaks, Tuned
<1>. QED
  BY <1>2, <1>3, <1>4, <1>5 DEF VoiceInv

LEMMA ResetAbortsKeeps ==
  ASSUME TypeOK, VoiceInv, ResetAborts
  PROVE  VoiceInv'
<1>. DEFINE c == state.current
<1>1. /\ resetting /\ ~resetting' /\ sends # <<>> /\ Head(sends) = Dispatcher
      /\ queue' = <<>>
      /\ HistoryAborted
      /\ UNCHANGED <<deployment, client, state, out, wire, adapter>>
  BY DEF ResetAborts, AtHead, AbortCleared, sideVars, wireVars
<1>2. /\ history'.aborted = client.given /\ history'.slipped = OutOfReach
      /\ history'.stray = history.stray
  BY <1>1 DEF TypeOK, HistoryAborted
<1>3. drain' = Killed(c) \/ drain' = drain
  BY DEF ResetAborts
<1>4. /\ \A s \in Sentences : Begun(s)' <=> Begun(s)
      /\ \A s \in Sentences : Tuned(s)' => Tuned(s)
      /\ \A s \in Sentences : Speaks(s)' => Speaks(s)
      /\ \A s \in Sentences : drain'[s].pc \in Sending => drain[s].pc \in Sending
  BY <1>3, Hushed
<1>5. CurrentInv'
  BY <1>1, <1>4, CurrentKeeps DEF VoiceInv
<1>6. \A s \in Sentences : ~Tuned(s)'
  <2>1. CASE c = 0
    BY <1>4, <2>1 DEF VoiceInv, CurrentInv, Sentences
  <2>2. CASE c # 0
    <3>1. drain' = Killed(c)
      BY <2>2 DEF ResetAborts
    <3>2. \A s \in Sentences : Tuned(s) => s = c
      BY DEF VoiceInv, CurrentInv
    <3>3. c \in Sentences
      BY <2>2 DEF TypeOK, Sentences
    <3>4. Killed(c)[c].stop
      BY <3>3 DEF Killed, TypeOK, Drain
    <3>. QED
      BY <1>4, <3>1, <3>2, <3>4 DEF Tuned
  <2>. QED
    BY <2>1, <2>2
<1>7. AbortInv'
  <2>1. \A s \in Sentences : ~Early(s)'
    BY <1>6 DEF Early, Tuned, Unfinished
  <2>2. Len(queue') = 0 /\ client.given <= client.given
    BY <1>1 DEF TypeOK
  <2>. QED
    BY <1>1, <1>2, <2>1, <2>2 DEF VoiceInv, AbortInv, MayBegin, OutOfReach
<1>8. SendsInv'
  <2>1. Orderly(Tail(sends), Awaiting \ {Dispatcher})
    BY <1>1, FirstLeaves DEF VoiceInv, SendsInv
  <2>2. CASE c = 0
    <3>1. sends' = Tail(sends) /\ drain' = drain
      BY <2>2 DEF ResetAborts
    <3>2. Awaiting' = Awaiting \ {Dispatcher}
      BY <1>1, <3>1, TasksAre DEF Awaiting
    <3>. QED
      BY <2>1, <3>1, <3>2 DEF SendsInv
  <2>3. CASE c # 0
    <3>1. drain' = Killed(c) /\ sends' = Withdrawn(Tail(sends), c) /\ c \in Sentences
      BY <2>3 DEF ResetAborts, TypeOK, Sentences
    <3>2. {s \in Sentences : drain'[s].pc \in Sending}
             = {s \in Sentences : drain[s].pc \in Sending} \ {c}
      BY <3>1, Hushed
    <3>3. Awaiting' = (Awaiting \ {Dispatcher}) \ {c}
      BY <1>1, <3>1, <3>2, TasksAre DEF Awaiting
    <3>. QED
      BY <2>1, <3>1, <3>3, OneWithdraws DEF SendsInv
  <2>. QED
    BY <2>2, <2>3
<1>9. WireInv'
  BY <1>1, <1>2, <1>4, WireKeeps DEF VoiceInv
<1>. QED
  BY <1>5, <1>7, <1>8, <1>9 DEF VoiceInv

(* tts_out_task is cancelled, from where it awaits. *)
LEMMA CancelView ==
  ASSUME TypeOK, CurrentInv, CancelOut
  PROVE  /\ drain' = Stopped(out.s) \/ drain' = drain
         /\ \/ /\ out.pc = "taken" /\ UNCHANGED <<out, state, drain>>
            \/ /\ out'.pc \in {"loop", "over"} /\ state'.current = 0
               /\ \A s \in Sentences : ~Tuned(s)'
<1>1. CASE out.pc = "waiting"
  <2>1. /\ drain' = Stopped(out.s) /\ out'.pc = "loop" /\ state'.current = 0
        /\ out.s \in Sentences
    BY <1>1 DEF CancelOut, OutGoes, TypeOK, CurrentInv
  <2>2. Stopped(out.s)[out.s].stop
    BY <2>1 DEF Stopped, TypeOK, Drain
  <2>3. \A s \in Sentences : Tuned(s)' => Tuned(s)
    BY <2>1, Hushed
  <2>4. \A s \in Sentences : ~Tuned(s)'
    BY <2>1, <2>2, <2>3 DEF Tuned, CurrentInv
  <2>. QED
    BY <2>1, <2>4
<1>2. CASE out.pc = "taken"
  BY <1>2 DEF CancelOut
<1>3. CASE out.pc = "erring"
  BY <1>3 DEF CancelOut, OutGoes, TypeOK, CurrentInv, Tuned
<1>4. CASE out.pc \notin {"waiting", "taken", "erring"}
  BY <1>4 DEF CancelOut, OutGoes, CurrentInv, Tuned
<1>. QED
  BY <1>1, <1>2, <1>3, <1>4

LEMMA CancelKeeps ==
  ASSUME TypeOK, VoiceInv, CancelOut,
         UNCHANGED <<deployment, queue, wire, adapter, history>>,
         client'.given = client.given,
         client'.closed \/ client'.closed = client.closed,
         \/ sends' = Without(TtsOut) /\ resetting' = resetting
         \/ sends' = Withdrawn(Without(TtsOut), Dispatcher) /\ ~resetting'
  PROVE  VoiceInv'
<1>0. CurrentInv
  BY DEF VoiceInv
<1>1. /\ drain' = Stopped(out.s) \/ drain' = drain
      /\ \/ /\ out.pc = "taken" /\ UNCHANGED <<out, state, drain>>
         \/ /\ out'.pc \in {"loop", "over"} /\ state'.current = 0
            /\ \A s \in Sentences : ~Tuned(s)'
  BY <1>0, CancelView
<1>2. /\ \A s \in Sentences : Begun(s)' <=> Begun(s)
      /\ \A s \in Sentences : Tuned(s)' => Tuned(s)
      /\ \A s \in Sentences : Early(s)' => Early(s)
      /\ \A s \in Sentences : Speaks(s)' => Speaks(s)
      /\ \A s \in Sentences : drain'[s].pc \in Sending => drain[s].pc \in Sending
      /\ {s \in Sentences : drain'[s].pc \in Sending}
            = {s \in Sentences : drain[s].pc \in Sending}
  BY <1>1, Hushed
<1>3. CurrentInv'
  BY <1>0, <1>1, <1>2, CurrentKeeps
<1>4. AbortInv'
  BY <1>1, <1>2, AbortKeeps DEF VoiceInv
<1>5. SendsInv'
  <2>1. out'.pc \notin EndingTurn
    BY <1>1 DEF EndingTurn
  <2>2. Orderly(Without(TtsOut), Awaiting \ {TtsOut})
    BY OneWithdraws DEF VoiceInv, SendsInv, Without
  <2>3. CASE sends' = Without(TtsOut) /\ resetting' = resetting
    <3>1. Awaiting' = Awaiting \ {TtsOut}
      BY <1>2, <2>1, <2>3, TasksAre DEF Awaiting
    <3>. QED
      BY <2>2, <2>3, <3>1 DEF SendsInv
  <2>4. CASE sends' = Withdrawn(Without(TtsOut), Dispatcher) /\ ~resetting'
    <3>1. Awaiting' = (Awaiting \ {TtsOut}) \ {Dispatcher}
      BY <1>2, <2>1, <2>4, TasksAre DEF Awaiting
    <3>. QED
      BY <2>2, <2>4, <3>1, OneWithdraws DEF SendsInv
  <2>. QED
    BY <2>3, <2>4
<1>6. WireInv'
  BY <1>2, WireKeeps DEF VoiceInv
<1>. QED
  BY <1>3, <1>4, <1>5, <1>6 DEF VoiceInv

(* A sentence begins: none before it is left that has not been stopped. *)
LEMMA BeginningKeeps ==
  ASSUME TypeOK, IInv, VoiceInv, NEW s \in Sentences, ~Begun(s),
         out.pc \in {"loop", "taken"},
         \A t \in Sentences : Begun(t) => t < s,
         \A i \in 1 .. Len(queue') : s < queue'[i],
         \A i \in 1 .. Len(queue') : \E j \in 1 .. Len(queue) : queue'[i] = queue[j],
         MayBegin(s),
         BeginSentence(s),
         UNCHANGED <<deployment, client, resetting, sends, wire, adapter, history>>
  PROVE  VoiceInv'
<1>0. drain \in [Sentences -> Drain] /\ s \in Int /\ \A t \in Sentences : t \in Int
  BY TasksAre DEF TypeOK
<1>1. \A t \in Sentences : ~Tuned(t)
  BY DEF VoiceInv, CurrentInv
<1>2. \A i \in 1 .. Len(queue') : history.aborted < queue'[i]
  BY DEF VoiceInv, AbortInv
<1>3. \A t \in Sentences : Begun(t) => \A i \in 1 .. Len(queue') : t < queue'[i]
  BY DEF VoiceInv, CurrentInv
<1>4. out'.pc \in {"loop", "waiting"}
  BY DEF BeginSentence, OutGoes
<1>5. CASE drain' = drain /\ out' = [pc |-> "loop", s |-> 0] /\ UNCHANGED state
  <2>1. CurrentInv'
    BY <1>3, <1>5 DEF VoiceInv, CurrentInv, Tuned, Begun
  <2>2. AbortInv'
    BY <1>2, <1>5 DEF VoiceInv, AbortInv, MayBegin, Early
  <2>3. SendsInv'
    BY <1>5, SendsKeeps DEF VoiceInv, EndingTurn
  <2>4. WireInv'
    BY <1>5, WireKeeps DEF VoiceInv, Begun, Speaks, Tuned
  <2>. QED
    BY <2>1, <2>2, <2>3, <2>4 DEF VoiceInv
<1>6. CASE /\ drain' = [drain EXCEPT ![s].pc = "waits"]
           /\ state' = [state EXCEPT !.current = s]
           /\ out' = [pc |-> "waiting", s |-> s]
  <2>1. /\ drain'[s].pc = "waits"
        /\ \A t \in Sentences \ {s} : drain'[t] = drain[t]
    BY <1>0, <1>6 DEF Drain
  <2>2. state'.current = s
    BY <1>6 DEF TypeOK
  <2>3. /\ \A t \in Sentences : Begun(t)' <=> (Begun(t) \/ t = s)
        /\ \A t \in Sentences : Tuned(t)' => t = s
        /\ \A t \in Sentences : Early(t)' => t = s
    BY <1>1, <2>1 DEF Begun, Tuned, Early, Unfinished
  <2>4. /\ \A t \in Sentences : Speaks(t)' => Speaks(t)
        /\ \A t \in Sentences : drain'[t].pc \in Sending <=> drain[t].pc \in Sending
    BY <1>1, <2>1 DEF Speaks, Tuned, Sending, Begun
  <2>5. CurrentInv'
    <3>1. \A t \in Sentences : Begun(t)' => \A i \in 1 .. Len(queue') : t < queue'[i]
      BY <1>3, <2>3
    <3>2. \A t \in Sentences : Begun(t)' => t <= s
      BY <1>0, <2>3
    <3>3. Begun(s)'
      BY <2>3
    <3>. QED
      BY <1>6, <2>2, <2>3, <3>1, <3>2, <3>3 DEF CurrentInv
  <2>6. AbortInv'
    BY <1>2, <1>6, <2>3 DEF VoiceInv, AbortInv, MayBegin
  <2>7. SendsInv'
    BY <1>6, <2>4, SendsKeeps DEF VoiceInv, EndingTurn
  <2>8. WireInv'
    <3>1. \A r \in 1 .. Len(wire) : wire[r].said \subseteq Sentences
      BY Responses DEF Response
    <3>2. ~client.closed =>
            \A t \in Sentences : Speaks(t)' =>
               adapter.active # 0 /\ t \in wire[adapter.active].said
      BY <2>4 DEF VoiceInv, WireInv
    <3>3. SentInItsResponse'
      BY DEF VoiceInv, WireInv, SentInItsResponse
    <3>4. \A r \in 1 .. Len(wire) : \A t \in wire[r].said :
            /\ Begun(t)'
            /\ \A u \in Sentences : drain'[u].pc \in Sending => t <= u
      BY <2>3, <2>4, <3>1 DEF VoiceInv, WireInv
    <3>. QED
      BY <3>2, <3>3, <3>4 DEF WireInv
  <2>. QED
    BY <2>5, <2>6, <2>7, <2>8 DEF VoiceInv
<1>. QED
  BY <1>5, <1>6 DEF BeginSentence, OutGoes

(* tts_done ends the response: everything that was to be said in it is out. *)
LEMMA DoneKeeps ==
  ASSUME TypeOK, VoiceInv, NEW b \in BOOLEAN, SayDone(b), Sent(TtsOut),
         out.pc \in {"turnDone", "sessionDone"}, out'.pc \in {"loop", "over"},
         UNCHANGED <<deployment, client, queue, state, resetting, drain, history>>
  PROVE  VoiceInv'
<1>1. sends # <<>> /\ Head(sends) = TtsOut /\ sends' = Tail(sends)
  BY DEF Sent, AtHead
<1>2. \A s \in Sentences : ~Tuned(s)
  BY DEF VoiceInv, CurrentInv
<1>3. \A s \in Sentences : drain[s].pc \notin Sending
  <2>. SUFFICES ASSUME NEW s \in Sentences, drain[s].pc \in Sending PROVE FALSE
    OBVIOUS
  <2>1. s \in Awaiting \cap Sentences
    BY DEF Awaiting
  <2>. QED
    BY <1>1, <2>1, FirstLeaves DEF VoiceInv, SendsInv
<1>4. \A s \in Sentences : ~Speaks(s)
  BY <1>2, <1>3 DEF Speaks, Sending
<1>5. CurrentInv'
  BY <1>2, CurrentKeeps DEF VoiceInv, CurrentInv, Begun, Tuned
<1>6. AbortInv'
  BY AbortKeeps DEF VoiceInv, Early
<1>7. SendsInv'
  <2>1. Awaiting' = Awaiting \ {TtsOut}
    BY TasksAre DEF Awaiting, EndingTurn
  <2>. QED
    BY <1>1, <2>1, FirstLeaves DEF VoiceInv, SendsInv
<1>8. WireInv'
  <2>1. CASE UNCHANGED wireVars
    BY <2>1, WireKeeps DEF VoiceInv, wireVars, Begun, Speaks, Tuned
  <2>2. CASE ~UNCHANGED wireVars
    <3>. DEFINE w == Created.wire  a == Created.active
    <3>1. /\ w \in Seq(Response) /\ a \in 1 .. Len(w)
          /\ \A r \in 1 .. Len(w) : w[r] \in Response
      BY CreatedShape, Responses
    <3>2. wire' = [w EXCEPT ![a].status = Created.status]
      BY <2>2 DEF SayDone
    <3>3. \A r \in 1 .. Len(w) :
             (r \in 1 .. Len(wire) /\ w[r] = wire[r]) \/ (w[r].said = {} /\ w[r].pcm = {})
      BY CreatedResponses, Responses
    <3>. HIDE DEF w, a
    <3>4. /\ Len(wire') = Len(w)
          /\ \A r \in 1 .. Len(w) : wire'[r].said = w[r].said /\ wire'[r].pcm = w[r].pcm
      BY <3>1, <3>2 DEF Response
    <3>5. SentInItsResponse'
      BY <3>3, <3>4 DEF VoiceInv, WireInv, SentInItsResponse
    <3>6. \A r \in 1 .. Len(wire') : \A t \in wire'[r].said :
            /\ Begun(t)'
            /\ \A s \in Sentences : drain'[s].pc \in Sending => t <= s
      BY <1>3, <3>3, <3>4 DEF VoiceInv, WireInv, Begun
    <3>7. \A s \in Sentences : ~Speaks(s)'
      BY <1>4 DEF Speaks, Tuned
    <3>. QED
      BY <3>5, <3>6, <3>7 DEF WireInv
  <2>. QED
    BY <2>1, <2>2
<1>. QED
  BY <1>5, <1>6, <1>7, <1>8 DEF VoiceInv

(* tts_out_task leaves its wait, or its loop; no drain changes its stage.  *)
LEMMA OutMovesKeeps ==
  ASSUME TypeOK, VoiceInv,
         out'.pc \notin {"waiting", "erring", "taken"}, state'.current = 0,
         \A s \in Sentences : ~Tuned(s),
         \/ UNCHANGED sends /\ (out'.pc \in EndingTurn <=> out.pc \in EndingTurn)
         \/ out.pc \notin EndingTurn /\ out'.pc \in EndingTurn /\ SendAs(TtsOut)
         \/ out.pc \in EndingTurn /\ out'.pc \notin EndingTurn /\ Sent(TtsOut),
         UNCHANGED <<deployment, client, queue, resetting, drain, wire, adapter, history>>
  PROVE  VoiceInv'
<1>1. CurrentInv'
  BY CurrentKeeps DEF VoiceInv, Begun, Tuned
<1>2. AbortInv'
  BY AbortKeeps DEF VoiceInv, Early
<1>3. WireInv'
  BY WireKeeps DEF VoiceInv, Begun, Speaks, Tuned
<1>4. SendsInv'
  <2>1. CASE UNCHANGED sends /\ (out'.pc \in EndingTurn <=> out.pc \in EndingTurn)
    BY <2>1, SendsKeeps DEF VoiceInv
  <2>2. CASE out.pc \notin EndingTurn /\ out'.pc \in EndingTurn /\ SendAs(TtsOut)
    <3>1. Awaiting' = Awaiting \cup {TtsOut} /\ TtsOut \notin Awaiting
      BY <2>2, TasksAre DEF Awaiting
    <3>. QED
      BY <2>2, <3>1, LastJoins, TasksAre DEF VoiceInv, SendsInv, SendAs, Tasks
  <2>3. CASE out.pc \in EndingTurn /\ out'.pc \notin EndingTurn /\ Sent(TtsOut)
    <3>1. Awaiting' = Awaiting \ {TtsOut}
      BY <2>3, TasksAre DEF Awaiting
    <3>. QED
      BY <2>3, <3>1, FirstLeaves DEF VoiceInv, SendsInv, Sent, AtHead
  <2>. QED
    BY <2>1, <2>2, <2>3
<1>. QED
  BY <1>1, <1>2, <1>3, <1>4 DEF VoiceInv

(* The deadline: the sentence is stopped, and reported unless nobody listens. *)
LEMMA ExpiryKeeps ==
  ASSUME TypeOK, VoiceInv, SentenceExpires
  PROVE  VoiceInv'
<1>1. /\ out.pc = "waiting" /\ drain' = Stopped(out.s) /\ out.s \in Sentences
      /\ UNCHANGED <<deployment, client, queue, resetting, wire, adapter, history>>
      /\ \/ /\ out' = [pc |-> "loop", s |-> 0] /\ state' = [state EXCEPT !.current = 0]
            /\ UNCHANGED sends
         \/ out' = [pc |-> "erring", s |-> out.s] /\ SendAs(TtsOut) /\ UNCHANGED state
  BY DEF SentenceExpires, OutGoes, VoiceInv, CurrentInv, sideVars, wireVars
<1>2. /\ \A s \in Sentences : Begun(s)' <=> Begun(s)
      /\ \A s \in Sentences : Tuned(s)' => Tuned(s)
      /\ \A s \in Sentences : Early(s)' => Early(s)
      /\ \A s \in Sentences : Speaks(s)' => Speaks(s)
      /\ \A s \in Sentences : drain'[s].pc \in Sending => drain[s].pc \in Sending
      /\ {s \in Sentences : drain'[s].pc \in Sending}
            = {s \in Sentences : drain[s].pc \in Sending}
  BY <1>1, Hushed
<1>3. Stopped(out.s)[out.s].stop
  BY <1>1 DEF Stopped, TypeOK, Drain
<1>4. \A s \in Sentences : ~Tuned(s)'
  BY <1>1, <1>2, <1>3 DEF Tuned, VoiceInv, CurrentInv
<1>5. state'.current = IF out'.pc = "erring" THEN state.current ELSE 0
  BY SMTT(30), <1>1 DEF TypeOK
<1>6. CurrentInv'
  BY <1>1, <1>2, <1>4, <1>5, CurrentKeeps DEF VoiceInv
<1>7. AbortInv'
  BY <1>1, <1>2, AbortKeeps DEF VoiceInv
<1>8. SendsInv'
  <2>1. CASE UNCHANGED sends /\ out'.pc = "loop"
    <3>1. Awaiting' = Awaiting
      BY <1>1, <1>2, <2>1 DEF Awaiting, EndingTurn
    <3>. QED
      BY <2>1, <3>1 DEF VoiceInv, SendsInv
  <2>2. CASE SendAs(TtsOut) /\ out'.pc = "erring"
    <3>1. Awaiting' = Awaiting \cup {TtsOut} /\ TtsOut \notin Awaiting
      BY <1>1, <1>2, <2>2, TasksAre DEF Awaiting, EndingTurn
    <3>. QED
      BY <2>2, <3>1, LastJoins, TasksAre DEF VoiceInv, SendsInv, SendAs, Tasks
  <2>. QED
    BY <1>1, <2>1, <2>2
<1>9. WireInv'
  BY <1>1, <1>2, WireKeeps DEF VoiceInv
<1>. QED
  BY <1>6, <1>7, <1>8, <1>9 DEF VoiceInv

LEMMA TtsOutVoice ==
  ASSUME TypeOK, IInv, VoiceInv, TtsOutStep
  PROVE  VoiceInv'
<1>. USE DEF sideVars, wireVars
<1>0. /\ out.pc # "waiting" => \A s \in Sentences : ~Tuned(s)
      /\ out.pc \notin {"waiting", "erring"} => state.current = 0
  BY DEF VoiceInv, CurrentInv
<1>1. CASE LoopExits
  <2>1. /\ out.pc = "loop" /\ out'.pc = "over"
        /\ UNCHANGED <<deployment, client, queue, state, resetting, drain, sends, wire,
                       adapter, history>>
    BY <1>1 DEF LoopExits, OutGoes
  <2>. QED
    BY <1>0, <2>1, OutMovesKeeps DEF EndingTurn
<1>2. CASE EndTurn
  <2>1. /\ out.pc = "loop" /\ out'.pc \in {"turnDone", "sessionDone"} /\ SendAs(TtsOut)
        /\ state'.current = state.current
        /\ UNCHANGED <<deployment, client, queue, resetting, drain, wire, adapter, history>>
    BY SMTT(30), <1>2 DEF EndTurn, OutGoes, TypeOK
  <2>. QED
    BY <1>0, <2>1, OutMovesKeeps DEF EndingTurn
<1>3. CASE TurnDoneSent
  BY <1>3, DoneKeeps DEF TurnDoneSent, OutGoes
<1>4. CASE SessionDoneSent
  <2>1. deployment.multi \in BOOLEAN
    BY BoundsAssumption DEF TypeOK
  <2>. QED
    BY <1>4, <2>1, DoneKeeps DEF SessionDoneSent, OutGoes
<1>5. CASE SentenceOver
  <2>1. /\ out.pc = "waiting" /\ drain[out.s].pc = "gone" /\ out'.pc = "loop"
        /\ state'.current = 0
        /\ UNCHANGED <<deployment, client, queue, resetting, drain, sends, wire, adapter,
                       history>>
    BY <1>5 DEF SentenceOver, OutGoes, TypeOK
  <2>2. \A s \in Sentences : ~Tuned(s)
    BY <2>1 DEF VoiceInv, CurrentInv, Tuned, Unfinished
  <2>. QED
    BY <2>1, <2>2, OutMovesKeeps DEF EndingTurn
<1>6. CASE ExpiryReported
  <2>1. /\ out.pc = "erring" /\ Sent(TtsOut) /\ out'.pc = "loop" /\ state'.current = 0
        /\ UNCHANGED <<deployment, client, queue, resetting, drain, wire, adapter, history>>
    BY <1>6 DEF ExpiryReported, OutGoes, TypeOK
  <2>. QED
    BY <1>0, <2>1, OutMovesKeeps DEF EndingTurn
<1>7. CASE SentenceExpires
  BY <1>7, ExpiryKeeps
<1>8. CASE SentenceTaken
  <2>1. /\ out.pc = "taken" /\ BeginSentence(out.s)
        /\ UNCHANGED <<deployment, client, queue, resetting, sends, wire, adapter, history>>
    BY <1>8 DEF SentenceTaken
  <2>2. out.s \in Sentences /\ ~Begun(out.s)
    BY <2>1 DEF IInv, Fresh, Begun
  <2>3. \A t \in Sentences : Begun(t) => t < out.s
    BY <2>1 DEF VoiceInv, CurrentInv
  <2>4. MayBegin(out.s)
    BY <2>1 DEF VoiceInv, AbortInv
  <2>5. \A i \in 1 .. Len(queue) : out.s < queue[i]
    BY <2>1 DEF IInv, Fresh
  <2>. QED
    BY <2>1, <2>2, <2>3, <2>4, <2>5, BeginningKeeps
<1>9. CASE TakeSentence
  <2>. DEFINE h == Head(queue)
  <2>1. /\ out.pc = "loop" /\ queue # <<>> /\ queue' = Tail(queue)
        /\ UNCHANGED <<deployment, client, resetting, sends, wire, adapter, history>>
    BY <1>9 DEF TakeSentence
  <2>2. /\ h \in Sentences /\ ~Begun(h)
        /\ queue \in Seq(Sentences) /\ Len(queue) \in Nat /\ Len(queue) > 0 /\ h = queue[1]
        /\ Len(queue') = Len(queue) - 1
        /\ \A i \in 1 .. Len(queue') : queue'[i] = queue[i + 1]
    BY SMTT(30), <2>1, Taking DEF TypeOK, Begun
  <2>3. /\ 1 \in 1 .. Len(queue)
        /\ \A i \in 1 .. Len(queue') : i + 1 \in 1 .. Len(queue) /\ 1 < i + 1
    BY <2>2
  <2>4. \A i \in 1 .. Len(queue') : h < queue'[i]
    BY <2>2, <2>3 DEF IInv, Fresh
  <2>5. \A i \in 1 .. Len(queue') : \E j \in 1 .. Len(queue) : queue'[i] = queue[j]
    BY <2>2, <2>3
  <2>6. \A t \in Sentences : Begun(t) => t < h
    BY <2>2, <2>3 DEF VoiceInv, CurrentInv
  <2>7. MayBegin(h)
    <3>1. history.aborted < h
      BY <2>2, <2>3 DEF VoiceInv, AbortInv
    <3>. HIDE DEF h
    <3>2. h \in Int /\ history.aborted \in Int
      <4>1. h \in Int
        BY <2>2, TasksAre
      <4>2. history.aborted \in 0 .. MaxSentences
        BY DEF TypeOK
      <4>. QED
        BY <4>1, <4>2
    <3>3. h > history.aborted
      BY <3>1, <3>2
    <3>. QED
      BY <3>3 DEF MayBegin
  <2>8. CASE ~deployment.spawns
    <3>1. BeginSentence(h)
      BY <1>9, <2>8 DEF TakeSentence
    <3>. HIDE DEF h
    <3>. QED
      BY <2>1, <2>2, <2>4, <2>5, <2>6, <2>7, <3>1, BeginningKeeps
  <2>9. CASE deployment.spawns
    <3>1. out' = [pc |-> "taken", s |-> h] /\ UNCHANGED <<drain, state>>
      BY <1>9, <2>9 DEF TakeSentence, OutGoes
    <3>2. CurrentInv'
      <4>1. \A t \in Sentences : Begun(t) => \A i \in 1 .. Len(queue') : t < queue'[i]
        BY <2>5 DEF VoiceInv, CurrentInv
      <4>. HIDE DEF h
      <4>. QED
        BY <1>0, <2>1, <2>6, <3>1, <4>1 DEF CurrentInv, Begun, Tuned
    <3>3. AbortInv'
      <4>1. \A i \in 1 .. Len(queue') : history.aborted < queue'[i]
        BY <2>5 DEF VoiceInv, AbortInv
      <4>2. \A t \in Sentences : Early(t)' => Early(t)
        BY <3>1 DEF Early
      <4>. HIDE DEF h
      <4>. QED
        BY <2>1, <2>7, <2>9, <3>1, <4>1, <4>2 DEF VoiceInv, AbortInv, MayBegin
    <3>4. SendsInv'
      BY <2>1, <3>1, SendsKeeps DEF VoiceInv, EndingTurn
    <3>5. WireInv'
      BY <2>1, <3>1, WireKeeps DEF VoiceInv, Begun, Speaks, Tuned
    <3>. QED
      BY <3>2, <3>3, <3>4, <3>5 DEF VoiceInv
  <2>. QED
    BY <2>8, <2>9
<1>. QED
  BY <1>1, <1>2, <1>3, <1>4, <1>5, <1>6, <1>7, <1>8, <1>9 DEF TtsOutStep

(* A drain's step: who starts to send has not been stopped, so it is last.  *)
LEMMA StageKeeps ==
  ASSUME TypeOK, VoiceInv, NEW s \in Sentences, Begun(s), Begun(s)',
         \A t \in Sentences \ {s} : drain'[t] = drain[t],
         drain[s].stop => drain'[s].stop,
         drain'[s].pc \in Unfinished /\ ~drain'[s].stop => drain[s].pc \in Unfinished,
         drain'[s].pc \in {"waits", "header", "started"}
            => drain[s].pc \in {"waits", "header", "started"},
         \/ UNCHANGED sends /\ (drain'[s].pc \in Sending <=> drain[s].pc \in Sending)
         \/ SendAs(s) /\ drain'[s].pc \in Sending /\ drain[s].pc \notin Sending /\ Tuned(s)
         \/ Sent(s) /\ drain'[s].pc \notin Sending
         \/ SentThenAs(s) /\ drain'[s].pc \in Sending /\ Tuned(s),
         UNCHANGED <<deployment, client, queue, state, out, resetting>>,
         history'.aborted = history.aborted, history'.slipped = history.slipped
  PROVE  /\ CurrentInv' /\ AbortInv' /\ SendsInv'
         /\ /\ UNCHANGED <<wire, adapter, history>>
            /\ Speaks(s)' => Speaks(s)
            => WireInv'
<1>1. /\ \A t \in Sentences : Begun(t)' <=> Begun(t)
      /\ \A t \in Sentences : Tuned(t)' => Tuned(t)
      /\ \A t \in Sentences : Early(t)' => Early(t)
  BY DEF Begun, Tuned, Early
<1>2. Tuned(s) => /\ out.pc \notin EndingTurn
                  /\ \A t \in Sentences : Begun(t) => t <= s
  BY DEF VoiceInv, CurrentInv, EndingTurn
<1>3. CurrentInv'
  BY <1>1, CurrentKeeps DEF VoiceInv
<1>4. AbortInv'
  BY <1>1, AbortKeeps DEF VoiceInv
<1>5. s \in Tasks /\ s \in Int /\ \A t \in Sentences : t \in Int
  BY TasksAre DEF Tasks
<1>6. \A A \in {Awaiting, Awaiting \ {s}} : Tuned(s) /\ s \notin A =>
         TtsOut \notin A /\ \A t \in A \cap Sentences : t < s
  BY <1>2, <1>5, TasksAre DEF Awaiting, Begun, Sending
<1>7. SendsInv'
  <2>1. CASE UNCHANGED sends /\ (drain'[s].pc \in Sending <=> drain[s].pc \in Sending)
    BY <2>1, SendsKeeps DEF VoiceInv
  <2>2. CASE SendAs(s) /\ drain'[s].pc \in Sending /\ drain[s].pc \notin Sending /\ Tuned(s)
    <3>1. Awaiting' = Awaiting \cup {s} /\ s \notin Awaiting
      BY <2>2, TasksAre DEF Awaiting
    <3>. QED
      BY <1>5, <1>6, <2>2, <3>1, LastJoins DEF VoiceInv, SendsInv, SendAs
  <2>3. CASE Sent(s) /\ drain'[s].pc \notin Sending
    <3>1. Awaiting' = Awaiting \ {s}
      BY <2>3, TasksAre DEF Awaiting
    <3>. QED
      BY <2>3, <3>1, FirstLeaves DEF VoiceInv, SendsInv, Sent, AtHead
  <2>4. CASE SentThenAs(s) /\ drain'[s].pc \in Sending /\ Tuned(s)
    <3>1. sends # <<>> /\ Head(sends) = s /\ sends' = Append(Tail(sends), s)
      BY <2>4 DEF SentThenAs, AtHead
    <3>2. s \in Awaiting /\ Orderly(Tail(sends), Awaiting \ {s})
      BY <3>1, FirstLeaves DEF VoiceInv, SendsInv
    <3>3. Awaiting' = (Awaiting \ {s}) \cup {s}
      <4>1. drain[s].pc \in Sending
        BY <3>2, TasksAre DEF Awaiting
      <4>2. Awaiting' = Awaiting
        BY <2>4, <4>1 DEF Awaiting
      <4>. QED
        BY <3>2, <4>2
    <3>. QED
      BY <1>5, <1>6, <2>4, <3>1, <3>2, <3>3, LastJoins DEF SendsInv
  <2>. QED
    BY <2>1, <2>2, <2>3, <2>4
<1>8. ASSUME UNCHANGED <<wire, adapter, history>>, Speaks(s)' => Speaks(s)
      PROVE  WireInv'
  <2>1. \A t \in Sentences : Speaks(t)' => Speaks(t)
    BY <1>8 DEF Speaks, Tuned
  <2>2. \A t \in Sentences : drain'[t].pc \in Sending =>
           drain[t].pc \in Sending \/ \A u \in Sentences : Begun(u) => u <= t
    BY <1>2
  <2>. QED
    BY <1>1, <1>8, <2>1, <2>2, WireKeeps DEF VoiceInv
<1>. QED
  BY <1>3, <1>4, <1>7, <1>8

(* A drain's stage after its step. *)
LEMMA StageView ==
  ASSUME TypeOK, NEW s \in Sentences, NEW p, DrainGoes(s, p)
  PROVE  /\ drain'[s].pc = p /\ drain'[s].stop = drain[s].stop
         /\ \A t \in Sentences \ {s} : drain'[t] = drain[t]
<1>1. drain \in [Sentences -> Drain] /\ drain[s] \in Drain
  BY DEF TypeOK
<1>. QED
  BY <1>1 DEF DrainGoes, Drain

(* Steps of a drain in which nothing reaches the client. *)
LEMMA QuietStep ==
  ASSUME TypeOK, VoiceInv, NEW s \in Sentences,
         \/ GetLease(s) \/ HeaderOut(s) \/ TakeChunk(s) \/ TakeEnd(s) \/ ChunkTimesOut(s)
         \/ ErrorOut(s) \/ CloseDrain(s)
  PROVE  VoiceInv'
<1>. USE DEF sideVars, wireVars
<1>0. drain \in [Sentences -> Drain] /\ drain[s] \in Drain
  BY DEF TypeOK
<1>1. UNCHANGED <<deployment, client, queue, state, out, resetting, wire, adapter, history>>
  BY DEF GetLease, HeaderOut, TakeChunk, TakeEnd, ChunkTimesOut, ErrorOut, CloseDrain
<1>. USE DEF Begun, Tuned, Speaks, Sending, Unfinished
<1>2. CASE GetLease(s)
  <2>1. CASE DrainGoes(s, "closing") /\ UNCHANGED sends
    BY <1>1, <1>2, <2>1, StageView, StageKeeps DEF GetLease, VoiceInv
  <2>2. CASE ~drain[s].stop /\ \E p \in {"started", "header"} : DrainGoes(s, p) /\ SendAs(s)
    BY <1>1, <1>2, <2>2, StageView, StageKeeps DEF GetLease, VoiceInv
  <2>. QED
    BY <1>2, <2>1, <2>2 DEF GetLease
<1>3. CASE HeaderOut(s)
  <2>1. CASE drain[s].stop
    <3>1. DrainGoes(s, "closing") /\ Sent(s) /\ drain[s].pc = "header"
      BY <1>3, <2>1 DEF HeaderOut, AfterHeader, Sent
    <3>. QED
      BY <1>1, <2>1, <3>1, StageView, StageKeeps DEF VoiceInv
  <2>2. CASE ~drain[s].stop
    <3>1. DrainGoes(s, "started") /\ SentThenAs(s) /\ drain[s].pc = "header"
      BY <1>3, <2>2 DEF HeaderOut, AfterHeader, SentThenAs
    <3>. QED
      BY <1>1, <2>2, <3>1, StageView, StageKeeps DEF VoiceInv
  <2>. QED
    BY <2>1, <2>2
<1>4. CASE TakeChunk(s)
  <2>1. CASE DrainGoes(s, "closing") /\ UNCHANGED sends
    BY <1>1, <1>4, <2>1, StageView, StageKeeps DEF TakeChunk, VoiceInv
  <2>2. CASE /\ ~drain[s].stop /\ SendAs(s)
             /\ drain' = [drain EXCEPT ![s].pc = "audio", ![s].chunks = @ - 1]
    <3>1. /\ drain'[s].pc = "audio" /\ drain'[s].stop = drain[s].stop
          /\ \A t \in Sentences \ {s} : drain'[t] = drain[t]
      BY <1>0, <2>2 DEF Drain
    <3>. QED
      BY <1>1, <1>4, <2>2, <3>1, StageKeeps DEF TakeChunk, VoiceInv
  <2>. QED
    BY <1>4, <2>1, <2>2 DEF TakeChunk, StopSeen
<1>5. CASE TakeEnd(s)
  <2>1. CASE DrainGoes(s, "closing") /\ UNCHANGED sends
    BY <1>1, <1>5, <2>1, StageView, StageKeeps DEF TakeEnd, VoiceInv
  <2>2. CASE ~drain[s].stop /\ \E p \in {"ending", "error"} : DrainGoes(s, p) /\ SendAs(s)
    BY <1>1, <1>5, <2>2, StageView, StageKeeps DEF TakeEnd, VoiceInv
  <2>. QED
    BY <1>5, <2>1, <2>2 DEF TakeEnd
<1>6. CASE ChunkTimesOut(s)
  <2>1. CASE DrainGoes(s, "closing") /\ UNCHANGED sends
    BY <1>1, <1>6, <2>1, StageView, StageKeeps DEF ChunkTimesOut, VoiceInv
  <2>2. CASE /\ ~drain[s].stop /\ SendAs(s)
             /\ drain' = [drain EXCEPT ![s].stop = TRUE, ![s].pc = "error"]
    <3>1. /\ drain'[s].pc = "error" /\ drain'[s].stop
          /\ \A t \in Sentences \ {s} : drain'[t] = drain[t]
      BY <1>0, <2>2 DEF Drain
    <3>. QED
      BY <1>1, <1>6, <2>2, <3>1, StageKeeps DEF ChunkTimesOut, VoiceInv
  <2>. QED
    BY <1>6, <2>1, <2>2 DEF ChunkTimesOut
<1>7. CASE ErrorOut(s)
  <2>1. CASE DrainGoes(s, "closing") /\ Sent(s)
    BY <1>1, <1>7, <2>1, StageView, StageKeeps DEF ErrorOut, VoiceInv
  <2>2. CASE ~drain[s].stop /\ DrainGoes(s, "ending") /\ SentThenAs(s)
    BY <1>1, <1>7, <2>2, StageView, StageKeeps DEF ErrorOut, VoiceInv
  <2>. QED
    BY <1>7, <2>1, <2>2 DEF ErrorOut
<1>8. CASE CloseDrain(s)
  <2>1. DrainGoes(s, "gone") /\ UNCHANGED sends /\ drain[s].pc = "closing"
    BY <1>8 DEF CloseDrain
  <2>. QED
    BY <1>1, <2>1, StageView, StageKeeps DEF VoiceInv
<1>. QED
  BY <1>2, <1>3, <1>4, <1>5, <1>6, <1>7, <1>8

(* tts_started: the sentence is announced in the response it will speak in. *)
LEMMA StartingKeeps ==
  ASSUME TypeOK, VoiceInv, NEW s \in Sentences, StartedOut(s)
  PROVE  VoiceInv'
<1>. USE DEF sideVars, Begun, Tuned, Sending, Unfinished
<1>0. drain \in [Sentences -> Drain] /\ drain[s] \in Drain
  BY DEF TypeOK
<1>1. /\ drain[s].pc = "started" /\ Sent(s) /\ SayStarted(s)
      /\ UNCHANGED <<deployment, client, queue, state, out, resetting, history>>
  BY DEF StartedOut
<1>2. /\ drain'[s].stop = drain[s].stop
      /\ drain'[s].pc = IF drain[s].stop THEN "closing" ELSE "speaking"
      /\ \A t \in Sentences \ {s} : drain'[t] = drain[t]
  <2>1. CASE drain[s].stop
    <3>1. DrainGoes(s, "closing")
      BY <2>1 DEF StartedOut
    <3>. QED
      BY <2>1, <3>1, StageView
  <2>2. CASE ~drain[s].stop
    <3>1. drain' = [drain EXCEPT ![s].pc = "speaking", ![s].worker = "running"]
      BY <2>2 DEF StartedOut
    <3>. QED
      BY <1>0, <2>2, <3>1 DEF Drain
  <2>. QED
    BY <2>1, <2>2
<1>3. CurrentInv' /\ AbortInv' /\ SendsInv'
  BY <1>1, <1>2, StageKeeps
<1>4. \A t \in Sentences : Begun(t)' <=> Begun(t)
  BY <1>1, <1>2
<1>5. \A t \in Sentences : Speaks(t)' => t = s \/ Speaks(t)
  BY <1>2 DEF Speaks
<1>6. \A t \in Sentences : drain'[t].pc \in Sending => drain[t].pc \in Sending /\ s <= t
  <2>1. sends # <<>> /\ Head(sends) = s
    BY <1>1 DEF Sent, AtHead
  <2>2. \A t \in Awaiting \cap Sentences : s <= t
    BY <2>1, FirstLeaves DEF VoiceInv, SendsInv
  <2>. QED
    BY <1>2, <2>2 DEF Awaiting
<1>7. \A r \in 1 .. Len(wire) : wire[r].said \subseteq Sentences
  BY Responses DEF Response
<1>8. CASE client.closed
  <2>1. UNCHANGED wireVars /\ client'.closed
    BY <1>1, <1>8 DEF SayStarted
  <2>. QED
    BY <1>1, <1>3, <1>4, <1>6, <1>7, <2>1
       DEF VoiceInv, WireInv, SentInItsResponse, wireVars
<1>9. CASE ~client.closed
  <2>. DEFINE w == Created.wire  a == Created.active
  <2>1. /\ w \in Seq(Response) /\ a \in 1 .. Len(w)
        /\ \A r \in 1 .. Len(w) : w[r] \in Response
    BY CreatedShape, Responses
  <2>2. adapter'.active = a /\ wire' = [w EXCEPT ![a].said = @ \cup {s}] /\ a # 0
    BY <1>1, <1>9, <2>1 DEF SayStarted
  <2>3. /\ \A r \in 1 .. Len(w) :
              (r \in 1 .. Len(wire) /\ w[r] = wire[r]) \/ (w[r].said = {} /\ w[r].pcm = {})
        /\ adapter.active # 0 => a = adapter.active /\ w = wire
    BY CreatedResponses, Responses
  <2>. HIDE DEF w, a
  <2>4. /\ Len(wire') = Len(w)
        /\ \A r \in 1 .. Len(w) :
              /\ wire'[r].said = IF r = a THEN w[r].said \cup {s} ELSE w[r].said
              /\ wire'[r].pcm = w[r].pcm
    <3>. DEFINE more == w[a].said \cup {s}
                e == [w[a] EXCEPT !.said = more]
    <3>1. w[a] \in Response
      BY <2>1
    <3>2. e.said = more /\ e.pcm = w[a].pcm
      BY <3>1 DEF Response
    <3>3. wire' = [w EXCEPT ![a] = e]
      BY <2>2
    <3>. HIDE DEF e
    <3>4. /\ Len(wire') = Len(w)
          /\ \A r \in 1 .. Len(w) : wire'[r] = IF r = a THEN e ELSE w[r]
      BY <2>1, <3>3
    <3>. QED
      BY <3>2, <3>4
  <2>5. SentInItsResponse'
    <3>1. \A r \in 1 .. Len(w) : wire'[r].pcm \subseteq wire'[r].said
      <4>1. \A r \in 1 .. Len(wire) : wire[r].pcm \subseteq wire[r].said
        BY DEF VoiceInv, WireInv, SentInItsResponse
      <4>2. \A r \in 1 .. Len(w) : w[r].pcm \subseteq w[r].said
        BY <2>3, <4>1
      <4>. QED
        BY <2>4, <4>2
    <3>. QED
      BY <1>1, <2>4, <3>1 DEF VoiceInv, WireInv, SentInItsResponse
  <2>6. \A t \in Sentences : Speaks(t)' => t \in wire'[a].said
    BY <1>5, <1>9, <2>1, <2>3, <2>4 DEF VoiceInv, WireInv
  <2>7. ASSUME NEW r \in 1 .. Len(w), NEW t \in wire'[r].said
        PROVE  Begun(t)' /\ \A u \in Sentences : drain'[u].pc \in Sending => t <= u
    <3>1. CASE t = s
      BY <1>1, <1>4, <1>6, <3>1
    <3>2. CASE t # s
      <4>1. t \in w[r].said
        BY <2>4, <3>2
      <4>2. r \in 1 .. Len(wire) /\ t \in wire[r].said
        BY <2>3, <4>1
      <4>. QED
        BY <1>4, <1>6, <1>7, <4>2 DEF VoiceInv, WireInv
    <3>. QED
      BY <3>1, <3>2
  <2>8. WireInv'
    BY <2>2, <2>4, <2>5, <2>6, <2>7 DEF WireInv
  <2>. QED
    BY <1>3, <2>8 DEF VoiceInv
<1>. QED
  BY <1>8, <1>9

(* Audio and tts_sentence_done find the response open that announced them. *)
LEMMA SayingKeeps ==
  ASSUME TypeOK, VoiceInv, NEW s \in Sentences, AudioOut(s) \/ SentenceDoneOut(s)
  PROVE  VoiceInv'
<1>. USE DEF sideVars, Begun, Tuned, Sending, Unfinished
<1>1. /\ drain[s].pc \in {"audio", "ending"} /\ Sent(s) /\ SayMore(s)
      /\ UNCHANGED <<deployment, client, queue, state, out, resetting, adapter>>
  BY DEF AudioOut, SentenceDoneOut
<1>2. PICK p \in {"speaking", "closing"} : DrainGoes(s, p)
  BY DEF AudioOut, SentenceDoneOut
<1>3. /\ drain'[s].stop = drain[s].stop /\ drain'[s].pc = p
      /\ \A t \in Sentences \ {s} : drain'[t] = drain[t]
  BY <1>2, StageView
<1>4. ~client.closed => adapter.active # 0 /\ s \in wire[adapter.active].said
  BY <1>1 DEF VoiceInv, WireInv, Speaks
<1>5. UNCHANGED history
  BY <1>1, <1>4 DEF SayMore
<1>6. CurrentInv' /\ AbortInv' /\ SendsInv'
  BY <1>1, <1>3, <1>5, StageKeeps
<1>7. /\ \A t \in Sentences : Begun(t)' <=> Begun(t)
      /\ \A t \in Sentences : Speaks(t)' => Speaks(t)
      /\ \A t \in Sentences : drain'[t].pc \in Sending => drain[t].pc \in Sending
  BY <1>1, <1>3 DEF Speaks
<1>8. /\ Len(wire') = Len(wire)
      /\ \A r \in 1 .. Len(wire) :
            wire'[r].said = wire[r].said /\ wire'[r].pcm \subseteq wire'[r].said
  <2>1. CASE client.closed
    BY <1>1, <2>1 DEF SayMore, VoiceInv, WireInv, SentInItsResponse
  <2>2. CASE ~client.closed
    <3>. DEFINE a == adapter.active
    <3>1. /\ wire \in Seq(Response) /\ a \in 1 .. Len(wire)
          /\ \A r \in 1 .. Len(wire) : wire[r] \in Response
      BY <1>4, <2>2, Responses DEF WireType
    <3>2. wire' = [wire EXCEPT ![a].pcm = @ \cup {s}]
      BY <1>1, <1>4, <2>2 DEF SayMore
    <3>. HIDE DEF a
    <3>3. /\ Len(wire') = Len(wire)
          /\ \A r \in 1 .. Len(wire) :
                /\ wire'[r].said = wire[r].said
                /\ wire'[r].pcm = IF r = a THEN wire[r].pcm \cup {s} ELSE wire[r].pcm
      <4>. DEFINE more == wire[a].pcm \cup {s}
                  e == [wire[a] EXCEPT !.pcm = more]
      <4>1. wire[a] \in Response
        BY <3>1
      <4>2. e.said = wire[a].said /\ e.pcm = more
        BY <4>1 DEF Response
      <4>3. wire' = [wire EXCEPT ![a] = e]
        BY <3>2
      <4>. HIDE DEF e
      <4>4. /\ Len(wire') = Len(wire)
            /\ \A r \in 1 .. Len(wire) : wire'[r] = IF r = a THEN e ELSE wire[r]
        BY <3>1, <4>3
      <4>. QED
        BY <4>2, <4>4
    <3>4. \A r \in 1 .. Len(wire) : wire[r].pcm \subseteq wire[r].said
      BY DEF VoiceInv, WireInv, SentInItsResponse
    <3>5. s \in wire[a].said
      BY <1>4, <2>2 DEF a
    <3>. QED
      BY <3>3, <3>4, <3>5
  <2>. QED
    BY <2>1, <2>2
<1>9. WireInv'
  <2>1. SentInItsResponse'
    BY <1>5, <1>8 DEF VoiceInv, WireInv, SentInItsResponse
  <2>2. ~client'.closed =>
          \A t \in Sentences : Speaks(t)' =>
             adapter'.active # 0 /\ t \in wire'[adapter'.active].said
    <3>1. adapter.active # 0 => adapter.active \in 1 .. Len(wire)
      BY Responses DEF WireType
    <3>. QED
      BY <1>1, <1>7, <1>8, <3>1 DEF VoiceInv, WireInv
  <2>3. \A r \in 1 .. Len(wire) : wire[r].said \subseteq Sentences
    BY Responses DEF Response
  <2>4. \A r \in 1 .. Len(wire') : \A t \in wire'[r].said :
          /\ Begun(t)'
          /\ \A u \in Sentences : drain'[u].pc \in Sending => t <= u
    BY <1>7, <1>8, <2>3 DEF VoiceInv, WireInv
  <2>. QED
    BY <2>1, <2>2, <2>4 DEF WireInv
<1>. QED
  BY <1>6, <1>9 DEF VoiceInv

LEMMA VoiceKeeps ==
  ASSUME TypeOK, IInv, VoiceInv, [Next]_vars
  PROVE  VoiceInv'
<1>. USE DEF sideVars, wireVars
<1>1. CASE ClientText \/ DirectSpeak
  <2>1. client.given < MaxSentences
    <3>1. client.given < deployment.sentences /\ deployment.sentences \in 0 .. MaxSentences
      BY <1>1, BoundsAssumption DEF ClientText, DirectSpeak, TypeOK
    <3>2. client.given \in Nat /\ MaxSentences \in Nat
      BY TasksAre DEF TypeOK
    <3>. QED
      BY <3>1, <3>2
  <2>2. /\ client'.given = client.given + 1 /\ client'.closed = client.closed
        /\ queue' = Append(queue, client.given + 1) /\ state'.current = state.current
        /\ UNCHANGED <<deployment, out, drain, sends, resetting, wire, adapter, history>>
    BY <1>1 DEF ClientText, DirectSpeak, TypeOK
  <2>. QED
    BY <2>1, <2>2, GivingKeeps
<1>2. CASE ClientFlush \/ AsrCloses \/ AsrFails \/ HandlerReleases \/ UNCHANGED vars
  <2>1. /\ UNCHANGED <<deployment, sends, resetting, out, wire, adapter, history, queue, drain>>
        /\ client'.given = client.given /\ client'.closed = client.closed
        /\ state'.current = state.current
    BY <1>2 DEF ClientFlush, AsrCloses, AsrFails, HandlerReleases, vars, TypeOK
  <2>. QED
    BY <2>1, NothingSaid
<1>3. CASE Abort \/ ResponseCancel \/ SpeechStart
  <2>1. /\ KillCurrent
        /\ UNCHANGED <<deployment, resetting, out, client, wire, state>>
        /\ adapter'.active = adapter.active /\ history'.stray = history.stray
        /\ \/ /\ queue' = queue /\ history'.aborted = history.aborted
              /\ history'.slipped = history.slipped
           \/ /\ queue' = <<>> /\ history'.aborted = client.given
              /\ history'.slipped = OutOfReach
    BY <1>3 DEF Abort, ResponseCancel, SpeechStart, Aborts, HistoryAborted, AbortCleared,
         Marked, TypeOK
  <2>. QED
    BY <2>1, KillingKeeps
<1>4. CASE Leave \/ HandlerCloses
  <2>1. /\ CancelOut
        /\ UNCHANGED <<deployment, queue, wire, adapter, history>>
        /\ client'.given = client.given
        /\ client'.closed \/ client'.closed = client.closed
        /\ \/ sends' = Without(TtsOut) /\ resetting' = resetting
           \/ sends' = Withdrawn(Without(TtsOut), Dispatcher) /\ ~resetting'
    BY <1>4 DEF Leave, HandlerCloses, TypeOK
  <2>. QED
    BY <2>1, CancelKeeps
<1>5. ASSUME NEW s \in Sentences, DrainStep(s)
      PROVE  VoiceInv'
  BY <1>5, QuietStep, StartingKeeps, SayingKeeps DEF DrainStep
<1>6. ASSUME NEW s \in Sentences,
             \/ InRuntime(SynthYields(s)) \/ InRuntime(SynthHandsOver(s))
             \/ InRuntime(SynthEnds(s)) \/ InRuntime(SynthHangs(s))
             \/ InRuntime(SynthRecovers(s))
      PROVE  VoiceInv'
  <2>1. UNCHANGED <<deployment, sends, resetting, out, wire, adapter, history, client, state,
                    queue>>
    BY <1>6 DEF InRuntime
  <2>. QED
    BY <1>6, <2>1, RuntimeIsSilent, NothingSaid
<1>. QED
  BY <1>1, <1>2, <1>3, <1>4, <1>5, <1>6, ResetKeeps, ResetAbortsKeeps, TtsOutVoice DEF Next

(* Only its own drain starts a sentence, unless it has been stopped. *)
LEMMA StartsUnstopped ==
  ASSUME TypeOK, [Next]_vars, NEW s \in Sentences,
         drain[s].pc = "started", drain'[s].pc = "speaking"
  PROVE  ~drain[s].stop
<1>0. drain \in [Sentences -> Drain] /\ drain[s] \in Drain
  BY DEF TypeOK
<1>1. drain' # drain
  OBVIOUS
<1>2. ASSUME NEW c, drain' = Killed(c) \/ drain' = Stopped(c) \/ drain' = drain
      PROVE  FALSE
  BY <1>0, <1>2 DEF Killed, Stopped, Drain
<1>3. ASSUME NEW c, drain' = [drain EXCEPT ![c].pc = "waits"]
      PROVE  FALSE
  BY <1>0, <1>3 DEF Drain
<1>4. ASSUME NEW t \in Sentences, DrainStep(t)
      PROVE  ~drain[s].stop
  <2>1. t = s
    <3>1. \A u \in Sentences \ {t} : drain'[u] = drain[u]
      BY <1>0, <1>4 DEF DrainStep, GetLease, HeaderOut, AfterHeader, StartedOut, TakeChunk,
         AudioOut, TakeEnd, ChunkTimesOut, ErrorOut, SentenceDoneOut, CloseDrain, DrainGoes
    <3>. QED
      BY <3>1
  <2>2. StartedOut(s)
    BY <1>0, <1>4, <2>1 DEF DrainStep, GetLease, HeaderOut, TakeChunk,
         AudioOut, TakeEnd, ChunkTimesOut, ErrorOut, SentenceDoneOut, CloseDrain, DrainGoes
  <2>3. drain[s].stop => DrainGoes(s, "closing")
    BY <2>2 DEF StartedOut
  <2>. QED
    BY <2>3, StageView
<1>5. ASSUME NEW t \in Sentences,
             \/ InRuntime(SynthYields(t)) \/ InRuntime(SynthHandsOver(t))
             \/ InRuntime(SynthEnds(t)) \/ InRuntime(SynthHangs(t))
             \/ InRuntime(SynthRecovers(t))
      PROVE  FALSE
  BY <1>5, RuntimeIsSilent
<1>6. CASE TtsOutStep
  BY <1>1, <1>2, <1>3, <1>6
     DEF TtsOutStep, LoopExits, EndTurn, TurnDoneSent, SessionDoneSent, TakeSentence,
         SentenceTaken, BeginSentence, SentenceOver, SentenceExpires, ExpiryReported
<1>7. CASE Leave \/ HandlerCloses
  BY <1>1, <1>2, <1>7 DEF Leave, HandlerCloses, CancelOut
<1>8. CASE Abort \/ ResponseCancel \/ ResetAborts \/ SpeechStart
  BY <1>1, <1>2, <1>8
     DEF Abort, ResponseCancel, ResetAborts, SpeechStart, Aborts, KillCurrent
<1>. QED
  BY <1>1, <1>4, <1>5, <1>6, <1>7, <1>8
     DEF Next, vars, ClientText, ClientFlush, DirectSpeak, ConversationReset, AsrCloses,
         AsrFails, HandlerReleases

FullInv == TypeInv /\ IInv /\ VoiceInv

LEMMA SpecFull == Spec => []FullInv
<1>1. Init => FullInv
  BY InitTyped, InitIInv, InitVoice DEF FullInv
<1>2. FullInv /\ [Next]_vars => FullInv'
  BY TypeKeeps, NextKeeps, VoiceKeeps DEF FullInv, TypeInv
<1>. QED
  BY <1>1, <1>2, PTL DEF Spec

(* Whatever aborts, deadlines and departures cross its way, what a sentence  *)
(* sends goes out in the response that announced it, before its             *)
(* response.done (the adapter of core/v2v.py behind one send lock).         *)
THEOREM SentWhereItBelongs == Spec => []SentInItsResponse
<1>1. FullInv => SentInItsResponse
  BY DEF FullInv, VoiceInv, WireInv
<1>. QED
  BY <1>1, SpecFull, PTL

(* A drain left behind by tts_out_task says nothing once a later sentence    *)
(* has begun: the send lock lets it pass before, and it never queues again.  *)
THEOREM NoLateSpeech == Spec => SpeechInOrder
<1>1. ASSUME FullInv, [Next]_vars
      PROVE  [\A s, t \in Sentences :
                 s < t /\ drain[s].pc = "audio" /\ drain'[s].pc = "speaking"
                    => \A r \in 1 .. Len(wire) : t \notin wire[r].said]_vars
  <2>1. \A s \in Sentences : drain[s].pc = "audio" =>
           \A r \in 1 .. Len(wire) : \A t \in wire[r].said : t <= s
    BY <1>1 DEF FullInv, VoiceInv, WireInv, Sending
  <2>. QED
    BY <2>1 DEF Sentences
<1>. QED
  BY <1>1, SpecFull, PTL DEF SpeechInOrder, Spec

(* abort: what was given before it is not begun after it, but for the one    *)
(* sentence that wait_for's task had just taken from the queue.             *)
THEOREM AbortsSilence == Spec => AbortSilences
<1>1. ASSUME FullInv, [Next]_vars
      PROVE  [\A s \in Sentences :
                 drain[s].pc = "started" /\ drain'[s].pc = "speaking" => MayBegin(s)]_vars
  <2>. SUFFICES ASSUME NEW s \in Sentences,
                      drain[s].pc = "started", drain'[s].pc = "speaking"
               PROVE  MayBegin(s)
    OBVIOUS
  <2>1. TypeOK /\ AbortInv
    BY <1>1 DEF FullInv, TypeInv, VoiceInv
  <2>2. Early(s)
    BY <1>1, <2>1, StartsUnstopped DEF Early
  <2>. QED
    BY <2>1, <2>2 DEF AbortInv
<1>. QED
  BY <1>1, SpecFull, PTL DEF AbortSilences, Spec
=============================================================================
