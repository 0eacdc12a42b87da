---------------------------- MODULE SpeechOutput ----------------------------
(***************************************************************************)
(* The speech half of one /v2v/stream session (server/main.py), with the   *)
(* Realtime V2 event adapter behind it (server/core/v2v.py):               *)
(*                                                                         *)
(*   dispatcher      queues sentences; flush, abort, speech start          *)
(*   tts_out_task    takes one sentence at a time, ends the turn           *)
(*   drain           a task per sentence: lease, synthesis, audio          *)
(*   _run_synth      the sentence's thread in the runtime                  *)
(*   send_json/bytes one send lock, then the adapter, then the socket      *)
(*   the handler     waits for its work tasks, then releases the session   *)
(*                                                                         *)
(* Sentences are numbered as the client gives them; the sentence buffer is *)
(* left out (a text frame is a sentence), and so are item and transcript   *)
(* events and the direct-speech tag.  A sentence's manager and coordinator *)
(* acquires are one lease.                                                 *)
(***************************************************************************)
EXTENDS Integers, Sequences, FiniteSets

CONSTANTS
    MaxSentences,    \* sentences the client sends
    MaxChunks,       \* audio chunks of a sentence
    MaxFlushes,      \* turns the client ends
    MaxDisturb,      \* how often each kind of disturbance may happen
    Deployments      \* sessions to explore: [multi, spawns, serial,
                     \*   disturb, sentences, flushes]

Disturbances == {"abort", "cancel", "reset", "barge", "leave", "asrFails", "close",
                 "hang", "error", "mute"}

ASSUME BoundsAssumption ==
    /\ MaxSentences \in Nat \ {0} /\ MaxChunks \in Nat
    /\ MaxFlushes \in Nat /\ MaxDisturb \in Nat
    /\ \A d \in Deployments :
         /\ d.multi \in BOOLEAN /\ d.serial \in BOOLEAN
         /\ d.spawns \in BOOLEAN     \* wait_for runs its awaitable as a task (Python < 3.12)
         /\ d.disturb \subseteq Disturbances
         /\ d.sentences \in 0 .. MaxSentences /\ d.flushes \in 0 .. MaxFlushes

VARIABLES
    deployment,  \* the session's configuration, chosen once
    budget,      \* disturbances of each kind still to come
    client,      \* [given, flushes, closed]: sentences and flushes sent; gone
    queue,       \* tts_q
    state,       \* [flush, closed, current]: tts_flush, asr_session_closed, the
                 \* sentence of current_tts_task and current_tts_stop
    out,         \* tts_out_task: [pc, s], the sentence it has taken
    resetting,   \* dispatcher sends conversation_reset's acknowledgement
    drain,       \* per sentence: [pc, stop, worker, left, chunks]
    headerSent,  \* sr_header_sent
    lease,       \* sentence whose drain is inside the coordinator, 0 if none
    sends,       \* senders queued on send_lock, first come first served
    adapter,     \* RealtimeV2EventAdapter: [active, status]
    wire,        \* the responses sent: [status, said, pcm], status "open" until done
    asr,         \* asr_out_task, as this half sees it
    handler,     \* the connection's handler
    history      \* [aborted, slipped, barged, stray]: last sentence given before the
                 \* last abort, and the one that abort could not reach; last one given
                 \* before speech start; sentences sent outside a response

vars == <<deployment, budget, client, queue, state, out, resetting, drain, headerSent,
          lease, sends, adapter, wire, asr, handler, history>>
wireVars == <<adapter, wire>>
sideVars == <<asr, handler, deployment>>

Sentences == 1 .. MaxSentences
Dispatcher == -1
TtsOut == 0
Drain == [pc : {"none", "waits", "header", "started", "speaking", "audio", "error",
                "ending", "closing", "gone"},
          stop : BOOLEAN,
          worker : {"none", "running", "handing", "stuck", "ended", "failed"},
          left : 0 .. MaxChunks, chunks : 0 .. MaxChunks]
NoDrain == [pc |-> "none", stop |-> FALSE, worker |-> "none",
            left |-> MaxChunks, chunks |-> 0]

TypeOK ==
    /\ deployment \in Deployments
    /\ budget \in [Disturbances -> 0 .. MaxDisturb]
    /\ client \in [given : 0 .. MaxSentences, flushes : 0 .. MaxFlushes, closed : BOOLEAN]
    /\ queue \in Seq(Sentences)
    /\ state \in [flush : BOOLEAN, closed : BOOLEAN, current : 0 .. MaxSentences]
    /\ out \in [pc : {"loop", "taken", "waiting", "erring", "turnDone", "sessionDone", "over"},
                s : 0 .. MaxSentences]
    /\ resetting \in BOOLEAN
    /\ drain \in [Sentences -> Drain]
    /\ headerSent \in BOOLEAN
    /\ lease \in 0 .. MaxSentences
    /\ sends \in Seq(Sentences \cup {TtsOut, Dispatcher})
    /\ adapter \in [active : Nat, status : {"completed", "cancelled"}]
    /\ adapter.active \in 0 .. Len(wire)
    /\ wire \in Seq([status : {"open", "completed", "cancelled"},
                     said : SUBSET Sentences, pcm : SUBSET Sentences])
    /\ asr \in {"running", "failed", "over"}
    /\ handler \in {"running", "closing", "released"}
    /\ history \in [aborted : 0 .. MaxSentences, slipped : 0 .. MaxSentences,
                    barged : 0 .. MaxSentences, stray : SUBSET Sentences]

Init ==
    /\ deployment \in Deployments
    /\ budget = [d \in Disturbances |->
                    IF d \in deployment.disturb THEN MaxDisturb ELSE 0]
    /\ client = [given |-> 0, flushes |-> 0, closed |-> FALSE]
    /\ queue = <<>>
    /\ state = [flush |-> FALSE, closed |-> FALSE, current |-> 0]
    /\ out = [pc |-> "loop", s |-> 0]
    /\ resetting = FALSE
    /\ drain = [s \in Sentences |-> NoDrain]
    /\ headerSent = FALSE
    /\ lease = 0
    /\ sends = <<>>
    /\ adapter = [active |-> 0, status |-> "completed"]
    /\ wire = <<>>
    /\ asr = "running"
    /\ handler = "running"
    /\ history = [aborted |-> 0, slipped |-> 0, barged |-> 0, stray |-> {}]

Disturb(kind) ==
    /\ budget[kind] > 0
    /\ budget' = [budget EXCEPT ![kind] = @ - 1]

(***************************************************************************)
(* The send lock and the adapter                                           *)
(***************************************************************************)
SendAs(task) == sends' = Append(sends, task)
AtHead(task) == sends # <<>> /\ Head(sends) = task
Sent(task) == AtHead(task) /\ sends' = Tail(sends)
SentThenAs(task) == AtHead(task) /\ sends' = Append(Tail(sends), task)

(* A cancelled sender leaves the queue, in which each task is at most once.  *)
Withdrawn(queued, task) ==
    LET places == {i \in 1 .. Len(queued) : queued[i] = task}
        place == CHOOSE i \in places : TRUE
    IN  IF places = {} THEN queued
        ELSE [i \in 1 .. Len(queued) - 1 |-> queued[IF i < place THEN i ELSE i + 1]]

Without(task) == Withdrawn(sends, task)

(* mark_cancelled: only a response that has begun can be marked. *)
Marked == [adapter EXCEPT !.status = IF adapter.active # 0 THEN "cancelled" ELSE @]

(* _ensure_response_created *)
Created ==
    IF adapter.active # 0
    THEN [active |-> adapter.active, status |-> adapter.status, wire |-> wire]
    ELSE [active |-> Len(wire) + 1, status |-> "completed",
          wire |-> Append(wire, [status |-> "open", said |-> {}, pcm |-> {}])]

(* tts_started opens the response if need be. *)
SayStarted(s) ==
    IF client.closed THEN UNCHANGED wireVars
    ELSE /\ adapter' = [active |-> Created.active, status |-> Created.status]
         /\ wire' = [Created.wire EXCEPT ![Created.active].said = @ \cup {s}]

(* Audio and tts_sentence_done go out under whatever response is active. *)
SayMore(s) ==
    IF client.closed THEN UNCHANGED <<wire, history>>
    ELSE IF adapter.active = 0
    THEN history' = [history EXCEPT !.stray = @ \cup {s}] /\ UNCHANGED wire
    ELSE wire' = [wire EXCEPT ![adapter.active].pcm = @ \cup {s}] /\ UNCHANGED history

(* tts_done: _finish_response, but the session's own tts_done ends nothing  *)
(* when no response is active.                                             *)
SayDone(sessionComplete) ==
    IF client.closed \/ (adapter.active = 0 /\ sessionComplete)
    THEN UNCHANGED wireVars
    ELSE /\ adapter' = [active |-> 0, status |-> "completed"]
         /\ wire' = [Created.wire EXCEPT ![Created.active].status = Created.status]

(***************************************************************************)
(* dispatcher                                                              *)
(***************************************************************************)
Receiving == handler = "running" /\ ~client.closed /\ ~resetting

ClientText ==
    /\ Receiving /\ client.given < deployment.sentences
    /\ client' = [client EXCEPT !.given = @ + 1]
    /\ queue' = Append(queue, client.given + 1)
    /\ UNCHANGED <<sideVars, budget, state, out, resetting, drain, headerSent, lease,
                   sends, wireVars, history>>

ClientFlush ==
    /\ Receiving /\ client.flushes < deployment.flushes
    /\ client' = [client EXCEPT !.flushes = @ + 1]
    /\ state' = [state EXCEPT !.flush = TRUE]
    /\ UNCHANGED <<sideVars, budget, queue, out, resetting, drain, headerSent, lease,
                   sends, wireVars, history>>

(* x_v2v.response.speak: a text and its flush in one frame. *)
DirectSpeak ==
    /\ Receiving /\ client.given < deployment.sentences /\ client.flushes < deployment.flushes
    /\ client' = [client EXCEPT !.given = @ + 1, !.flushes = @ + 1]
    /\ queue' = Append(queue, client.given + 1)
    /\ state' = [state EXCEPT !.flush = TRUE]
    /\ UNCHANGED <<sideVars, budget, out, resetting, drain, headerSent, lease,
                   sends, wireVars, history>>

(* current_tts_task.cancel() and current_tts_stop.set().  A drain past its   *)
(* work, in its finally, is not disturbed.                                 *)
Unfinished == {"waits", "header", "started", "speaking", "audio", "error", "ending"}

Stopped(s) == [drain EXCEPT ![s].stop = TRUE]
Killed(s) == [drain EXCEPT ![s].stop = TRUE,
                           ![s].pc = IF @ \in Unfinished THEN "closing" ELSE @]

KillCurrent ==
    IF state.current = 0
    THEN UNCHANGED <<drain, sends>>
    ELSE drain' = Killed(state.current) /\ sends' = Without(state.current)

(* Mutant: the sentences already queued survive an abort. *)
NothingCleared == queue

AbortCleared == <<>>

(* What wait_for's own task has taken from the queue is beyond an abort: it *)
(* is neither queued nor the current sentence.                             *)
OutOfReach == IF out.pc = "taken" THEN out.s ELSE 0

HistoryAborted ==
    history' = [history EXCEPT !.aborted = client.given, !.slipped = OutOfReach]

Aborts ==
    /\ KillCurrent
    /\ queue' = AbortCleared
    /\ HistoryAborted

Abort ==
    /\ Receiving /\ Disturb("abort")
    /\ Aborts
    /\ UNCHANGED <<sideVars, client, state, out, resetting, headerSent, lease, wireVars>>

(* response.cancel: the response is marked first. *)
ResponseCancel ==
    /\ Receiving /\ Disturb("cancel")
    /\ adapter' = Marked
    /\ Aborts
    /\ UNCHANGED <<sideVars, client, state, out, resetting, headerSent, lease, wire>>

(* conversation reset: marked, acknowledged, then aborted. *)
ConversationReset ==
    /\ Receiving /\ Disturb("reset")
    /\ adapter' = Marked
    /\ resetting' = TRUE /\ SendAs(Dispatcher)
    /\ UNCHANGED <<sideVars, client, queue, state, out, drain, headerSent, lease, wire,
                   history>>

(* The acknowledgement is out. *)
ResetAborts ==
    /\ resetting /\ handler = "running" /\ AtHead(Dispatcher)
    /\ IF state.current = 0
       THEN sends' = Tail(sends) /\ UNCHANGED drain
       ELSE sends' = Withdrawn(Tail(sends), state.current) /\ drain' = Killed(state.current)
    /\ queue' = AbortCleared
    /\ HistoryAborted
    /\ resetting' = FALSE
    /\ UNCHANGED <<sideVars, budget, client, state, out, headerSent, lease, wireVars>>

(* VAD's speech_start: the current sentence is cancelled, the queue is not   *)
(* touched.  A single-utterance session would do so only before its one     *)
(* utterance.                                                              *)
SpeechStart ==
    /\ Receiving /\ deployment.multi /\ asr = "running" /\ Disturb("barge")
    /\ adapter' = Marked
    /\ KillCurrent
    /\ history' = [history EXCEPT !.barged = client.given]
    /\ UNCHANGED <<sideVars, client, queue, state, out, resetting, headerSent, lease, wire>>

(***************************************************************************)
(* tts_out_task                                                            *)
(***************************************************************************)
OutGoes(pc, s) == out' = [pc |-> pc, s |-> s]

(* Cancelled from outside.  While it awaits a sentence the cancellation is  *)
(* taken for a barge-in; a wait_for whose task is done returns its result.  *)
CancelOut ==
    CASE out.pc = "waiting" ->
           /\ drain' = Stopped(out.s)
           /\ state' = [state EXCEPT !.current = 0]
           /\ OutGoes("loop", 0)
      [] out.pc = "taken" -> UNCHANGED <<drain, state, out>>
      [] out.pc = "erring" ->
           /\ state' = [state EXCEPT !.current = 0]
           /\ OutGoes("over", 0) /\ UNCHANGED drain
      [] OTHER -> OutGoes("over", 0) /\ UNCHANGED <<drain, state>>

(* Mutant: the loop does not look whether the client is still there. *)
NeverGone == FALSE

ClientGone == client.closed

LoopExits ==
    /\ out.pc = "loop" /\ ClientGone
    /\ OutGoes("over", 0)
    /\ UNCHANGED <<sideVars, budget, client, queue, state, resetting, drain, headerSent,
                   lease, sends, wireVars, history>>

(* Flush requested and nothing left to say: the turn, or the session, ends. *)
EndTurn ==
    /\ out.pc = "loop" /\ ~ClientGone /\ state.flush /\ queue = <<>>
    /\ IF deployment.multi /\ ~state.closed
       THEN state' = [state EXCEPT !.flush = FALSE] /\ OutGoes("turnDone", 0)
       ELSE OutGoes("sessionDone", 0) /\ UNCHANGED state
    /\ SendAs(TtsOut)
    /\ UNCHANGED <<sideVars, budget, client, queue, resetting, drain, headerSent, lease,
                   wireVars, history>>

TurnDoneSent ==
    /\ out.pc = "turnDone" /\ Sent(TtsOut)
    /\ SayDone(FALSE)
    /\ OutGoes("loop", 0)
    /\ UNCHANGED <<sideVars, budget, client, queue, state, resetting, drain, headerSent,
                   lease, history>>

SessionDoneSent ==
    /\ out.pc = "sessionDone" /\ Sent(TtsOut)
    /\ SayDone(deployment.multi)
    /\ OutGoes("over", 0)
    /\ UNCHANGED <<sideVars, budget, client, queue, state, resetting, drain, headerSent,
                   lease, history>>

(* What follows a sentence's arrival up to the first await: markup alone is *)
(* skipped, anything else gets a drain task and the stop event of its own.  *)
BeginSentence(s) ==
    \/ /\ Disturb("mute")
       /\ OutGoes("loop", 0) /\ UNCHANGED <<drain, state>>
    \/ /\ drain' = [drain EXCEPT ![s].pc = "waits"]
       /\ state' = [state EXCEPT !.current = s]
       /\ OutGoes("waiting", s) /\ UNCHANGED budget

(* Where wait_for spawns a task for tts_q.get(), the sentence is out of the *)
(* queue before tts_out_task runs again.                                   *)
TakeSentence ==
    /\ out.pc = "loop" /\ ~ClientGone /\ queue # <<>>
    /\ queue' = Tail(queue)
    /\ IF deployment.spawns
       THEN OutGoes("taken", Head(queue)) /\ UNCHANGED <<drain, state, budget>>
       ELSE BeginSentence(Head(queue))
    /\ UNCHANGED <<sideVars, client, resetting, headerSent, lease, sends, wireVars, history>>

SentenceTaken ==
    /\ out.pc = "taken" /\ BeginSentence(out.s)
    /\ UNCHANGED <<sideVars, client, queue, resetting, headerSent, lease, sends, wireVars,
                   history>>

SentenceOver ==
    /\ out.pc = "waiting" /\ drain[out.s].pc = "gone"
    /\ state' = [state EXCEPT !.current = 0]
    /\ OutGoes("loop", 0)
    /\ UNCHANGED <<sideVars, budget, client, queue, resetting, drain, headerSent, lease,
                   sends, wireVars, history>>

(* Mutant: no deadline for the sentence as a whole. *)
NoDeadline == FALSE

DeadlinePassed == drain[out.s].pc # "gone"

(* 15 s: the sentence is stopped and its drain left to clean up by itself. *)
SentenceExpires ==
    /\ out.pc = "waiting" /\ DeadlinePassed
    /\ drain' = Stopped(out.s)
    /\ IF client.closed
       THEN OutGoes("loop", 0) /\ state' = [state EXCEPT !.current = 0] /\ UNCHANGED sends
       ELSE OutGoes("erring", out.s) /\ SendAs(TtsOut) /\ UNCHANGED state
    /\ UNCHANGED <<sideVars, budget, client, queue, resetting, headerSent, lease, wireVars,
                   history>>

ExpiryReported ==
    /\ out.pc = "erring" /\ Sent(TtsOut)
    /\ state' = [state EXCEPT !.current = 0]
    /\ OutGoes("loop", 0)
    /\ UNCHANGED <<sideVars, budget, client, queue, resetting, drain, headerSent, lease,
                   wireVars, history>>

(***************************************************************************)
(* drain, one task per sentence                                            *)
(***************************************************************************)
DrainGoes(s, pc) == drain' = [drain EXCEPT ![s].pc = pc]

AfterHeader(s) ==
    IF drain[s].stop THEN DrainGoes(s, "closing") ELSE DrainGoes(s, "started")

GetLease(s) ==
    /\ drain[s].pc = "waits" /\ (deployment.serial => lease = 0)
    /\ lease' = IF deployment.serial THEN s ELSE lease
    /\ IF drain[s].stop
       THEN DrainGoes(s, "closing") /\ UNCHANGED sends
       ELSE DrainGoes(s, IF headerSent THEN "started" ELSE "header") /\ SendAs(s)
    /\ UNCHANGED <<sideVars, budget, client, queue, state, out, resetting, headerSent,
                   wireVars, history>>

HeaderOut(s) ==
    /\ drain[s].pc = "header" /\ AtHead(s)
    /\ headerSent' = TRUE
    /\ AfterHeader(s)
    /\ sends' = IF drain[s].stop THEN Tail(sends) ELSE Append(Tail(sends), s)
    /\ UNCHANGED <<sideVars, budget, client, queue, state, out, resetting, lease,
                   wireVars, history>>

StartedOut(s) ==
    /\ drain[s].pc = "started" /\ Sent(s)
    /\ SayStarted(s)
    /\ IF drain[s].stop
       THEN DrainGoes(s, "closing")
       ELSE drain' = [drain EXCEPT ![s].pc = "speaking", ![s].worker = "running"]
    /\ UNCHANGED <<sideVars, budget, client, queue, state, out, resetting, headerSent,
                   lease, history>>

(* Mutant: the audio loop does not look at the stop event. *)
NeverStopped(s) == FALSE

StopSeen(s) == drain[s].stop

TakeChunk(s) ==
    /\ drain[s].pc = "speaking" /\ drain[s].chunks > 0
    /\ IF StopSeen(s)
       THEN DrainGoes(s, "closing") /\ UNCHANGED sends
       ELSE /\ drain' = [drain EXCEPT ![s].pc = "audio", ![s].chunks = @ - 1]
            /\ SendAs(s)
    /\ UNCHANGED <<sideVars, budget, client, queue, state, out, resetting, headerSent,
                   lease, wireVars, history>>

AudioOut(s) ==
    /\ drain[s].pc = "audio" /\ Sent(s)
    /\ SayMore(s)
    /\ DrainGoes(s, "speaking")
    /\ UNCHANGED <<sideVars, budget, client, queue, state, out, resetting, headerSent,
                   lease, adapter>>

(* The thread's last item, None or an error; tts_sentence_done follows both. *)
TakeEnd(s) ==
    /\ drain[s].pc = "speaking" /\ drain[s].chunks = 0
    /\ drain[s].worker \in {"ended", "failed"}
    /\ IF drain[s].stop
       THEN DrainGoes(s, "closing") /\ UNCHANGED sends
       ELSE /\ DrainGoes(s, IF drain[s].worker = "ended" THEN "ending" ELSE "error")
            /\ SendAs(s)
    /\ UNCHANGED <<sideVars, budget, client, queue, state, out, resetting, headerSent,
                   lease, wireVars, history>>

(* 10 s without a chunk. *)
ChunkTimesOut(s) ==
    /\ drain[s].pc = "speaking" /\ drain[s].chunks = 0
    /\ drain[s].worker \in {"running", "stuck"}
    /\ IF drain[s].stop
       THEN DrainGoes(s, "closing") /\ UNCHANGED sends
       ELSE /\ drain' = [drain EXCEPT ![s].stop = TRUE, ![s].pc = "error"]
            /\ SendAs(s)
    /\ UNCHANGED <<sideVars, budget, client, queue, state, out, resetting, headerSent,
                   lease, wireVars, history>>

ErrorOut(s) ==
    /\ drain[s].pc = "error"
    /\ IF drain[s].stop
       THEN DrainGoes(s, "closing") /\ Sent(s)
       ELSE DrainGoes(s, "ending") /\ SentThenAs(s)
    /\ UNCHANGED <<sideVars, budget, client, queue, state, out, resetting, headerSent,
                   lease, wireVars, history>>

SentenceDoneOut(s) ==
    /\ drain[s].pc = "ending" /\ Sent(s)
    /\ SayMore(s)
    /\ DrainGoes(s, "closing")
    /\ UNCHANGED <<sideVars, budget, client, queue, state, out, resetting, headerSent,
                   lease, adapter>>

(* Mutant: an abandoned drain gives its lease back at once. *)
RuntimeForgotten(s) == TRUE

RuntimeLeft(s) == drain[s].worker \in {"none", "ended", "failed"}

(* The finally: the lease is kept until the thread has left the runtime,    *)
(* however often the task is cancelled.                                    *)
CloseDrain(s) ==
    /\ drain[s].pc = "closing" /\ RuntimeLeft(s)
    /\ lease' = IF lease = s THEN 0 ELSE lease
    /\ DrainGoes(s, "gone")
    /\ UNCHANGED <<sideVars, budget, client, queue, state, out, resetting, headerSent,
                   sends, wireVars, history>>

(***************************************************************************)
(* _run_synth, in a thread: the stop event is read before a chunk is handed *)
(* over.                                                                   *)
(***************************************************************************)
WorkerGoes(s, w) == drain' = [drain EXCEPT ![s].worker = w]

SynthYields(s) ==
    /\ drain[s].worker = "running" /\ drain[s].left > 0
    /\ IF drain[s].stop
       THEN WorkerGoes(s, "ended")
       ELSE drain' = [drain EXCEPT ![s].worker = "handing", ![s].left = @ - 1]
    /\ UNCHANGED budget

SynthHandsOver(s) ==
    /\ drain[s].worker = "handing"
    /\ drain' = [drain EXCEPT ![s].worker = "running", ![s].chunks = @ + 1]
    /\ UNCHANGED budget

SynthEnds(s) ==
    /\ drain[s].worker = "running"
    /\ \/ WorkerGoes(s, "ended") /\ UNCHANGED budget
       \/ WorkerGoes(s, "failed") /\ Disturb("error")

(* A wedged runtime, which may or may not come back. *)
SynthHangs(s) == drain[s].worker = "running" /\ WorkerGoes(s, "stuck") /\ Disturb("hang")
SynthRecovers(s) == drain[s].worker = "stuck" /\ WorkerGoes(s, "running") /\ UNCHANGED budget

Runtime(s) == SynthYields(s) \/ SynthHandsOver(s) \/ SynthEnds(s)

InRuntime(action) ==
    /\ action
    /\ UNCHANGED <<sideVars, client, queue, state, out, resetting, headerSent, lease, sends,
                   wireVars, history>>

(***************************************************************************)
(* The session                                                             *)
(***************************************************************************)
(* Disconnect or idle timeout: the dispatcher cancels both work tasks. *)
Leave ==
    /\ Receiving /\ Disturb("leave")
    /\ client' = [client EXCEPT !.closed = TRUE]
    /\ CancelOut /\ sends' = Without(TtsOut)
    /\ asr' = "over"
    /\ UNCHANGED <<deployment, handler, queue, resetting, headerSent, lease, wireVars, history>>

(* The recognition half closes the session (queue full, single utterance). *)
AsrCloses ==
    /\ handler = "running" /\ asr = "running" /\ ~client.closed /\ Disturb("close")
    /\ state' = [state EXCEPT !.closed = TRUE]
    /\ asr' = "over"
    /\ UNCHANGED <<deployment, handler, client, queue, out, resetting, drain, headerSent,
                   lease, sends, wireVars, history>>

(* asr_out_task ends with an exception (a saturated pool, a failed finalize). *)
AsrFails ==
    /\ handler = "running" /\ asr = "running" /\ Disturb("asrFails")
    /\ asr' = "failed"
    /\ UNCHANGED <<deployment, handler, client, queue, state, out, resetting, drain,
                   headerSent, lease, sends, wireVars, history>>

(* gather is over; the finally cancels the dispatcher and what still works. *)
HandlerCloses ==
    /\ handler = "running"
    /\ client.closed \/ asr = "failed" \/ (asr = "over" /\ out.pc = "over")
    /\ handler' = "closing"
    /\ CancelOut
    /\ resetting' = FALSE /\ sends' = Withdrawn(Without(TtsOut), Dispatcher)
    /\ UNCHANGED <<deployment, asr, budget, client, queue, headerSent, lease, wireVars,
                   history>>

(* The work tasks are over: the session's slot is released. *)
HandlerReleases ==
    /\ handler = "closing" /\ out.pc = "over"
    /\ handler' = "released"
    /\ UNCHANGED <<deployment, asr, budget, client, queue, state, out, resetting, drain,
                   headerSent, lease, sends, wireVars, history>>

(***************************************************************************)
(* With one runtime at a time, the next sentence enters it only when the   *)
(* thread of the one before has left, though its task was cancelled or     *)
(* abandoned long ago (the finally of drain).                              *)
(***************************************************************************)
InRuntimeStates == {"running", "handing", "stuck"}

OneRuntimeUser ==
    deployment.serial =>
       \A s, t \in Sentences :
          drain[s].worker \in InRuntimeStates /\ drain[t].worker \in InRuntimeStates
             => s = t

(* Everything a sentence sends, however late its drain gets to send it, goes *)
(* out in the response in which it was started, and before that response's  *)
(* response.done (docs/api/realtime-v2.md, terminal invariants 2 and 3).    *)
SentInItsResponse ==
    /\ history.stray = {}
    /\ \A r \in 1 .. Len(wire) : wire[r].pcm \subseteq wire[r].said

(* A sentence whose drain was left behind (15 s deadline) says nothing more  *)
(* once a later sentence has begun.                                        *)
SpeechInOrder ==
    [][\A s, t \in Sentences :
          s < t /\ drain[s].pc = "audio" /\ drain'[s].pc = "speaking"
             => \A r \in 1 .. Len(wire) : t \notin wire[r].said]_vars

(* What was given before an abort is not begun after it, but for the one     *)
(* sentence that, where wait_for spawns a task (Python < 3.12, which every   *)
(* image of the repository runs), that task held when the abort cleared the *)
(* queue: the code speaks it, and never another one.                        *)
MayBegin(s) ==
    \/ s > history.aborted
    \/ deployment.spawns /\ s = history.slipped

AbortSilences ==
    [][\A s \in Sentences :
          drain[s].pc = "started" /\ drain'[s].pc = "speaking" => MayBegin(s)]_vars

(***************************************************************************)
(* Specification                                                           *)
(***************************************************************************)
TtsOutStep ==
    \/ LoopExits \/ EndTurn \/ TurnDoneSent \/ SessionDoneSent \/ TakeSentence
    \/ SentenceTaken \/ SentenceOver \/ SentenceExpires \/ ExpiryReported

DrainStep(s) ==
    \/ GetLease(s) \/ HeaderOut(s) \/ StartedOut(s) \/ TakeChunk(s) \/ AudioOut(s)
    \/ TakeEnd(s) \/ ChunkTimesOut(s) \/ ErrorOut(s) \/ SentenceDoneOut(s) \/ CloseDrain(s)

Next ==
    \/ ClientText \/ ClientFlush \/ DirectSpeak
    \/ Abort \/ ResponseCancel \/ ConversationReset \/ ResetAborts \/ SpeechStart
    \/ TtsOutStep
    \/ \E s \in Sentences :
         \/ DrainStep(s)
         \/ InRuntime(SynthYields(s)) \/ InRuntime(SynthHandsOver(s))
         \/ InRuntime(SynthEnds(s)) \/ InRuntime(SynthHangs(s))
         \/ InRuntime(SynthRecovers(s))
    \/ Leave \/ AsrCloses \/ AsrFails \/ HandlerCloses \/ HandlerReleases

(* The loop runs its tasks and fires its timers, the socket takes what is   *)
(* sent, and the runtime goes on unless it hangs.                          *)
Fairness ==
    /\ WF_vars(TtsOutStep) /\ WF_vars(ResetAborts)
    /\ WF_vars(HandlerCloses) /\ WF_vars(HandlerReleases)
    /\ \A s \in Sentences : WF_vars(DrainStep(s)) /\ WF_vars(InRuntime(Runtime(s)))

Spec == Init /\ [][Next]_vars /\ Fairness

=============================================================================
