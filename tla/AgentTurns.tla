----------------------------- MODULE AgentTurns -----------------------------
(***************************************************************************)
(* The conversation of the voice agent (src/agent/ovs_agent): the state    *)
(* machine of app_base.py with its turn task (app_mode.py), its playback   *)
(* latch (audio_io.py) and its connection to the server (slv_client.py).   *)
(*                                                                         *)
(*   dispatcher   _slv_dispatch: takes the server's events one at a time   *)
(*   mic          _mic_pump / _update_vad: speech starts and ends          *)
(*   llm          the turn task: sends the reply's text, then a flush      *)
(*   watchdogs    thinking, asr_final, barge-in fallback                   *)
(*   sleeper      sleep(), from the dashboard or a stop intent             *)
(*   server       external: one session of /v2v/stream                     *)
(*                                                                         *)
(* The agent runs its own language model (client loop, protocol V1) in the *)
(* always_on pipeline, with barge-in enabled and playback_drain off.  A    *)
(* hook broadcast is an await.                                             *)
(***************************************************************************)
EXTENDS Integers, Sequences, FiniteSets

CONSTANTS
    MaxTurns,     \* user utterances that come to a real final
    MaxSegments,  \* times the client VAD hears speech
    MaxQueue,     \* events the reader may have queued (an error may follow)
    MaxDisturb,   \* how often each kind of disturbance may happen
    Deployments   \* [drive, contended, patient, turns, segments, disturb]

Disturbances == {"sleep", "loss", "fail", "wedge", "stop"}

ASSUME AgentAssumption ==
    /\ MaxTurns \in Nat \ {0} /\ MaxQueue \in Nat \ {0}
    /\ MaxSegments \in Nat /\ MaxDisturb \in Nat
    /\ \A d \in Deployments :
         /\ d.drive \in BOOLEAN      \* client_vad_drive_eos; else no client VAD
         /\ d.contended \in BOOLEAN  \* a flush may have to wait for the send lock
         /\ d.patient \in BOOLEAN    \* thinking_timeout_s outlasts a reply on its way
         /\ d.turns \in 0 .. MaxTurns /\ d.segments \in 0 .. MaxSegments
         /\ d.disturb \subseteq Disturbances

VARIABLES
    deployment,  \* the configuration, chosen once
    budget,      \* disturbances of each kind still to come
    fsm,         \* _state
    eosSent,     \* _eos_sent_this_turn
    pending,     \* _pending_asr_utterance_text is not empty
    awaiting,    \* _awaiting_new_reply
    firstSeen,   \* _first_tts_seen
    audio,       \* AudioIO: [discard, flag, buffer]
    asrWatch,    \* asr_final watchdog is armed
    think,       \* thinking watchdog: [armed, told, pc, own, turn]
    fallback,    \* barge-in EOS fallback
    mic,         \* [pc, vad, echo, turn]
    disp,        \* [pc, kind, after, turn]
    llm,         \* [pc, cancel, sent, turn]
    sleeper,     \* [pc, turn]
    conn,        \* the connection, as SLVClient has it
    rx,          \* SLVClient._queue
    server       \* [text, queued, speaking, begun, flush, heard, eos, wedged]

vars == <<deployment, budget, fsm, eosSent, pending, awaiting, firstSeen, audio, asrWatch,
          think, fallback, mic, disp, llm, sleeper, conn, rx, server>>
turnVars == <<eosSent, pending, awaiting, firstSeen>>
frame == <<deployment, budget>>
watchVars == <<asrWatch, think, fallback>>

ConvState == {"IDLE", "LISTENING", "THINKING", "SPEAKING", "BARGED_IN", "SLEEPING"}
AsrEvents == {"partial", "final", "low", "stop"}
TtsEvents == {"started", "audio", "done"}
Events == AsrEvents \cup TtsEvents \cup {"error"}
FreshServer == [text |-> {}, queued |-> {}, speaking |-> {}, begun |-> {}, flush |-> FALSE,
                heard |-> FALSE, eos |-> FALSE, wedged |-> FALSE]

Ready == [pc |-> "ready", kind |-> "done", after |-> "partial", turn |-> 0]

Audio == [discard : BOOLEAN, flag : BOOLEAN, buffer : BOOLEAN]
Think == [armed : BOOLEAN, told : BOOLEAN,   \* told: a tts_started has stood it down
          pc : {"none", "cancelling", "reconnecting"}, own : BOOLEAN, turn : Nat]
Mic == [pc : {"ready", "cancelling", "aborting", "ending"}, vad : {"idle", "speech"},
        echo : BOOLEAN, turn : Nat]
Disp == [pc : {"ready", "frame", "done", "cancelling", "aborting", "utterance", "stopping",
               "replacing", "erring", "failing", "reconnecting"},
         kind : Events, after : {"partial", "supersede", "asleep", "idle"}, turn : Nat]
Llm == [pc : {"none", "run", "token", "flush", "failing"}, cancel : BOOLEAN,
        sent : BOOLEAN,   \* there was a token
        turn : Nat]
Sleeper == [pc : {"none", "cancelling", "aborting"}, turn : Nat]
Server == [text : SUBSET Nat, queued : SUBSET Nat, speaking : SUBSET Nat,
           begun : SUBSET Nat,   \* the turns whose text the last tts_started was for
           flush : BOOLEAN, heard : BOOLEAN, eos : BOOLEAN, wedged : BOOLEAN]

TypeOK ==
    /\ deployment \in Deployments
    /\ budget \in [Disturbances \cup {"turn", "segment"} -> Nat]
    /\ fsm \in ConvState
    /\ eosSent \in BOOLEAN /\ pending \in BOOLEAN /\ awaiting \in BOOLEAN
    /\ firstSeen \in BOOLEAN /\ asrWatch \in BOOLEAN
    /\ audio \in Audio /\ think \in Think
    /\ fallback \in {"off", "armed", "stale", "sending", "givenUp"}
    /\ mic \in Mic /\ disp \in Disp /\ llm \in Llm /\ sleeper \in Sleeper
    /\ conn \in {"up", "broken", "deaf", "dead", "opening"}
    /\ rx \in Seq(Events)
    /\ server \in Server

Init ==
    /\ deployment \in Deployments
    /\ budget = [d \in Disturbances \cup {"turn", "segment"} |->
                   CASE d = "turn" -> deployment.turns
                     [] d = "segment" -> deployment.segments
                     [] d \in deployment.disturb -> MaxDisturb
                     [] OTHER -> 0]
    /\ fsm = "IDLE"
    /\ eosSent = FALSE /\ pending = FALSE /\ awaiting = FALSE /\ firstSeen = FALSE
    /\ audio = [discard |-> FALSE, flag |-> FALSE, buffer |-> FALSE]
    /\ asrWatch = FALSE
    /\ think = [armed |-> FALSE, told |-> FALSE, pc |-> "none", own |-> FALSE, turn |-> 0]
    /\ fallback = "off"
    /\ mic = [pc |-> "ready", vad |-> "idle", echo |-> FALSE, turn |-> 0]
    /\ disp = Ready
    /\ llm = [pc |-> "none", cancel |-> FALSE, sent |-> FALSE, turn |-> 0]
    /\ sleeper = [pc |-> "none", turn |-> 0]
    /\ conn = "up"
    /\ rx = <<>>
    /\ server = FreshServer

Spend(kind) ==
    /\ budget[kind] > 0
    /\ budget' = [budget EXCEPT ![kind] = @ - 1]

(***************************************************************************)
(* Playback, the turn task, the connection and the timers                  *)
(***************************************************************************)
IsPlaying == audio.flag \/ audio.buffer

(* stop_playback and arm_for_next_turn *)
Stopped == [discard |-> TRUE, flag |-> FALSE, buffer |-> FALSE]
Rearmed == [audio EXCEPT !.discard = FALSE]

(* Cancelling the turn task, and awaiting the task cancelled: the dispatcher *)
(* may have started another one by the time the awaiting task goes on.       *)
LlmCancel == llm' = [llm EXCEPT !.cancel = (llm.pc # "none")]
LlmOver(turn) == llm.pc = "none" \/ llm.turn # turn

(* _send_json waits for a reconnection, opens a connection where there is   *)
(* none, and drops the frame on one that it finds broken.  One whose reader *)
(* is gone ("deaf") still carries it.                                       *)
Sends(s) ==
    /\ conn # "opening"
    /\ server' = IF conn = "broken" THEN server ELSE s
    /\ conn' = CASE conn = "broken" -> "dead" [] conn = "deaf" -> "deaf" [] OTHER -> "up"
Aborted(keepAsr) == [server EXCEPT !.text = {}, !.queued = {}, !.speaking = {},
                                   !.heard = @ /\ keepAsr]
EosTaken == [server EXCEPT !.eos = TRUE]

(* A task that arms or cancels the thinking watchdog ends its recovery too, *)
(* unless that awaits the turn task, where the cancellation is swallowed.   *)
Disarmed(armed) ==
    [think EXCEPT !.armed = armed, !.told = FALSE,
                  !.pc = IF @ = "reconnecting" /\ think.own THEN "none" ELSE @,
                  !.own = FALSE,
                  !.turn = IF think.pc = "cancelling" THEN @ ELSE 0]

(* Mutant: a turn that starts cancels the timer and sets no other. *)
LeftDisarmed == Disarmed(FALSE)

ArmThinking == Disarmed(TRUE)
CancelThinking == Disarmed(FALSE)
RecoveryCut == think.pc = "reconnecting" /\ think.own
ConnAfterCut == conn' = IF RecoveryCut /\ conn = "opening" THEN "dead" ELSE conn

(* A replaced connection is not the one the fallback is bound to. *)
Unbound == IF fallback = "armed" THEN "stale" ELSE fallback

(***************************************************************************)
(* The turn task: run_default_dialogue_turn under _run_user_utterance      *)
(***************************************************************************)

(* _on_reply_text_sent *)
ReplyTextGoes ==
    /\ awaiting' = FALSE
    /\ audio' = IF awaiting THEN Rearmed ELSE audio

LlmRuns == llm.pc = "run" /\ ~llm.cancel
LlmEnds == llm' = [llm EXCEPT !.pc = "none", !.cancel = FALSE, !.sent = FALSE]

(* A token is kept, then broadcast, and sent after that. *)
LlmToken ==
    /\ LlmRuns
    /\ llm' = [llm EXCEPT !.pc = "token", !.sent = TRUE]
    /\ UNCHANGED <<frame, fsm, turnVars, audio, watchVars, mic, disp, sleeper, conn, rx, server>>

LlmTokenSent ==
    /\ llm.pc = "token" /\ ~llm.cancel
    /\ llm' = [llm EXCEPT !.pc = "run"]
    /\ ReplyTextGoes
    /\ Sends([server EXCEPT !.text = @ \cup {llm.turn}])
    /\ UNCHANGED <<frame, fsm, eosSent, pending, firstSeen, watchVars, mic, disp, sleeper, rx>>

(* The flush of a completed turn; where it waits it can still be cancelled. *)
LlmFlush ==
    /\ ~llm.cancel
    /\ \/ llm.pc = "run" /\ ~deployment.contended
       \/ llm.pc = "flush"
    /\ LlmEnds /\ ReplyTextGoes
    /\ Sends([server EXCEPT !.flush = TRUE, !.queued = @ \cup server.text, !.text = {}])
    /\ UNCHANGED <<frame, fsm, eosSent, pending, firstSeen, watchVars, mic, disp, sleeper, rx>>

LlmFlushWaits ==
    /\ LlmRuns /\ deployment.contended
    /\ llm' = [llm EXCEPT !.pc = "flush"]
    /\ ReplyTextGoes
    /\ UNCHANGED <<frame, fsm, eosSent, pending, firstSeen, watchVars, mic, disp, sleeper,
                   conn, rx, server>>

(* Mutant: a cancelled turn leaves its text with the server. *)
DropsNothing == UNCHANGED <<audio, conn, server>>

(* Once there was a token, what was sent is aborted and playback is cut. *)
DropsReply ==
    IF llm.pc \in {"run", "token"} /\ llm.sent
    THEN audio' = Stopped /\ Sends(Aborted(FALSE))
    ELSE UNCHANGED <<audio, conn, server>>

LlmCancelled ==
    /\ llm.cancel
    /\ LlmEnds /\ DropsReply
    /\ UNCHANGED <<frame, fsm, turnVars, watchVars, mic, disp, sleeper, rx>>

LlmFails ==
    /\ LlmRuns /\ Spend("fail")
    /\ llm' = [llm EXCEPT !.pc = "failing"]
    /\ DropsReply
    /\ UNCHANGED <<deployment, fsm, turnVars, watchVars, mic, disp, sleeper, rx>>

(* after the on_error broadcast *)
LlmFailed ==
    /\ llm.pc = "failing" /\ ~llm.cancel
    /\ LlmEnds
    /\ fsm' = "IDLE"
    /\ UNCHANGED <<frame, turnVars, audio, watchVars, mic, disp, sleeper, conn, rx, server>>

LlmCompletes == LlmFlush \/ LlmFlushWaits
LlmStep == LlmTokenSent \/ LlmCompletes \/ LlmCancelled \/ LlmFailed

(***************************************************************************)
(* Barge-in: _interrupt_current_turn_for_barge_in, for a task that waits   *)
(* for the cancelled turn in "cancelling" and for the abort in "aborting"  *)
(***************************************************************************)
StopsReply(task) ==
    /\ task.pc = "cancelling" /\ LlmOver(task.turn)
    /\ audio' = Stopped
    /\ \/ Sends(Aborted(TRUE))
       \/ conn = "opening" /\ UNCHANGED <<conn, server>>   \* it waits 0.5 s at most
    /\ UNCHANGED <<frame, fsm, turnVars, watchVars, llm, sleeper, rx>>

(* Mutant: a barge-in relies on the client VAD to end the utterance. *)
FallbackForgotten == "off"

(* _arm_bargein_eos_fallback *)
FallbackArmed == IF deployment.drive /\ mic.vad = "idle" THEN "armed" ELSE "off"

InterruptResets ==
    /\ eosSent' = FALSE /\ asrWatch' = FALSE /\ firstSeen' = FALSE
    /\ fallback' = FallbackArmed
    /\ UNCHANGED <<frame, pending, think, llm, sleeper, conn, rx, server>>

DispStops ==
    /\ StopsReply(disp)
    /\ disp' = [disp EXCEPT !.pc = "aborting", !.turn = 0]
    /\ UNCHANGED mic

MicStops ==
    /\ StopsReply(mic)
    /\ mic' = [mic EXCEPT !.pc = "aborting", !.turn = 0]
    /\ UNCHANGED disp

MicResets ==
    /\ mic.pc = "aborting"
    /\ InterruptResets
    /\ mic' = [mic EXCEPT !.pc = "ready", !.turn = 0]
    /\ UNCHANGED <<fsm, awaiting, audio, disp>>

(* A new utterance over a reply that still plays keeps the latch until the  *)
(* new reply's text goes out; an interrupted partial ends there.            *)
DispResets ==
    /\ disp.pc = "aborting"
    /\ InterruptResets
    /\ \/ /\ disp.after = "partial"
          /\ disp' = Ready
          /\ UNCHANGED <<awaiting, mic>>
       \/ /\ disp.after = "supersede"
          /\ awaiting' = TRUE
          /\ mic' = [mic EXCEPT !.vad = "idle", !.echo = FALSE]
          /\ disp' = [disp EXCEPT !.pc = "utterance"]
    /\ UNCHANGED <<fsm, audio>>

(***************************************************************************)
(* Microphone: _update_vad, with client VAD                                *)
(***************************************************************************)
SpeechStarts ==
    /\ deployment.drive /\ mic.pc = "ready" /\ mic.vad = "idle" /\ fsm # "SLEEPING"
    /\ Spend("segment")
    /\ fallback' = "off"
    /\ LET fresh == fsm = "THINKING" /\ eosSent IN
         /\ eosSent' = (eosSent /\ ~fresh)
         /\ asrWatch' = (asrWatch /\ ~fresh)
    /\ UNCHANGED <<deployment, pending, awaiting, firstSeen, audio, think, disp, sleeper, conn,
                   rx, server>>

(* over a reply, later than barge_in_min_speaking_ms *)
MicBargesIn ==
    /\ SpeechStarts
    /\ IsPlaying /\ fsm = "SPEAKING"
    /\ fsm' = "BARGED_IN"
    /\ LlmCancel
    /\ mic' = [pc |-> "cancelling", vad |-> "speech", echo |-> FALSE, turn |-> llm.turn]

(* over a reply, earlier than that *)
MicHearsEcho ==
    /\ SpeechStarts
    /\ IsPlaying /\ fsm = "SPEAKING"
    /\ mic' = [mic EXCEPT !.vad = "speech", !.echo = TRUE]
    /\ UNCHANGED <<fsm, llm>>

MicListens ==
    /\ SpeechStarts
    /\ ~(IsPlaying /\ fsm = "SPEAKING")
    /\ fsm' = IF IsPlaying THEN fsm ELSE "LISTENING"
    /\ mic' = [mic EXCEPT !.vad = "speech", !.echo = FALSE]
    /\ UNCHANGED llm

SpeechEnds ==
    /\ mic.pc = "ready" /\ mic.vad = "speech" /\ fsm # "SLEEPING"
    /\ mic' = IF mic.echo /\ fsm = "SPEAKING"
              THEN [mic EXCEPT !.vad = "idle", !.echo = FALSE]
              ELSE [mic EXCEPT !.pc = "ending"]
    /\ UNCHANGED <<frame, fsm, turnVars, audio, watchVars, disp, llm, sleeper, conn, rx, server>>

(* after the on_user_speech_end_client broadcast: send_asr_eos_once *)
MicSendsEos ==
    /\ mic.pc = "ending"
    /\ IF eosSent THEN ConnAfterCut /\ UNCHANGED <<asrWatch, server>>
       ELSE asrWatch' = TRUE /\ Sends(EosTaken)
    /\ eosSent' = TRUE
    /\ fsm' = "THINKING"
    /\ think' = ArmThinking
    /\ mic' = [mic EXCEPT !.pc = "ready", !.vad = "idle", !.echo = FALSE]
    /\ UNCHANGED <<frame, pending, awaiting, firstSeen, audio, fallback, disp, llm, sleeper, rx>>

(* Speech reaches the server: while the client VAD hears it, or always. *)
UserSpeaks ==
    /\ mic.pc = "ready" /\ fsm # "SLEEPING" /\ conn = "up" /\ ~server.heard
    /\ deployment.drive => mic.vad = "speech"
    /\ server' = [server EXCEPT !.heard = TRUE]
    /\ UNCHANGED <<frame, fsm, turnVars, audio, watchVars, mic, disp, llm, sleeper, conn, rx>>

(* send_audio on a connection found dead opens another one. *)
AudioReconnects ==
    /\ conn \in {"broken", "dead"} /\ mic.pc = "ready" /\ fsm # "SLEEPING"
    /\ conn' = "up"
    /\ fallback' = Unbound
    /\ UNCHANGED <<frame, fsm, turnVars, audio, asrWatch, think, mic, disp, llm, sleeper, rx, server>>

Plays ==
    /\ audio.buffer
    /\ audio' = [audio EXCEPT !.buffer = FALSE]
    /\ UNCHANGED <<frame, fsm, turnVars, watchVars, mic, disp, llm, sleeper, conn, rx, server>>

(***************************************************************************)
(* Dispatcher: _slv_dispatch and _dispatch_one                             *)
(***************************************************************************)
Takes(kinds) ==
    /\ disp.pc = "ready" /\ rx # <<>> /\ Head(rx) \in kinds
    /\ rx' = Tail(rx)
    /\ UNCHANGED <<frame, sleeper>>

(* A superseded reply's tail, and recognition while asleep, are dropped. *)
Dropped ==
    \/ awaiting /\ Head(rx) \in TtsEvents
    \/ fsm = "SLEEPING" /\ Head(rx) \in AsrEvents

DispDrops ==
    /\ Takes(Events) /\ Dropped
    /\ UNCHANGED <<fsm, turnVars, audio, watchVars, mic, disp, llm, conn, server>>

OnTtsStarted ==
    /\ Takes({"started"}) /\ ~Dropped
    /\ think' = [CancelThinking EXCEPT !.told = think.armed \/ think.told]
    /\ ConnAfterCut
    /\ UNCHANGED <<fsm, turnVars, audio, asrWatch, fallback, mic, disp, llm, server>>

(* The frame is played after the on_tts_audio_frame broadcast. *)
OnTtsAudio ==
    /\ Takes({"audio"}) /\ ~Dropped
    /\ IF fsm = "BARGED_IN" THEN UNCHANGED <<fsm, firstSeen, disp>>
       ELSE /\ fsm' = IF firstSeen THEN fsm ELSE "SPEAKING"
            /\ firstSeen' = TRUE
            /\ disp' = [disp EXCEPT !.pc = "frame"]
    /\ UNCHANGED <<eosSent, pending, awaiting, audio, watchVars, mic, llm, conn, server>>

(* Mutant: play() does not look at the latch. *)
PlayedRegardless == [audio EXCEPT !.flag = TRUE, !.buffer = TRUE]

(* play() *)
Played == IF audio.discard THEN audio ELSE [audio EXCEPT !.flag = TRUE, !.buffer = TRUE]

FramePlays ==
    /\ disp.pc = "frame"
    /\ disp' = Ready
    /\ audio' = Played
    /\ UNCHANGED <<frame, fsm, turnVars, watchVars, mic, llm, sleeper, conn, rx, server>>

(* _complete_assistant_turn, up to and after the on_assistant_done broadcast *)
OnTtsDone ==
    /\ Takes({"done"}) /\ ~Dropped
    /\ firstSeen' = FALSE
    /\ think' = CancelThinking /\ ConnAfterCut
    /\ audio' = [audio EXCEPT !.flag = FALSE]
    /\ fsm' = IF fsm = "BARGED_IN" THEN fsm ELSE "IDLE"
    /\ disp' = [disp EXCEPT !.pc = "done"]
    /\ UNCHANGED <<eosSent, pending, awaiting, asrWatch, fallback, mic, llm, server>>

TurnCompletes ==
    /\ disp.pc = "done"
    /\ disp' = Ready
    /\ firstSeen' = FALSE /\ eosSent' = FALSE
    /\ UNCHANGED <<frame, fsm, pending, awaiting, audio, watchVars, mic, llm, sleeper, conn, rx, server>>

(* A partial over a reply barges in, unless it is short or early. *)
PartialBargesIn ==
    /\ Takes({"partial"}) /\ ~Dropped
    /\ fsm \in {"SPEAKING", "BARGED_IN"} /\ IsPlaying
    /\ fsm' = "BARGED_IN"
    /\ LlmCancel
    /\ disp' = [disp EXCEPT !.pc = "cancelling", !.after = "partial", !.turn = llm.turn]
    /\ UNCHANGED <<turnVars, audio, watchVars, mic, conn, server>>

PartialShown ==
    /\ Takes({"partial"}) /\ ~Dropped
    /\ UNCHANGED <<fsm, turnVars, audio, watchVars, mic, disp, llm, conn, server>>

(* The client owns the endpoint: a final before its EOS is a segment. *)
IsSegment == deployment.drive /\ ~eosSent /\ fsm \in {"LISTENING", "BARGED_IN"}
AnswersEos == eosSent /\ pending   \* a low-signal final closes what is pending

OnSegment ==
    /\ Takes({"final", "stop"}) /\ ~Dropped /\ IsSegment
    /\ pending' = TRUE
    /\ asrWatch' = FALSE
    /\ UNCHANGED <<fsm, eosSent, awaiting, firstSeen, audio, think, fallback, mic, disp, llm,
                   conn, server>>

OnUtterance ==
    /\ Takes({"final", "stop", "low"}) /\ ~Dropped
    /\ IF Head(rx) = "low" THEN AnswersEos ELSE ~IsSegment
    /\ asrWatch' = FALSE /\ eosSent' = FALSE /\ pending' = FALSE
    /\ IF IsPlaying
       THEN /\ LlmCancel
            /\ disp' = [pc |-> "cancelling", kind |-> Head(rx), after |-> "supersede",
                        turn |-> llm.turn]
            /\ UNCHANGED <<awaiting, audio, mic>>
       ELSE /\ awaiting' = FALSE
            /\ audio' = Rearmed
            /\ mic' = [mic EXCEPT !.vad = "idle", !.echo = FALSE]
            /\ disp' = [disp EXCEPT !.pc = "utterance", !.kind = Head(rx)]
            /\ UNCHANGED llm
    /\ UNCHANGED <<fsm, firstSeen, think, fallback, conn, server>>

OnLowSignal ==
    /\ Takes({"low"}) /\ ~Dropped /\ ~AnswersEos
    /\ asrWatch' = FALSE /\ eosSent' = FALSE
    /\ audio' = Rearmed
    /\ fsm' = IF \/ fsm \in {"LISTENING", "BARGED_IN"} /\ ~pending
                 \/ fsm = "THINKING" /\ eosSent
              THEN "IDLE" ELSE fsm
    /\ UNCHANGED <<pending, awaiting, firstSeen, think, fallback, mic, disp, llm, conn, server>>

(* after the on_user_utterance broadcast *)
UtteranceGoes ==
    /\ disp.pc = "utterance"
    /\ LlmCancel
    /\ disp' = [disp EXCEPT !.pc = IF disp.kind = "stop" THEN "stopping" ELSE "replacing",
                            !.turn = llm.turn]
    /\ awaiting' = (awaiting /\ disp.kind # "stop")
    /\ UNCHANGED <<frame, fsm, eosSent, pending, firstSeen, audio, watchVars, mic, sleeper,
                   conn, rx, server>>

StopIntent ==
    /\ disp.pc = "stopping" /\ LlmOver(disp.turn)
    /\ disp' = Ready
    /\ Sends(Aborted(FALSE))
    /\ audio' = Stopped
    /\ fsm' = "IDLE"
    /\ UNCHANGED <<frame, turnVars, watchVars, mic, llm, sleeper, rx>>

TurnStarts ==
    /\ disp.pc = "replacing" /\ LlmOver(disp.turn)
    /\ disp' = Ready
    /\ fsm' = "THINKING"
    /\ think' = ArmThinking /\ ConnAfterCut
    /\ llm' = [pc |-> "run", cancel |-> FALSE, sent |-> FALSE, turn |-> llm.turn + 1]
    /\ UNCHANGED <<frame, turnVars, audio, asrWatch, fallback, mic, sleeper, rx, server>>

(* up to the on_error broadcast; the state before it decides what follows *)
OnError ==
    /\ Takes({"error"})
    /\ asrWatch' = FALSE /\ pending' = FALSE
    /\ think' = CancelThinking /\ ConnAfterCut
    /\ disp' = [disp EXCEPT !.pc = "erring",
                            !.after = IF fsm = "SLEEPING" THEN "asleep" ELSE "idle"]
    /\ UNCHANGED <<fsm, eosSent, awaiting, firstSeen, audio, fallback, mic, llm, server>>

ErrorCancels ==
    /\ disp.pc = "erring"
    /\ LlmCancel
    /\ disp' = [disp EXCEPT !.pc = "failing", !.turn = llm.turn]
    /\ UNCHANGED <<frame, fsm, turnVars, audio, watchVars, mic, sleeper, conn, rx, server>>

ErrorHandled ==
    /\ disp.pc = "failing" /\ LlmOver(disp.turn)
    /\ disp' = Ready
    /\ fsm' = IF disp.after = "asleep" THEN fsm ELSE "IDLE"
    /\ UNCHANGED <<frame, turnVars, audio, watchVars, mic, llm, sleeper, conn, rx, server>>

(* The reader is gone and its events are handled: the old session is closed, *)
(* another one opened, and what belonged to the old one is reset.            *)
DispReconnects ==
    /\ disp.pc = "ready" /\ rx = <<>> /\ conn \in {"broken", "deaf", "dead"}
    /\ conn' = "opening"
    /\ server' = FreshServer
    /\ disp' = [disp EXCEPT !.pc = "reconnecting"]
    /\ UNCHANGED <<frame, fsm, turnVars, audio, watchVars, mic, llm, sleeper, rx>>

DispReconnected ==
    /\ disp.pc = "reconnecting"
    /\ conn' = "up"
    /\ disp' = Ready
    /\ firstSeen' = FALSE /\ eosSent' = FALSE /\ pending' = FALSE /\ asrWatch' = FALSE
    /\ fsm' = IF fsm \in {"THINKING", "BARGED_IN"} THEN "IDLE" ELSE fsm
    /\ fallback' = Unbound
    /\ UNCHANGED <<frame, awaiting, audio, think, mic, llm, sleeper, rx, server>>

DispStep ==
    \/ DispDrops \/ OnTtsStarted \/ OnTtsAudio \/ FramePlays \/ OnTtsDone \/ TurnCompletes
    \/ PartialBargesIn \/ PartialShown \/ OnSegment \/ OnUtterance \/ OnLowSignal
    \/ UtteranceGoes \/ StopIntent \/ TurnStarts \/ OnError \/ ErrorCancels \/ ErrorHandled
    \/ DispReconnects \/ DispReconnected \/ DispStops \/ DispResets

(***************************************************************************)
(* Watchdogs                                                               *)
(***************************************************************************)
AsrWatchFires ==
    /\ asrWatch
    /\ asrWatch' = FALSE
    /\ eosSent' = FALSE
    /\ IF eosSent /\ fsm = "THINKING"
       THEN pending' = FALSE /\ fsm' = "IDLE"
       ELSE UNCHANGED <<pending, fsm>>
    /\ UNCHANGED <<frame, awaiting, firstSeen, audio, think, fallback, mic, disp, llm, sleeper,
                   conn, rx, server>>

(* Nothing more comes of the turn by itself. *)
Stalled ==
    /\ llm.pc = "none" /\ disp.pc = "ready" /\ server.speaking = {}
    /\ \A i \in DOMAIN rx : rx[i] \in {"partial", "low"}
    /\ server.wedged \/ (server.text \cup server.queued = {} /\ ~server.flush)

(* A recovery is over long before the next timeout. *)
ThinkFires ==
    /\ think.armed /\ think.pc = "none"
    /\ deployment.patient => Stalled
    /\ IF fsm = "THINKING"
       THEN /\ LlmCancel
            /\ think' = [armed |-> FALSE, told |-> FALSE, pc |-> "cancelling", own |-> TRUE,
                      turn |-> llm.turn]
       ELSE think' = [think EXCEPT !.armed = FALSE] /\ UNCHANGED llm
    /\ UNCHANGED <<frame, fsm, turnVars, audio, asrWatch, fallback, mic, disp, sleeper, conn, rx, server>>

(* The abort, and the old session closed; reconnect() has one lock. *)
ThinkReconnects ==
    /\ think.pc = "cancelling" /\ LlmOver(think.turn) /\ conn # "opening"
    /\ think' = [think EXCEPT !.pc = "reconnecting", !.turn = 0]
    /\ conn' = "opening"
    /\ server' = FreshServer
    /\ UNCHANGED <<frame, fsm, turnVars, audio, asrWatch, fallback, mic, disp, llm, sleeper, rx>>

ThinkResets ==
    /\ think.pc = "reconnecting"
    /\ think' = [think EXCEPT !.pc = "none", !.own = FALSE, !.turn = 0]
    /\ conn' = "up"
    /\ fallback' = Unbound
    /\ firstSeen' = FALSE /\ eosSent' = FALSE
    /\ fsm' = "IDLE"
    /\ UNCHANGED <<frame, pending, awaiting, audio, asrWatch, mic, disp, llm, sleeper, rx, server>>

(* No EOS goes to another connection than the one that heard the utterance. *)
FallbackFires ==
    /\ fallback \in {"armed", "stale"}
    /\ \/ /\ mic.vad = "speech" \/ fsm # "BARGED_IN"
          /\ fallback' = "off"
          /\ UNCHANGED <<eosSent, conn, server>>
       \/ /\ mic.vad = "idle" /\ fsm = "BARGED_IN"
          /\ fallback = "stale" \/ conn \in {"dead", "opening"}
          /\ fallback' = "givenUp"
          /\ UNCHANGED <<eosSent, conn, server>>
       \/ /\ mic.vad = "idle" /\ fsm = "BARGED_IN"
          /\ fallback = "armed" /\ conn \notin {"dead", "opening"}
          /\ fallback' = "sending"
          /\ eosSent' = TRUE
          /\ IF eosSent THEN UNCHANGED <<conn, server>> ELSE Sends(EosTaken)
    /\ UNCHANGED <<frame, fsm, pending, awaiting, firstSeen, audio, asrWatch, think, mic, disp,
                   llm, sleeper, rx>>

(* after asr_eos *)
FallbackSent ==
    /\ fallback = "sending"
    /\ fallback' = "off"
    /\ asrWatch' = TRUE
    /\ IF fsm = "BARGED_IN"
       THEN fsm' = "THINKING" /\ think' = ArmThinking /\ ConnAfterCut
       ELSE UNCHANGED <<fsm, think, conn>>
    /\ UNCHANGED <<frame, turnVars, audio, mic, disp, llm, sleeper, rx, server>>

(***************************************************************************)
(* sleep() and wake()                                                      *)
(***************************************************************************)
SleepBegins ==
    /\ sleeper.pc = "none" /\ fsm # "SLEEPING" /\ Spend("sleep")
    /\ LlmCancel
    /\ sleeper' = [pc |-> "cancelling", turn |-> llm.turn]
    /\ UNCHANGED <<deployment, fsm, turnVars, audio, watchVars, mic, disp, conn, rx, server>>

SleepAborts ==
    /\ sleeper.pc = "cancelling" /\ LlmOver(sleeper.turn)
    /\ sleeper' = [pc |-> "aborting", turn |-> 0]
    /\ Sends(Aborted(FALSE))
    /\ UNCHANGED <<frame, fsm, turnVars, audio, watchVars, mic, disp, llm, rx>>

SleepEnds ==
    /\ sleeper.pc = "aborting"
    /\ sleeper' = [pc |-> "none", turn |-> 0]
    /\ audio' = Stopped
    /\ pending' = FALSE /\ firstSeen' = FALSE
    /\ fsm' = "SLEEPING"
    /\ UNCHANGED <<frame, eosSent, awaiting, watchVars, mic, disp, llm, conn, rx, server>>

(* wake(), on a connection that is alive or has been replaced *)
Wake ==
    /\ fsm = "SLEEPING" /\ conn = "up"
    /\ audio' = Rearmed
    /\ fsm' = "IDLE"
    /\ UNCHANGED <<frame, turnVars, watchVars, mic, disp, llm, sleeper, conn, rx, server>>

(***************************************************************************)
(* The server's session (external)                                         *)
(***************************************************************************)
ServerSide == UNCHANGED <<deployment, fsm, turnVars, audio, watchVars, mic, disp, llm, sleeper>>
Emits(kind) == conn = "up" /\ Len(rx) < MaxQueue /\ rx' = Append(rx, kind)

ServerPartial ==
    /\ server.heard /\ Emits("partial")
    /\ UNCHANGED <<budget, conn, server>> /\ ServerSide

(* A final of what was heard: at the server's endpoint, or after an EOS. *)
ServerFinal ==
    /\ server.heard
    /\ \/ Spend("turn") /\ Emits("final")
       \/ budget["turn"] > 0 /\ Spend("stop") /\ Emits("stop")
       \/ Emits("low") /\ UNCHANGED budget
    /\ server' = [server EXCEPT !.heard = FALSE, !.eos = FALSE]
    /\ UNCHANGED conn /\ ServerSide

(* An EOS with nothing heard: an empty final, or none. *)
ServerEmptyFinal ==
    /\ server.eos /\ ~server.heard
    /\ Emits("low") \/ UNCHANGED rx
    /\ server' = [server EXCEPT !.eos = FALSE]
    /\ UNCHANGED <<budget, conn>> /\ ServerSide

ServerStarts ==
    /\ server.speaking = {} /\ ~server.wedged
    /\ Emits("started")
    /\ \/ /\ server.queued # {}
          /\ server' = [server EXCEPT !.speaking = server.queued, !.begun = server.queued,
                                      !.queued = {}]
       \/ /\ server.queued = {} /\ server.text # {}
          /\ server' = [server EXCEPT !.speaking = server.text, !.begun = server.text,
                                      !.text = {}]
    /\ UNCHANGED <<budget, conn>> /\ ServerSide

ServerSpeaks ==
    /\ server.speaking # {} /\ Emits("audio")
    /\ server' = [server EXCEPT !.speaking = {}]
    /\ UNCHANGED <<budget, conn>> /\ ServerSide

ServerDone ==
    /\ server.flush /\ server.queued = {} /\ server.speaking = {}
    /\ Emits("done")
    /\ server' = [server EXCEPT !.flush = FALSE]
    /\ UNCHANGED <<budget, conn>> /\ ServerSide

ServerWedges ==
    /\ ~server.wedged /\ Spend("wedge")
    /\ server' = [server EXCEPT !.wedged = TRUE]
    /\ UNCHANGED <<conn, rx>> /\ ServerSide

(***************************************************************************)
(* The end of the reader: _reader_loop                                     *)
(***************************************************************************)
ReaderErrs == rx' = Append(rx, "error")

(* The socket is lost, or closed with an error. *)
ConnectionDies ==
    /\ conn = "up" /\ Spend("loss")
    /\ conn' = "broken"
    /\ server' = FreshServer
    /\ ReaderErrs
    /\ ServerSide

(* A close with 1000 or 1001 ends the reader without an error. *)
ConnectionCloses ==
    /\ conn = "up" /\ Spend("loss")
    /\ conn' = "broken"
    /\ server' = FreshServer
    /\ UNCHANGED rx /\ ServerSide

(* A message its handler raises on: nobody reads the socket, which is open. *)
ReaderCrashes ==
    /\ conn = "up" /\ Spend("loss")
    /\ conn' = "deaf"
    /\ ReaderErrs
    /\ UNCHANGED server /\ ServerSide

(***************************************************************************)
Next ==
    \/ LlmToken \/ LlmFails \/ LlmStep
    \/ DispStep
    \/ MicStops \/ MicResets \/ MicBargesIn \/ MicHearsEcho \/ MicListens \/ SpeechEnds
    \/ MicSendsEos \/ UserSpeaks \/ AudioReconnects \/ Plays
    \/ AsrWatchFires \/ ThinkFires \/ ThinkReconnects \/ ThinkResets
    \/ FallbackFires \/ FallbackSent
    \/ SleepBegins \/ SleepAborts \/ SleepEnds \/ Wake
    \/ ServerPartial \/ ServerFinal \/ ServerEmptyFinal \/ ServerStarts \/ ServerSpeaks
    \/ ServerDone \/ ServerWedges \/ ConnectionDies \/ ConnectionCloses \/ ReaderCrashes

(* Tasks that can go on do, timers fire, a reply has finitely many tokens    *)
(* and completes unless it is cancelled or fails, playback drains, and a     *)
(* user who has begun to speak stops; a server that has begun to speak goes  *)
(* on, and begins unless it is wedged.  Its events are not kept out for ever *)
(* by others: that the queue is ever full is a bound of the model only.      *)
Fairness ==
    /\ WF_vars(LlmStep) /\ SF_vars(LlmCompletes) /\ WF_vars(DispStep)
    /\ WF_vars(MicStops \/ MicResets \/ MicSendsEos) /\ WF_vars(SpeechEnds) /\ WF_vars(Plays)
    /\ WF_vars(AsrWatchFires) /\ WF_vars(ThinkFires)
    /\ WF_vars(ThinkReconnects \/ ThinkResets)
    /\ WF_vars(FallbackFires \/ FallbackSent)
    /\ WF_vars(SleepAborts \/ SleepEnds)
    /\ SF_vars(ServerStarts) /\ SF_vars(ServerSpeaks) /\ SF_vars(ServerDone)

Spec == Init /\ [][Next]_vars /\ Fairness

(***************************************************************************)
(* Properties                                                              *)
(***************************************************************************)

(* The server never holds text of two turns: the tokens of a turn are not   *)
(* appended to those of a turn that was cancelled (app_mode.py:370-382).    *)
RepliesDontMix == Cardinality(server.text) <= 1

(* Once a barge-in has been carried out nothing plays until the next turn,  *)
(* whatever frames were on their way (app_base.py:2672, audio_io.py:871).   *)
BargedInIsSilent ==
    fsm = "BARGED_IN" /\ disp.pc \notin {"cancelling", "aborting"} /\ mic.pc # "cancelling"
      => ~IsPlaying

(* The tts_started that stood the watchdog down was an earlier reply's     *)
(* (app_base.py:3758), or its session is gone without an error: the text of *)
(* this turn has not begun in the session.                                  *)
Deceived == think.told /\ ~think.armed /\ llm.turn \notin server.begun

(* Where the server finds the end of speech and the thinking timeout is     *)
(* long, a reply, a failure, a watchdog or a reconnection ends THINKING     *)
(* (app_base.py:2853), unless the watchdog was stood down by a tts_started  *)
(* that was not for this turn and the turn's own never comes.               *)
ThinkingEnds ==
    deployment.patient /\ ~deployment.drive /\ fsm = "THINKING"
      ~> fsm # "THINKING" \/ []Deceived

(* With client VAD a barge-in comes to its end: a segment, or the fallback, *)
(* closes the utterance (app_base.py:2751), unless the fallback found its   *)
(* connection replaced and the user does not speak again.  A connection     *)
(* that closed with an error, or that the dispatcher replaced, is no such   *)
(* case: the error or the reconnection ends the barge-in.                   *)
BargedInEnds ==
    deployment.patient /\ deployment.drive /\ fsm = "BARGED_IN"
      ~> fsm # "BARGED_IN" \/ [](fallback = "givenUp")

(* Asleep, the agent stays asleep until it is woken (state.py:13-15).       *)
StaysAsleep == [][fsm = "SLEEPING" /\ fsm' # "SLEEPING" => Wake]_vars

(* The text of a reply in progress goes out with playback armed             *)
(* (app_base.py:3596-3599).                                                 *)
RepliesAreAudible == llm.pc = "run" /\ ~llm.cancel /\ llm.sent => ~audio.discard

(* The user's utterance survives the barge-in it makes (app_base.py:2681).  *)
KeepsUtterance ==
    [][server.heard /\ ~server'.heard /\ rx' = rx
         => ~(disp.pc = "cancelling" \/ mic.pc = "cancelling")]_vars
=============================================================================
