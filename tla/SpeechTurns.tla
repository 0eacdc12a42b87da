---------------------------- MODULE SpeechTurns ----------------------------
(***************************************************************************)
(* The recognition half of one /v2v/stream session (server/main.py):       *)
(* `dispatcher' receives frames and feeds the recogniser, `asr_out_task'   *)
(* finds the end of each utterance, finalizes it, sends the final and opens *)
(* the utterances queued meanwhile.  Both are asyncio tasks over one        *)
(* dictionary, here the record `state'; a step is what a task does between *)
(* two awaits.                                                             *)
(*                                                                         *)
(* `mgr' is the ASRSessionManager of the engine library, as the code uses  *)
(* it: on_speech_start replaces the stream and returns a new generation,   *)
(* finalize_with_status is accepted when its generation is still the       *)
(* current one at the end, cancel leaves it idle.                          *)
(*                                                                         *)
(* Audio is which utterance it belongs to.  Context audio (the preroll     *)
(* ring and the pending tail), partial transcripts and the enrichment of   *)
(* finals are left out; a full pending buffer is the choice "overflow".    *)
(***************************************************************************)
EXTENDS Integers, Sequences, FiniteSets

CONSTANTS
    MaxUtterances,   \* utterances the user speaks
    MaxGen,          \* generations the recogniser may open
    MaxDisturb,      \* how often each kind of disturbance may happen
    Deployments      \* sessions to explore: [multi, detector, disturb, utterances]

Disturbances == {"abort", "keep", "eos", "leave", "deadline", "timeout",
                 "unavailable", "overflow", "jam", "prepare", "crash"}

ASSUME BoundsAssumption ==
    /\ MaxUtterances \in Nat \ {0} /\ MaxGen \in Nat \ {0} /\ MaxDisturb \in Nat
    /\ \A d \in Deployments :
         /\ d.multi \in BOOLEAN
         /\ d.detector \in {"vad", "backend", "none"}
         /\ d.disturb \subseteq Disturbances
         /\ d.utterances \in 0 .. MaxUtterances

VARIABLES
    deployment,  \* the session's configuration, chosen once
    budget,      \* disturbances of each kind still to come
    mic,         \* [utt, talking]: the utterance being, or last, spoken
    state,       \* the `state' dictionary the two tasks share
    disp,        \* dispatcher: [pc, seg], the segment in its hands
    out,         \* asr_out_task: [pc, gen, by, end, turn]
    fin,         \* its finalize child task: [st, gen, ok]
    jobs,        \* [prep, cancel]: prepare task's generation, cancel task running
    sends,       \* tasks queued on send_lock, first come first served
    mgr,         \* the session manager: [st, gen]
    heard,       \* per generation, the utterances its stream was fed
    finals,      \* what each accepted final was the transcript of
    history      \* [answered, astray]: the endpoint now latched has had its final;
                 \* a drain failed or was aborted,
                 \* or an endpoint was latched with no turn active

vars == <<deployment, budget, mic, state, disp, out, fin, jobs, sends, mgr,
          heard, finals, history>>
asrVars == <<mgr, heard>>
outVars == <<out, fin, finals>>
world == <<deployment, mic>>

Multi == deployment.multi
FrontendVad == deployment.detector # "none"
BackendEndpoint == deployment.detector = "backend"
Utterances == 1 .. MaxUtterances
Generations == 1 .. MaxGen

NoEndpoint == [by |-> "none", gen |-> 0]
NoTurn == [utt |-> 0, ended |-> FALSE]
NoSegment == [utt |-> 0, kind |-> "silence"]

Kinds == {"start", "speech", "end", "silence"}
Segments == [utt : 0 .. MaxUtterances, kind : Kinds]

(* What the frontend detector says of a segment. *)
Event(seg) == IF FrontendVad /\ seg.kind \in {"start", "end"} THEN seg.kind ELSE "none"

Markers == [by : {"none", "vad", "client_eos"}, gen : 0 .. MaxGen]
Turns == [utt : 0 .. MaxUtterances, ended : BOOLEAN]
SessionState ==
    [endpoint : Markers, finalizing : 0 .. MaxGen, active : BOOLEAN, gen : 0 .. MaxGen,
     once : BOOLEAN, closed : BOOLEAN, clientClosed : BOOLEAN,
     abortRequested : BOOLEAN, draining : BOOLEAN, pending : Seq(Turns)]
DispTask ==
    [pc : {"receive", "join", "announce", "queue", "opening", "feeding", "notify",
           "refused", "jammed", "over"},
     seg : Segments]
OutTask ==
    [pc : {"loop", "polled", "fired", "preparing", "finalizing", "cancelling", "emitting",
           "failing", "deadline", "expired", "reopening", "refeeding", "giveUp", "over"},
     gen : 0 .. MaxGen, by : {"none", "vad", "client_eos"}, end : BOOLEAN, turn : Turns]
FinTask == [st : {"none", "running", "done", "cancelled"}, gen : 0 .. MaxGen, ok : BOOLEAN]

TypeOK ==
    /\ deployment \in Deployments
    /\ budget \in [Disturbances -> 0 .. MaxDisturb]
    /\ mic \in [utt : 0 .. MaxUtterances, talking : BOOLEAN]
    /\ state \in SessionState /\ disp \in DispTask /\ out \in OutTask /\ fin \in FinTask
    /\ jobs \in [prep : 0 .. MaxGen, cancel : BOOLEAN]
    /\ sends \in Seq({"disp", "out"})
    /\ mgr \in [st : {"IDLE", "ACTIVE", "FINALIZING"}, gen : 0 .. MaxGen]
    /\ heard \in [Generations -> SUBSET Utterances]
    /\ finals \in Seq(SUBSET Utterances)
    /\ history \in [answered : BOOLEAN, astray : BOOLEAN]

Init ==
    /\ deployment \in Deployments
    /\ budget = [d \in Disturbances |->
                    IF d \in deployment.disturb THEN MaxDisturb ELSE 0]
    /\ mic = [utt |-> 0, talking |-> FALSE]
    /\ state = [endpoint |-> NoEndpoint, finalizing |-> 0, active |-> FALSE,
                gen |-> 0, once |-> FALSE, closed |-> FALSE,
                clientClosed |-> FALSE, abortRequested |-> FALSE,
                draining |-> FALSE, pending |-> <<>>]
    /\ disp = [pc |-> "receive", seg |-> NoSegment]
    /\ out = [pc |-> "loop", gen |-> 0, by |-> "none", end |-> FALSE, turn |-> NoTurn]
    /\ fin = [st |-> "none", gen |-> 0, ok |-> FALSE]
    /\ jobs = [prep |-> 0, cancel |-> FALSE]
    /\ sends = <<>>
    /\ mgr = [st |-> "IDLE", gen |-> 0]
    /\ heard = [g \in Generations |-> {}]
    /\ finals = <<>>
    /\ history = [answered |-> FALSE, astray |-> FALSE]

Disturb(kind) ==
    /\ budget[kind] > 0
    /\ budget' = [budget EXCEPT ![kind] = @ - 1]

(***************************************************************************)
(* The engine's session manager                                            *)
(***************************************************************************)
OnSpeechStart == mgr.gen < MaxGen /\ mgr' = [st |-> "ACTIVE", gen |-> mgr.gen + 1]
CancelStream == mgr' = [mgr EXCEPT !.st = "IDLE"]

Answered(b) == history' = [history EXCEPT !.answered = b]
Latched == history' = [answered |-> FALSE, astray |-> history.astray \/ ~state.active]

(* accept_audio feeds whatever stream is current. *)
FedWith(utt) ==
    IF mgr.st = "ACTIVE" /\ utt # 0 THEN [heard EXCEPT ![mgr.gen] = @ \cup {utt}]
                                    ELSE heard

(* finalize_with_status, in the child task of asr_out_task. *)
FinalizeEnds ==
    /\ fin.st = "running"
    /\ LET ok == mgr.st = "FINALIZING" /\ mgr.gen = fin.gen IN
         /\ fin' = [fin EXCEPT !.st = "done", !.ok = ok]
         /\ IF ok THEN CancelStream ELSE UNCHANGED mgr
    /\ UNCHANGED <<world, budget, state, disp, out, jobs, sends, heard, finals, history>>

(* The worker restarts or its rebuild is exhausted: the manager drops to     *)
(* idle while asr_active still points at the dead generation.              *)
EngineFalls ==
    /\ mgr.st # "IDLE" /\ Disturb("crash")
    /\ CancelStream
    /\ UNCHANGED <<world, state, disp, outVars, jobs, sends, heard, history>>

(* _run_prepare ends, however it ends. *)
PrepareEnds ==
    /\ jobs.prep # 0
    /\ jobs' = [jobs EXCEPT !.prep = 0]
    /\ UNCHANGED <<world, budget, state, disp, outVars, sends, asrVars, history>>

(* The task an abort left behind: asr_manager.cancel("bargein").  It goes   *)
(* through the manager's lock and a thread, so asr_out_task, which the same *)
(* abort woke or the end of the finalize before it, has run by then.       *)
AbortCancelEnds ==
    /\ jobs.cancel
    /\ ~(out.pc = "preparing" /\ jobs.prep # out.gen)
    /\ ~(out.pc = "finalizing" /\ fin.st # "running")
    /\ jobs' = [jobs EXCEPT !.cancel = FALSE]
    /\ CancelStream
    /\ UNCHANGED <<world, budget, state, disp, outVars, sends, heard, history>>

(* _schedule_asr_prepare: only one prepare of a generation runs. *)
Prepared(s) == [jobs EXCEPT !.prep = IF s.active THEN s.gen ELSE @]

(***************************************************************************)
(* dispatcher                                                              *)
(***************************************************************************)
(* Mutant: only the endpoint marker routes speech to the queue. *)
EndpointAloneBlocks == FrontendVad /\ state.endpoint.by # "none"

PendingBlocked ==
    /\ FrontendVad
    /\ \/ state.endpoint.by # "none"
       \/ state.finalizing # 0
       \/ state.draining
       \/ state.pending # <<>>

(* Mutant: the end of a queued utterance goes unnoticed. *)
QueueNeverOpen == FALSE

TurnOpenInQueue ==
    state.pending # <<>> /\ ~state.pending[Len(state.pending)].ended

(* Sending: queue on send_lock, go on when at its head. *)
SendAs(task) == sends' = Append(sends, task)
Sent(task) == sends # <<>> /\ Head(sends) = task /\ sends' = Tail(sends)

(* Mutant: the queue is left as it is. *)
DrainingCleared(s) == [s EXCEPT !.draining = FALSE]

Cleared(s) == [s EXCEPT !.pending = <<>>, !.draining = FALSE]

(* _reject_pending_audio: the queue is full, and the session is over. *)
RejectPending ==
    /\ Disturb("overflow")
    /\ state' = [Cleared(state) EXCEPT !.endpoint = NoEndpoint, !.finalizing = 0,
                                       !.closed = TRUE]
    /\ disp' = [disp EXCEPT !.pc = "notify"]
    /\ SendAs("disp")

(* Frames that arrive while an older utterance is being finished. *)
QueueSegment(seg) ==
    /\ PendingBlocked
    /\ \/ /\ Event(seg) = "start"
          /\ disp' = [pc |-> "queue", seg |-> seg]
          /\ SendAs("disp")
          /\ UNCHANGED <<state, budget>>
       \/ /\ Event(seg) # "start"
          /\ RejectPending
       \/ /\ Event(seg) # "start" /\ TurnOpenInQueue
          /\ state' = [state EXCEPT !.pending[Len(state.pending)].ended = Event(seg) = "end"]
          /\ IF Event(seg) = "end"
             THEN disp' = [pc |-> "notify", seg |-> seg] /\ SendAs("disp")
             ELSE disp' = [pc |-> "receive", seg |-> seg] /\ UNCHANGED sends
          /\ UNCHANGED budget
       \/ /\ Event(seg) # "start" /\ ~TurnOpenInQueue
          /\ IF Event(seg) = "end"
             THEN disp' = [pc |-> "notify", seg |-> seg] /\ SendAs("disp")
             ELSE disp' = [pc |-> "receive", seg |-> seg] /\ UNCHANGED sends
          /\ UNCHANGED <<state, budget>>
    /\ UNCHANGED <<jobs, history>>

(* The end of speech is latched only after the segment that carries it was *)
(* accepted.  A backend that owns endpointing may not let the frontend end *)
(* the turn.                                                               *)
LatchEnd ==
    /\ \/ /\ state' = [state EXCEPT !.endpoint = [by |-> "vad", gen |-> state.gen],
                                    !.closed = @ \/ ~Multi]
          /\ jobs' = Prepared(state)
          /\ Latched
       \/ /\ BackendEndpoint /\ UNCHANGED <<state, jobs, history>>
    /\ disp' = [disp EXCEPT !.pc = "notify"]
    /\ SendAs("disp")

OpensLazily ==
    /\ ~FrontendVad \/ BackendEndpoint
    /\ ~state.active /\ state.endpoint.by = "none"
    /\ Multi \/ ~state.once

FeedSegment(seg) ==
    /\ ~PendingBlocked
    /\ \/ /\ Event(seg) = "start"
          /\ disp' = [pc |-> "announce", seg |-> seg]
          /\ SendAs("disp")
          /\ UNCHANGED <<state, jobs, history>>
       \/ /\ Event(seg) # "start" /\ OpensLazily
          /\ disp' = [pc |-> "opening", seg |-> seg]
          /\ UNCHANGED <<state, jobs, history, sends>>
       \/ /\ Event(seg) # "start" /\ ~OpensLazily /\ state.active
          /\ disp' = [pc |-> "feeding", seg |-> seg]
          /\ UNCHANGED <<state, jobs, history, sends>>
       \/ /\ Event(seg) # "start" /\ ~OpensLazily /\ ~state.active
          /\ IF Event(seg) = "end"
             THEN LatchEnd
             ELSE disp' = [pc |-> "receive", seg |-> seg] /\ UNCHANGED <<state, jobs, history, sends>>
    /\ UNCHANGED budget

HandleSegment(seg) ==
    \/ /\ state.closed \/ (~Multi /\ state.once /\ ~state.active)
       /\ disp' = [pc |-> "receive", seg |-> seg]
       /\ UNCHANGED <<state, jobs, sends, history, budget>>
    \/ /\ ~(state.closed \/ (~Multi /\ state.once /\ ~state.active))
       /\ QueueSegment(seg) \/ FeedSegment(seg)

Spoken(seg) ==
    \/ /\ seg.kind = "start" /\ ~mic.talking /\ mic.utt < deployment.utterances
       /\ seg.utt = mic.utt + 1 /\ mic' = [utt |-> seg.utt, talking |-> TRUE]
    \/ /\ seg.kind \in {"speech", "end"} /\ mic.talking /\ seg.utt = mic.utt
       /\ mic' = [mic EXCEPT !.talking = seg.kind = "speech"]
    \/ /\ seg = NoSegment /\ ~mic.talking /\ UNCHANGED mic

(* Mutant: the cancel task of an abort is not joined. *)
NeverJoins == FALSE

(* A binary frame waits for the cancel task of an earlier abort. *)
MustJoin == jobs.cancel

ReceiveAudio(seg) ==
    /\ disp.pc = "receive" /\ ~state.clientClosed
    /\ Spoken(seg)
    /\ IF MustJoin
       THEN disp' = [pc |-> "join", seg |-> seg] /\ UNCHANGED <<state, jobs, sends, history, budget>>
       ELSE HandleSegment(seg)
    /\ UNCHANGED <<deployment, outVars, asrVars>>

Joined ==
    /\ disp.pc = "join" /\ ~jobs.cancel
    /\ HandleSegment(disp.seg)
    /\ UNCHANGED <<world, outVars, asrVars>>

(* The cancel jams for two seconds; wait_for cancels it, the session ends. *)
JoinTimesOut ==
    /\ disp.pc = "join" /\ jobs.cancel
    /\ Disturb("jam")
    /\ jobs' = [jobs EXCEPT !.cancel = FALSE]
    /\ disp' = [disp EXCEPT !.pc = "jammed"] /\ SendAs("disp")
    /\ UNCHANGED <<world, state, outVars, asrVars, history>>

JamReported ==
    /\ disp.pc = "jammed" /\ Sent("disp")
    /\ state' = [state EXCEPT !.closed = TRUE]
    /\ disp' = [disp EXCEPT !.pc = "receive"]
    /\ UNCHANGED <<world, budget, jobs, outVars, asrVars, history>>

(* vad_event speech_start sent while an older utterance was in the way:     *)
(* _new_pending_turn, whatever happened during the send.                   *)
QueueTurn ==
    /\ disp.pc = "queue"
    /\ \/ /\ Sent("disp")
          /\ state' = [state EXCEPT !.pending = Append(@, [utt |-> disp.seg.utt, ended |-> FALSE])]
          /\ disp' = [disp EXCEPT !.pc = "receive"]
          /\ UNCHANGED budget
       \/ /\ sends # <<>> /\ Head(sends) = "disp"
          /\ Disturb("overflow")
          /\ sends' = Append(Tail(sends), "disp")
          /\ state' = [Cleared(state) EXCEPT !.endpoint = NoEndpoint, !.finalizing = 0,
                                             !.closed = TRUE]
          /\ disp' = [disp EXCEPT !.pc = "notify"]
    /\ UNCHANGED <<world, jobs, outVars, asrVars, history>>

(* vad_event speech_start sent and the way was clear before the send. *)
StartTurn ==
    /\ disp.pc = "announce" /\ Sent("disp")
    /\ disp' = [disp EXCEPT !.pc =
                   IF ~Multi /\ state.once /\ ~(state.active /\ BackendEndpoint) THEN "receive"
                   ELSE IF state.active /\ BackendEndpoint /\ mgr.st # "IDLE" THEN "feeding"
                   ELSE "opening"]
    /\ UNCHANGED <<world, budget, state, jobs, outVars, asrVars, history>>

OpenTurn ==
    /\ disp.pc = "opening" /\ OnSpeechStart
    /\ state' = [state EXCEPT !.endpoint = NoEndpoint, !.active = TRUE,
                              !.gen = mgr.gen + 1, !.once = TRUE]
    /\ jobs' = [jobs EXCEPT !.prep = 0]
    /\ Answered(FALSE)
    /\ disp' = [disp EXCEPT !.pc = "feeding"]
    /\ UNCHANGED <<world, budget, outVars, sends, heard>>

(* ASRSessionUnavailable: the client is told before the state is reset. *)
OpenTurnFails ==
    /\ disp.pc = "opening" /\ Disturb("unavailable")
    /\ disp' = [disp EXCEPT !.pc = "refused"] /\ SendAs("disp")
    /\ UNCHANGED <<world, state, jobs, outVars, asrVars, history>>

RefusalReported ==
    /\ disp.pc = "refused" /\ Sent("disp")
    /\ state' = [state EXCEPT !.endpoint = IF Event(disp.seg) = "start" THEN NoEndpoint ELSE @,
                              !.active = FALSE]
    /\ disp' = [disp EXCEPT !.pc = "receive"]
    /\ UNCHANGED <<world, budget, jobs, outVars, asrVars, history>>

FeedTurn ==
    /\ disp.pc = "feeding"
    /\ heard' = FedWith(disp.seg.utt)
    /\ IF Event(disp.seg) = "end"
       THEN LatchEnd
       ELSE disp' = [disp EXCEPT !.pc = "receive"] /\ UNCHANGED <<state, jobs, sends, history>>
    /\ UNCHANGED <<world, budget, outVars, mgr>>

Notified ==
    /\ disp.pc = "notify" /\ Sent("disp")
    /\ disp' = [disp EXCEPT !.pc = "receive"]
    /\ UNCHANGED <<world, budget, state, jobs, outVars, asrVars, history>>

(***************************************************************************)
(* dispatcher: control frames                                              *)
(***************************************************************************)
Control == disp.pc = "receive" /\ ~state.clientClosed

ClientEos ==
    /\ Control /\ Disturb("eos")
    /\ state' = [state EXCEPT !.endpoint = [by |-> "client_eos", gen |-> state.gen],
                              !.closed = @ \/ ~Multi]
    /\ Latched
    /\ UNCHANGED <<world, disp, jobs, outVars, sends, asrVars>>

ClientPrepare ==
    /\ Control /\ state.active /\ jobs.prep = 0 /\ Disturb("prepare")
    /\ jobs' = Prepared(state)
    /\ UNCHANGED <<world, state, disp, outVars, sends, asrVars, history>>

(* abort with keep_asr leaves the utterance and the queue alone. *)
KeepingAbort ==
    /\ Control /\ Disturb("keep")
    /\ UNCHANGED <<world, state, disp, jobs, outVars, sends, asrVars, history>>

(* The turn asr_out_task is draining stays in its hands when the queue is   *)
(* cleared: keep what it knew of it.                                       *)
DetachedTurn ==
    IF state.pending # <<>> /\ out.turn.utt = Head(state.pending).utt
    THEN Head(state.pending) ELSE out.turn

Abort ==
    /\ Control /\ Disturb("abort")
    /\ fin' = IF fin.st = "running" THEN [fin EXCEPT !.st = "cancelled"] ELSE fin
    /\ jobs' = [prep |-> 0, cancel |-> jobs.cancel \/ state.active]
    /\ state' = [Cleared(state) EXCEPT
                    !.abortRequested = @ \/ fin.st = "running",
                    !.active = FALSE, !.endpoint = NoEndpoint, !.finalizing = 0]
    /\ out' = [out EXCEPT !.turn = DetachedTurn]
    /\ history' = [answered |-> FALSE,
                   astray |-> history.astray \/ out.pc \in {"reopening", "refeeding"}]
    /\ UNCHANGED <<world, disp, sends, asrVars, finals>>

(* Disconnect or idle timeout: both work tasks are cancelled. *)
Leave ==
    /\ Control /\ Disturb("leave")
    /\ state' = [state EXCEPT !.clientClosed = TRUE]
    /\ disp' = [disp EXCEPT !.pc = "over"]
    /\ out' = [out EXCEPT !.pc = "over"]
    /\ sends' = <<>>
    /\ UNCHANGED <<world, jobs, fin, finals, asrVars, history>>

(***************************************************************************)
(* asr_out_task                                                            *)
(***************************************************************************)
OutGoes(pc) == out' = [out EXCEPT !.pc = pc]

(* The bottom of the loop. *)
LoopOrReturn(s) == IF s.closed /\ ~s.active THEN "over" ELSE "loop"

(* The turn has lasted too long: cancel, then forget it. *)
DeadlineExpires ==
    /\ out.pc = "loop" /\ ~state.clientClosed /\ state.active
    /\ Disturb("deadline")
    /\ OutGoes("deadline")
    /\ UNCHANGED <<world, state, disp, fin, finals, jobs, sends, asrVars, history>>

DropExpiredTurn ==
    /\ out.pc = "deadline"
    /\ CancelStream
    /\ state' = [state EXCEPT !.active = FALSE, !.endpoint = NoEndpoint]
    /\ jobs' = [jobs EXCEPT !.prep = 0]
    /\ Answered(FALSE)
    /\ OutGoes("expired") /\ SendAs("out")
    /\ UNCHANGED <<world, budget, disp, fin, finals, heard>>

ExpiryReported ==
    /\ out.pc = "expired" /\ Sent("out")
    /\ OutGoes(IF Multi /\ ~state.closed THEN "loop" ELSE "over")
    /\ UNCHANGED <<world, budget, state, disp, fin, finals, jobs, asrVars, history>>

(* get_partial_for_generation; the stream may report its own endpoint. *)
Poll ==
    /\ out.pc = "loop" /\ ~state.clientClosed /\ state.active
    /\ \E end \in {FALSE, BackendEndpoint /\ mgr.st = "ACTIVE"} :
         out' = [out EXCEPT !.pc = "polled", !.end = end]
    /\ UNCHANGED <<world, budget, state, disp, fin, finals, jobs, sends, asrVars, history>>

(* Mutant: no generation gate on the latched endpoint. *)
NoEndpointGate == FALSE

StaleEndpoint == state.endpoint.by # "none" /\ state.endpoint.gen # state.gen
Reason == IF StaleEndpoint THEN "none" ELSE state.endpoint.by
LiveEndpoint(s) == IF StaleEndpoint THEN [s EXCEPT !.endpoint = NoEndpoint] ELSE s

(* A final for an endpoint no turn is open for is empty. *)
FinalizeOrEmpty(s) ==
    IF ~s.active
    THEN /\ out' = [out EXCEPT !.pc = "emitting", !.gen = 0, !.by = Reason, !.end = FALSE]
         /\ sends' = Append(IF out.pc = "fired" THEN Tail(sends) ELSE sends, "out")
         /\ state' = s /\ UNCHANGED <<fin, mgr>>
    ELSE /\ sends' = IF out.pc = "fired" THEN Tail(sends) ELSE sends
         /\ IF jobs.prep = s.gen
            THEN /\ out' = [out EXCEPT !.pc = "preparing", !.gen = s.gen, !.by = Reason, !.end = FALSE]
                 /\ state' = s /\ UNCHANGED <<fin, mgr>>
            ELSE /\ out' = [out EXCEPT !.pc = "finalizing", !.gen = s.gen, !.by = Reason, !.end = FALSE]
                 /\ state' = [s EXCEPT !.finalizing = s.gen]
                 /\ fin' = [st |-> "running", gen |-> mgr.gen, ok |-> FALSE]
                 /\ mgr' = IF mgr.st = "ACTIVE" THEN [mgr EXCEPT !.st = "FINALIZING"] ELSE mgr

(* What the loop does with the latched endpoint, or the stream's own. *)
Judge(end) ==
    LET s == LiveEndpoint(state)
        fired == Reason # "none" \/ (end /\ state.active)
        shut == [s EXCEPT !.closed = @ \/ ~Multi]
    IN
    /\ IF ~fired
       THEN /\ state' = s /\ OutGoes(LoopOrReturn(s)) /\ UNCHANGED <<sends, fin, mgr>>
       ELSE IF Reason = "client_eos"
       THEN FinalizeOrEmpty(shut)
       ELSE /\ state' = shut
            /\ out' = [out EXCEPT !.pc = "fired", !.by = Reason, !.end = FALSE]
            /\ SendAs("out") /\ UNCHANGED <<fin, mgr>>
    /\ IF fired /\ Reason # "none" THEN UNCHANGED history ELSE Answered(FALSE)
    /\ UNCHANGED <<world, budget, disp, finals, jobs, heard>>

JudgeIdle == out.pc = "loop" /\ ~state.clientClosed /\ ~state.active /\ Judge(FALSE)
JudgePolled == out.pc = "polled" /\ Judge(out.end)

(* asr_endpoint sent: the active generation is read only now. *)
EndpointSent ==
    /\ out.pc = "fired" /\ sends # <<>> /\ Head(sends) = "out"
    /\ FinalizeOrEmpty(state)
    /\ UNCHANGED <<world, budget, disp, finals, jobs, heard, history>>

(* prepare_finalize over: is the generation still the one to finalize? *)
PrepareAwaited ==
    /\ out.pc = "preparing" /\ jobs.prep # out.gen
    /\ IF ~state.active \/ state.gen # out.gen
       THEN /\ state' = [state EXCEPT !.endpoint = IF @.gen = out.gen THEN NoEndpoint ELSE @]
            /\ IF state.endpoint.gen = out.gen THEN Answered(FALSE) ELSE UNCHANGED history
            /\ OutGoes("loop") /\ UNCHANGED <<fin, mgr>>
       ELSE /\ state' = [state EXCEPT !.finalizing = out.gen]
            /\ OutGoes("finalizing")
            /\ fin' = [st |-> "running", gen |-> mgr.gen, ok |-> FALSE]
            /\ mgr' = IF mgr.st = "ACTIVE" THEN [mgr EXCEPT !.st = "FINALIZING"] ELSE mgr
            /\ UNCHANGED history
    /\ UNCHANGED <<world, budget, disp, finals, jobs, sends, heard>>

FinalAccepted ==
    /\ out.pc = "finalizing" /\ fin.st = "done" /\ fin.ok
    /\ LET own == state.gen = out.gen IN
         /\ state' = [state EXCEPT !.active = @ /\ ~own, !.endpoint = NoEndpoint,
                                   !.finalizing = 0]
         /\ jobs' = IF own THEN [jobs EXCEPT !.prep = 0] ELSE jobs
    /\ fin' = [fin EXCEPT !.st = "none"]
    /\ finals' = Append(finals, heard[fin.gen])
    /\ Answered(FALSE)
    /\ OutGoes("emitting") /\ SendAs("out")
    /\ UNCHANGED <<world, budget, disp, asrVars>>

(* Not accepted: heal a manager that fell idle, drop the queue. *)
FinalDropped(pc) ==
    /\ LET healed == [state EXCEPT !.active = FALSE, !.endpoint = NoEndpoint]
           s == IF mgr'.st = "IDLE" THEN healed ELSE state
       IN  /\ state' = [Cleared(s) EXCEPT !.finalizing = 0, !.abortRequested = FALSE]
           /\ jobs' = IF mgr'.st = "IDLE" THEN [jobs EXCEPT !.prep = 0] ELSE jobs
           /\ IF mgr'.st = "IDLE" THEN Answered(FALSE) ELSE UNCHANGED history
    /\ fin' = [fin EXCEPT !.st = "none"]
    /\ OutGoes(pc)

FinalRejected ==
    /\ out.pc = "finalizing" /\ fin.st = "done" /\ ~fin.ok
    /\ UNCHANGED mgr /\ FinalDropped("failing") /\ SendAs("out")
    /\ UNCHANGED <<world, budget, disp, finals, heard>>

(* CLIENT_ABORT cancelled the child; the flag tells it from a teardown. *)
FinalAborted ==
    /\ out.pc = "finalizing" /\ fin.st = "cancelled"
    /\ UNCHANGED mgr /\ FinalDropped("loop")
    /\ UNCHANGED <<world, budget, disp, finals, sends, heard>>

FinalTimesOut ==
    /\ out.pc = "finalizing" /\ fin.st = "running"
    /\ Disturb("timeout")
    /\ fin' = [fin EXCEPT !.st = "none"]
    /\ OutGoes("cancelling")
    /\ UNCHANGED <<world, state, disp, finals, jobs, sends, asrVars, history>>

TimedOutCancelled ==
    /\ out.pc = "cancelling"
    /\ CancelStream /\ FinalDropped("failing") /\ SendAs("out")
    /\ UNCHANGED <<world, budget, disp, finals, heard>>

FailureReported ==
    /\ out.pc = "failing" /\ Sent("out")
    /\ OutGoes("loop")
    /\ UNCHANGED <<world, budget, state, disp, fin, finals, jobs, asrVars, history>>

(* The final is sent.  A closed session ends with it; otherwise the oldest  *)
(* queued turn is taken up.                                                *)
FinalSent ==
    /\ out.pc = "emitting" /\ Sent("out")
    /\ Answered(TRUE)
    /\ IF ~Multi
       THEN /\ state' = [state EXCEPT !.clientClosed = TRUE] /\ OutGoes("over")
       ELSE IF state.closed
       THEN OutGoes("over") /\ UNCHANGED state
       ELSE IF state.pending # <<>>
       THEN /\ state' = [state EXCEPT !.draining = TRUE]
            /\ out' = [out EXCEPT !.pc = "reopening", !.turn = Head(state.pending)]
       ELSE OutGoes(LoopOrReturn(state)) /\ UNCHANGED state
    /\ UNCHANGED <<world, budget, disp, fin, finals, jobs, asrVars>>

(***************************************************************************)
(* _drain_pending_turn                                                     *)
(***************************************************************************)
ReopenTurn ==
    /\ out.pc = "reopening" /\ OnSpeechStart
    /\ state' = [state EXCEPT !.active = TRUE, !.gen = mgr.gen + 1, !.once = TRUE]
    /\ out' = [out EXCEPT !.pc = "refeeding", !.gen = mgr.gen + 1]
    /\ UNCHANGED <<world, budget, disp, fin, finals, jobs, sends, heard, history>>

ReopenFails ==
    /\ out.pc = "reopening" /\ Disturb("unavailable")
    /\ OutGoes("giveUp")
    /\ history' = [history EXCEPT !.astray = TRUE]
    /\ UNCHANGED <<world, state, disp, fin, finals, jobs, sends, asrVars>>

(* All its segments fed, including those that came meanwhile; the turn is   *)
(* taken off the queue, which an abort may have emptied (IndexError).      *)
RefeedTurn ==
    /\ out.pc = "refeeding"
    /\ heard' = FedWith(out.turn.utt)
    /\ LET ended == DetachedTurn.ended
           latched == IF ended THEN [state EXCEPT !.endpoint = [by |-> "vad", gen |-> out.gen]]
                               ELSE state
       IN  /\ jobs' = IF ended THEN Prepared(state) ELSE jobs
           /\ history' = [answered |-> history.answered /\ ~ended,
                          astray |-> history.astray \/ state.pending = <<>>]
           /\ IF state.pending = <<>>
              THEN /\ state' = latched
                   /\ out' = [out EXCEPT !.pc = "giveUp", !.turn = NoTurn]
              ELSE LET s == [latched EXCEPT !.pending = Tail(@), !.draining = FALSE] IN
                   /\ state' = s
                   /\ out' = [out EXCEPT !.pc = LoopOrReturn(s), !.turn = NoTurn]
    /\ UNCHANGED <<world, budget, disp, fin, finals, sends, mgr>>

(* The except branch: cancel the stream it opened, drop everything. *)
GiveUpTurn ==
    /\ out.pc = "giveUp"
    /\ IF state.active THEN CancelStream ELSE UNCHANGED mgr
    /\ state' = [Cleared(state) EXCEPT !.active = FALSE, !.endpoint = NoEndpoint,
                                       !.finalizing = 0]
    /\ Answered(FALSE)
    /\ out' = [out EXCEPT !.pc = "failing", !.turn = NoTurn] /\ SendAs("out")
    /\ UNCHANGED <<world, budget, disp, fin, finals, jobs, heard>>

(***************************************************************************)
(* Specification                                                           *)
(***************************************************************************)
Dispatch ==
    \/ Joined \/ QueueTurn \/ StartTurn \/ OpenTurn \/ FeedTurn \/ Notified
    \/ JamReported \/ RefusalReported

AsrOut ==
    \/ Poll \/ JudgeIdle \/ JudgePolled \/ EndpointSent \/ PrepareAwaited
    \/ FinalAccepted \/ FinalRejected \/ FinalAborted \/ TimedOutCancelled
    \/ FailureReported \/ FinalSent \/ DropExpiredTurn \/ ExpiryReported
    \/ ReopenTurn \/ RefeedTurn \/ GiveUpTurn

Next ==
    \/ \E seg \in Segments : ReceiveAudio(seg)
    \/ ClientEos \/ ClientPrepare \/ KeepingAbort \/ Abort \/ Leave
    \/ Dispatch \/ JoinTimesOut \/ OpenTurnFails
    \/ AsrOut \/ DeadlineExpires \/ FinalTimesOut \/ ReopenFails
    \/ FinalizeEnds \/ PrepareEnds \/ AbortCancelEnds \/ EngineFalls

(* The loop runs both tasks; the engine finishes what it was asked, unless  *)
(* a disturbance says otherwise.                                           *)
Fairness ==
    /\ WF_vars(Dispatch) /\ WF_vars(AsrOut)
    /\ WF_vars(FinalizeEnds) /\ WF_vars(PrepareEnds) /\ WF_vars(AbortCancelEnds)

Spec == Init /\ [][Next]_vars /\ Fairness

(***************************************************************************)
(* Properties                                                              *)
(***************************************************************************)
(* Several utterances, ended by the frontend VAD, and nothing a client or a *)
(* fault may do to lose one.                                               *)
Undisturbed ==
    /\ Multi /\ deployment.detector = "vad"
    /\ deployment.disturb \subseteq {"keep", "prepare"}

(* Without aborts and faults, the i-th final of a session with frontend     *)
(* VAD is the transcript of the i-th utterance and of nothing else: turns   *)
(* that queue behind a final (pending_turns) are neither lost, merged nor   *)
(* overtaken.                                                              *)
FinalsInOrder ==
    Undisturbed => \A i \in 1 .. Len(finals) : finals[i] = {i}

(* A turn queued behind an older one has someone to take it up: an endpoint *)
(* of the active generation is latched, or asr_out_task is on its way to    *)
(* the drain (main.py, "the next speech_start will issue a new generation").*)
QueuedSpeechHasServer ==
    state.pending # <<>> /\ ~state.clientClosed /\ ~state.closed =>
        \/ state.endpoint.by # "none" /\ state.endpoint.gen = state.gen
        \/ out.pc \in {"finalizing", "cancelling", "emitting", "reopening",
                       "refeeding", "giveUp", "deadline"}

Failures == {"deadline", "timeout", "crash"}

QueuedSpeechIsTakenUp ==
    deployment.disturb \cap Failures = {} /\ ~history.astray => QueuedSpeechHasServer

(* An end of speech is answered by one final, not by one after the other    *)
(* (docs/api/v2v-stream.md: on each end of speech the server emits          *)
(* asr_endpoint and one asr_final).                                        *)
OneFinalPerEndpoint == out.pc = "emitting" => ~history.answered

(* The cancel task an abort leaves running tears down the aborted turn, not  *)
(* a turn opened after the abort: audio waits for it (the join of            *)
(* asr_cancel_task in dispatcher).                                          *)
CancelSparesNewTurn == jobs.cancel /\ ~history.astray => ~state.active

(* A generation is finalized only when its speech is over. *)
NotTooEarly ==
    [][\A g \in Generations :
          /\ mgr.st = "ACTIVE" /\ mgr'.st = "FINALIZING" /\ mgr.gen = g
          /\ deployment.detector = "vad" /\ "eos" \notin deployment.disturb
          => ~(mic.talking /\ mic.utt \in heard[g])]_vars

(* Whatever is spoken to the end gets its final. *)
SpeechIsAnswered ==
    \A u \in Utterances :
       (Undisturbed /\ (mic.utt > u \/ (mic.utt = u /\ ~mic.talking)))
          ~> Len(finals) >= u
=============================================================================
