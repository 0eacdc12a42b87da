------------------------- MODULE SpeechTurns_proofs -------------------------
(***************************************************************************)
(* Recognition turns, for any number of utterances, generations and        *)
(* disturbances: the types; that the cancel an abort leaves behind spares  *)
(* the turn opened after it; that, deadlines, timeouts and crashes apart,   *)
(* queued speech always has somebody who takes it up; that the finals of an *)
(* undisturbed session are those of its utterances, in their order; and    *)
(* that no generation is finalized while its utterance is still spoken.    *)
(***************************************************************************)
EXTENDS SpeechTurns, SequenceTheorems, TLAPS

(* The types, and that only an opened generation is fed or finalized.       *)
TypeInv ==
    /\ TypeOK
    /\ mgr.st # "IDLE" => mgr.gen > 0
    /\ fin.ok => fin.gen > 0

-----------------------------------------------------------------------------
(* Types                                                                   *)
LEMMA BudgetTyped ==
    ASSUME TypeOK, NEW kind \in Disturbances, Disturb(kind)
    PROVE  budget' \in [Disturbances -> 0 .. MaxDisturb]
<1>1. budget[kind] \in 0 .. MaxDisturb /\ budget[kind] > 0
  BY DEF TypeOK, Disturb
<1>2. budget[kind] - 1 \in 0 .. MaxDisturb
  BY <1>1, BoundsAssumption
<1>. QED
  BY <1>2 DEF TypeOK, Disturb

LEMMA ClearedTyped ==
    ASSUME NEW s \in SessionState
    PROVE  Cleared(s) \in SessionState
<1>1. <<>> \in Seq(Turns)
  OBVIOUS
<1>. QED
  BY <1>1 DEF Cleared, SessionState

LEMMA NothingTyped ==
    /\ 0 \in 0 .. MaxGen
    /\ NoEndpoint \in Markers /\ NoTurn \in Turns /\ NoSegment \in Segments
    /\ Disturbances = {"abort", "keep", "eos", "leave", "deadline", "timeout",
                       "unavailable", "overflow", "jam", "prepare", "crash"}
  BY BoundsAssumption DEF NoEndpoint, Markers, NoTurn, Turns, NoSegment, Segments, Kinds, Disturbances

LEMMA ControlTyped ==
    ASSUME TypeInv, ClientEos \/ ClientPrepare \/ KeepingAbort \/ Abort \/ Leave
    PROVE  TypeInv'
<1>1. CASE ClientEos
  <2>1. budget' \in [Disturbances -> 0 .. MaxDisturb]
    BY <1>1, BudgetTyped, NothingTyped DEF TypeInv, ClientEos
  <2>. QED
    BY <1>1, <2>1 DEF TypeInv, TypeOK, ClientEos, SessionState, Markers, Latched, outVars, asrVars, world
<1>2. CASE ClientPrepare
  <2>1. budget' \in [Disturbances -> 0 .. MaxDisturb]
    BY <1>2, BudgetTyped, NothingTyped DEF TypeInv, ClientPrepare
  <2>. QED
    BY ZenonT(60), <1>2, <2>1 DEF TypeInv, TypeOK, ClientPrepare, Prepared, SessionState, outVars, asrVars, world
<1>3. CASE KeepingAbort
  <2>1. budget' \in [Disturbances -> 0 .. MaxDisturb]
    BY <1>3, BudgetTyped, NothingTyped DEF TypeInv, KeepingAbort
  <2>. QED
    BY <1>3, <2>1 DEF TypeInv, TypeOK, KeepingAbort, outVars, asrVars, world
<1>4. CASE Abort
  <2>1. budget' \in [Disturbances -> 0 .. MaxDisturb]
    BY <1>4, BudgetTyped, NothingTyped DEF TypeInv, Abort
  <2>2. state' \in SessionState
    <3>. DEFINE s == Cleared(state)
    <3>1. s \in SessionState
      BY ClearedTyped DEF TypeInv, TypeOK
    <3>. HIDE DEF s
    <3>2. state' = [s EXCEPT !.abortRequested = @ \/ fin.st = "running",
                             !.active = FALSE, !.endpoint = NoEndpoint, !.finalizing = 0]
      BY <1>4 DEF Abort, s
    <3>. DEFINE a == s.abortRequested \/ fin.st = "running"
    <3>3. a \in BOOLEAN /\ state' = [s EXCEPT !.abortRequested = a, !.active = FALSE,
                                              !.endpoint = NoEndpoint, !.finalizing = 0]
      BY <3>1, <3>2 DEF SessionState
    <3>. HIDE DEF a
    <3>. QED
      BY <3>1, <3>3, NothingTyped DEF SessionState
  <2>3. fin' \in FinTask /\ (fin'.ok => fin'.gen > 0)
    BY <1>4 DEF TypeInv, TypeOK, Abort, FinTask
  <2>4. DetachedTurn \in Turns
    BY HeadTailProperties DEF TypeInv, TypeOK, DetachedTurn, OutTask, SessionState
  <2>5. out' \in OutTask
    BY <1>4, <2>4 DEF TypeInv, TypeOK, Abort, OutTask
  <2>6. history' \in [answered : BOOLEAN, astray : BOOLEAN]
    BY <1>4 DEF TypeInv, TypeOK, Abort
  <2>7. jobs' \in [prep : 0 .. MaxGen, cancel : BOOLEAN]
    BY <1>4, BoundsAssumption DEF TypeInv, TypeOK, Abort, SessionState
  <2>. QED
    BY <1>4, <2>1, <2>2, <2>3, <2>5, <2>6, <2>7 DEF TypeInv, TypeOK, Abort, asrVars, world
<1>5. CASE Leave
  <2>1. budget' \in [Disturbances -> 0 .. MaxDisturb]
    BY <1>5, BudgetTyped, NothingTyped DEF TypeInv, Leave
  <2>2. state' \in SessionState /\ disp' \in DispTask /\ out' \in OutTask
    BY <1>5 DEF TypeInv, TypeOK, Leave, SessionState, DispTask, OutTask
  <2>3. sends' \in Seq({"disp", "out"})
    BY <1>5, EmptySeq DEF Leave
  <2>. QED
    BY <1>5, <2>1, <2>2, <2>3 DEF TypeInv, TypeOK, Leave, outVars, asrVars, world
<1>. QED
  BY <1>1, <1>2, <1>3, <1>4, <1>5

LEMMA SendsTyped ==
    ASSUME TypeOK, NEW task \in {"disp", "out"}, SendAs(task) \/ Sent(task)
    PROVE  sends' \in Seq({"disp", "out"})
<1>1. CASE SendAs(task)
  BY <1>1, AppendProperties DEF TypeOK, SendAs
<1>2. CASE Sent(task)
  BY <1>2, HeadTailProperties DEF TypeOK, Sent
<1>. QED
  BY <1>1, <1>2

LEMMA HeardTyped ==
    ASSUME TypeInv, NEW utt \in 0 .. MaxUtterances
    PROVE  FedWith(utt) \in [Generations -> SUBSET Utterances]
  BY BoundsAssumption DEF TypeInv, TypeOK, FedWith, Generations, Utterances

LEMMA RejectTyped ==
    ASSUME TypeInv, Disturb("overflow"),
           state' = [Cleared(state) EXCEPT !.endpoint = NoEndpoint, !.finalizing = 0, !.closed = TRUE]
    PROVE  state' \in SessionState /\ budget' \in [Disturbances -> 0 .. MaxDisturb]
<1>. DEFINE s == Cleared(state)
<1>1. s \in SessionState
  BY ClearedTyped DEF TypeInv, TypeOK
<1>2. state' = [s EXCEPT !.endpoint = NoEndpoint, !.finalizing = 0, !.closed = TRUE]
  OBVIOUS
<1>. HIDE DEF s
<1>3. state' \in SessionState
  BY <1>1, <1>2, NothingTyped DEF SessionState
<1>. QED
  BY <1>3, BudgetTyped, NothingTyped DEF TypeInv

LEMMA LatchTyped ==
    ASSUME TypeInv, LatchEnd
    PROVE  /\ state' \in SessionState /\ disp' \in DispTask
           /\ jobs' \in [prep : 0 .. MaxGen, cancel : BOOLEAN]
           /\ sends' \in Seq({"disp", "out"})
           /\ history' \in [answered : BOOLEAN, astray : BOOLEAN]
<1>1. sends' \in Seq({"disp", "out"})
  BY SendsTyped DEF TypeInv, LatchEnd
<1>2. disp' \in DispTask
  BY DEF TypeInv, TypeOK, LatchEnd, DispTask
<1>3. /\ state' \in SessionState
      /\ jobs' \in [prep : 0 .. MaxGen, cancel : BOOLEAN]
      /\ history' \in [answered : BOOLEAN, astray : BOOLEAN]
  <2>. DEFINE c == state.closed \/ ~Multi
              e == [by |-> "vad", gen |-> state.gen]
  <2>1. c \in BOOLEAN /\ e \in Markers /\ state \in SessionState /\ state.gen \in 0 .. MaxGen
    BY DEF TypeInv, TypeOK, SessionState, Markers
  <2>2. UNCHANGED <<state, jobs, history>>
        \/ (state' = [state EXCEPT !.endpoint = e, !.closed = c] /\ jobs' = Prepared(state) /\ Latched)
    BY DEF LatchEnd
  <2>. HIDE DEF c, e
  <2>3. state' \in SessionState
    BY <2>1, <2>2 DEF SessionState
  <2>4. jobs' \in [prep : 0 .. MaxGen, cancel : BOOLEAN]
    BY <2>1, <2>2 DEF TypeInv, TypeOK, Prepared
  <2>5. history' \in [answered : BOOLEAN, astray : BOOLEAN]
    <3>1. history \in [answered : BOOLEAN, astray : BOOLEAN]
      BY DEF TypeInv, TypeOK
    <3>2. UNCHANGED history \/ history' = [answered |-> FALSE, astray |-> history.astray \/ ~state.active]
      BY <2>2 DEF Latched
    <3>3. \A a, b \in BOOLEAN : [answered |-> a, astray |-> b] \in [answered : BOOLEAN, astray : BOOLEAN]
      OBVIOUS
    <3>4. (history.astray \/ ~state.active) \in BOOLEAN /\ FALSE \in BOOLEAN
      OBVIOUS
    <3>. QED
      BY <3>1, <3>2, <3>3, <3>4, Zenon
  <2>. QED
    BY <2>3, <2>4, <2>5
<1>. QED
  BY <1>1, <1>2, <1>3

(* What handling a segment may change. *)
LEMMA SegmentTyped ==
    ASSUME TypeInv, NEW seg \in Segments, HandleSegment(seg)
    PROVE  /\ state' \in SessionState /\ disp' \in DispTask
           /\ jobs' \in [prep : 0 .. MaxGen, cancel : BOOLEAN]
           /\ sends' \in Seq({"disp", "out"})
           /\ history' \in [answered : BOOLEAN, astray : BOOLEAN]
           /\ budget' \in [Disturbances -> 0 .. MaxDisturb]
<1>. DEFINE Unlatched == /\ UNCHANGED <<state, jobs, history, budget>>
                         /\ disp' = [pc |-> disp'.pc, seg |-> seg]
                         /\ disp'.pc \in {"receive", "queue", "announce", "opening", "feeding", "notify"}
                         /\ sends' = sends \/ SendAs("disp")
<1>1. CASE Unlatched
  BY <1>1, SendsTyped DEF TypeInv, TypeOK, DispTask
<1>2. CASE LatchEnd /\ UNCHANGED budget
  BY <1>2, LatchTyped DEF TypeInv, TypeOK
<1>3. CASE RejectPending /\ UNCHANGED <<jobs, history>>
  <2>1. disp' \in DispTask
    BY <1>3 DEF TypeInv, TypeOK, RejectPending, DispTask
  <2>. QED
    BY <1>3, <2>1, RejectTyped, SendsTyped DEF TypeInv, TypeOK, RejectPending
<1>4. CASE /\ state.pending # <<>>
           /\ state' = [state EXCEPT !.pending[Len(state.pending)].ended = Event(seg) = "end"]
           /\ UNCHANGED <<jobs, history, budget>>
           /\ disp' = [pc |-> disp'.pc, seg |-> seg] /\ disp'.pc \in {"receive", "notify"}
           /\ sends' = sends \/ SendAs("disp")
  <2>1. Len(state.pending) \in 1 .. Len(state.pending) /\ state.pending[Len(state.pending)] \in Turns
    BY <1>4, EmptySeq, LenProperties, ElementOfSeq DEF TypeInv, TypeOK, SessionState
  <2>. DEFINE n == Len(state.pending)
              turn == [state.pending[n] EXCEPT !.ended = Event(seg) = "end"]
  <2>2. turn \in Turns
    BY <2>1 DEF Turns
  <2>3. state' = [state EXCEPT !.pending = [@ EXCEPT ![n] = turn]]
    BY <1>4 DEF TypeInv, TypeOK
  <2>4. [state.pending EXCEPT ![n] = turn] \in Seq(Turns)
    BY <2>1, <2>2, ExceptSeq DEF TypeInv, TypeOK, SessionState
  <2>. HIDE DEF n, turn
  <2>5. state' \in SessionState
    BY <2>3, <2>4 DEF TypeInv, TypeOK, SessionState
  <2>. QED
    BY <1>4, <2>5, SendsTyped DEF TypeInv, TypeOK, DispTask
<1>5. Unlatched \/ (LatchEnd /\ UNCHANGED budget) \/ (RejectPending /\ UNCHANGED <<jobs, history>>)
      \/ /\ state.pending # <<>>
         /\ state' = [state EXCEPT !.pending[Len(state.pending)].ended = Event(seg) = "end"]
         /\ UNCHANGED <<jobs, history, budget>>
         /\ disp' = [pc |-> disp'.pc, seg |-> seg] /\ disp'.pc \in {"receive", "notify"}
         /\ sends' = sends \/ SendAs("disp")
  BY DEF HandleSegment, QueueSegment, FeedSegment, TurnOpenInQueue
<1>. QED
  BY <1>1, <1>2, <1>3, <1>4, <1>5

LEMMA DispatchTyped ==
    ASSUME TypeInv, Dispatch \/ JoinTimesOut \/ OpenTurnFails \/ \E seg \in Segments : ReceiveAudio(seg)
    PROVE  TypeInv'
<1>. USE DEF TypeInv
<1>1. disp.seg \in Segments /\ state \in SessionState /\ disp \in DispTask
  BY DEF TypeOK, DispTask
<1>2. ASSUME NEW seg \in Segments, ReceiveAudio(seg) PROVE TypeInv'
  <2>1. mic' \in [utt : 0 .. MaxUtterances, talking : BOOLEAN]
    <3>1. mic \in [utt : 0 .. MaxUtterances, talking : BOOLEAN] /\ seg.utt \in 0 .. MaxUtterances
      BY DEF TypeOK, Segments
    <3>2. \A b \in BOOLEAN : [mic EXCEPT !.talking = b] \in [utt : 0 .. MaxUtterances, talking : BOOLEAN]
      BY <3>1
    <3>3. [mic EXCEPT !.talking = seg.kind = "speech"] \in [utt : 0 .. MaxUtterances, talking : BOOLEAN]
      BY <3>2
    <3>4. \/ UNCHANGED mic \/ mic' = [utt |-> seg.utt, talking |-> TRUE]
          \/ mic' = [mic EXCEPT !.talking = seg.kind = "speech"]
      BY <1>2, Zenon DEF ReceiveAudio, Spoken
    <3>5. [utt |-> seg.utt, talking |-> TRUE] \in [utt : 0 .. MaxUtterances, talking : BOOLEAN]
      BY <3>1
    <3>. QED
      BY <3>1, <3>3, <3>4, <3>5, Zenon
  <2>2. CASE HandleSegment(seg)
    BY <1>2, <2>1, <2>2, SegmentTyped DEF TypeOK, ReceiveAudio, outVars, asrVars
  <2>3. CASE disp' = [pc |-> "join", seg |-> seg] /\ UNCHANGED <<state, jobs, sends, history, budget>>
    <3>1. disp' \in DispTask
      BY <1>2, <2>3 DEF DispTask
    <3>. QED
      BY <1>2, <2>1, <2>3, <3>1 DEF TypeOK, ReceiveAudio, outVars, asrVars
  <2>. QED
    BY <1>2, <2>2, <2>3 DEF ReceiveAudio
<1>3. CASE Joined
  BY <1>1, <1>3, SegmentTyped DEF TypeOK, Joined, outVars, asrVars, world
<1>4. CASE JoinTimesOut
  <2>1. disp' \in DispTask /\ jobs' \in [prep : 0 .. MaxGen, cancel : BOOLEAN]
    BY <1>4 DEF TypeOK, JoinTimesOut, DispTask
  <2>. QED
    BY <1>4, <2>1, BudgetTyped, NothingTyped, SendsTyped DEF TypeOK, JoinTimesOut, outVars, asrVars, world
<1>5. CASE JamReported
  <2>1. disp' \in DispTask /\ state' \in SessionState
    BY <1>5, <1>1 DEF JamReported, DispTask, SessionState
  <2>. QED
    BY <1>5, <2>1, SendsTyped DEF TypeOK, JamReported, outVars, asrVars, world
<1>6. CASE QueueTurn
  <2>1. disp' \in DispTask
    BY <1>6, <1>1 DEF QueueTurn, DispTask
  <2>2. CASE Sent("disp") /\ UNCHANGED budget
             /\ state' = [state EXCEPT !.pending = Append(@, [utt |-> disp.seg.utt, ended |-> FALSE])]
    <3>1. [utt |-> disp.seg.utt, ended |-> FALSE] \in Turns
      BY <1>1 DEF Segments, Turns
    <3>2. Append(state.pending, [utt |-> disp.seg.utt, ended |-> FALSE]) \in Seq(Turns)
      BY <1>1, <3>1, AppendProperties DEF SessionState
    <3>3. state' \in SessionState
      BY <1>1, <2>2, <3>2 DEF SessionState
    <3>. QED
      BY <1>6, <2>1, <2>2, <3>3, SendsTyped DEF TypeOK, QueueTurn, outVars, asrVars, world
  <2>3. CASE /\ sends # <<>> /\ sends' = Append(Tail(sends), "disp") /\ Disturb("overflow")
             /\ state' = [Cleared(state) EXCEPT !.endpoint = NoEndpoint, !.finalizing = 0, !.closed = TRUE]
    <3>1. sends' \in Seq({"disp", "out"})
      BY <2>3, HeadTailProperties, AppendProperties DEF TypeOK
    <3>. QED
      BY <1>6, <2>1, <2>3, <3>1, RejectTyped DEF TypeOK, QueueTurn, outVars, asrVars, world
  <2>. QED
    BY <1>6, <2>2, <2>3 DEF QueueTurn
<1>7. CASE StartTurn
  <2>1. disp' \in DispTask
    BY <1>7, <1>1 DEF StartTurn, DispTask
  <2>. QED
    BY <1>7, <2>1, SendsTyped DEF TypeOK, StartTurn, outVars, asrVars, world
<1>8. CASE OpenTurn
  <2>1. /\ disp' \in DispTask /\ state' \in SessionState
        /\ jobs' \in [prep : 0 .. MaxGen, cancel : BOOLEAN]
        /\ history' \in [answered : BOOLEAN, astray : BOOLEAN]
        /\ mgr' \in [st : {"IDLE", "ACTIVE", "FINALIZING"}, gen : 0 .. MaxGen] /\ mgr'.gen > 0
    <3>1. mgr.gen + 1 \in 0 .. MaxGen /\ mgr.gen + 1 > 0
      BY <1>8, BoundsAssumption DEF TypeOK, OpenTurn, OnSpeechStart
    <3>2. mgr' \in [st : {"IDLE", "ACTIVE", "FINALIZING"}, gen : 0 .. MaxGen] /\ mgr'.gen > 0
      BY <1>8, <3>1 DEF TypeOK, OpenTurn, OnSpeechStart
    <3>3. disp' \in DispTask /\ jobs' \in [prep : 0 .. MaxGen, cancel : BOOLEAN]
      BY <1>8, <1>1, NothingTyped DEF TypeOK, OpenTurn, DispTask
    <3>4. history' \in [answered : BOOLEAN, astray : BOOLEAN]
      BY <1>8 DEF TypeOK, OpenTurn, Answered
    <3>5. state' \in SessionState
      <4>1. \A e \in Markers, g \in 0 .. MaxGen :
               [state EXCEPT !.endpoint = e, !.active = TRUE, !.gen = g, !.once = TRUE] \in SessionState
        BY <1>1 DEF SessionState
      <4>2. NoEndpoint \in Markers
        BY NothingTyped
      <4>. QED
        BY <1>8, <3>1, <4>1, <4>2, Zenon DEF OpenTurn
    <3>. QED
      BY <3>2, <3>3, <3>4, <3>5
  <2>. QED
    BY <1>8, <2>1 DEF TypeOK, OpenTurn, outVars, world
<1>9. CASE OpenTurnFails
  <2>1. disp' \in DispTask
    BY <1>9, <1>1 DEF OpenTurnFails, DispTask
  <2>. QED
    BY <1>9, <2>1, BudgetTyped, NothingTyped, SendsTyped DEF TypeOK, OpenTurnFails, outVars, asrVars, world
<1>10. CASE RefusalReported
  <2>1. disp' \in DispTask /\ state' \in SessionState
    BY <1>10, <1>1, NothingTyped DEF RefusalReported, DispTask, SessionState
  <2>. QED
    BY <1>10, <2>1, SendsTyped DEF TypeOK, RefusalReported, outVars, asrVars, world
<1>11. CASE FeedTurn
  <2>1. heard' \in [Generations -> SUBSET Utterances]
    BY <1>11, <1>1, HeardTyped DEF FeedTurn, Segments
  <2>2. CASE LatchEnd
    BY <1>11, <2>1, <2>2, LatchTyped DEF TypeOK, FeedTurn, outVars, world
  <2>3. CASE disp' = [disp EXCEPT !.pc = "receive"] /\ UNCHANGED <<state, jobs, sends, history>>
    <3>1. disp' \in DispTask
      BY <1>1, <2>3 DEF DispTask
    <3>. QED
      BY <1>11, <2>1, <2>3, <3>1 DEF TypeOK, FeedTurn, outVars, world
  <2>. QED
    BY <1>11, <2>2, <2>3 DEF FeedTurn
<1>12. CASE Notified
  <2>1. disp' \in DispTask
    BY <1>12, <1>1 DEF Notified, DispTask
  <2>. QED
    BY <1>12, <2>1, SendsTyped DEF TypeOK, Notified, outVars, asrVars, world
<1>. QED
  BY <1>2, <1>3, <1>4, <1>5, <1>6, <1>7, <1>8, <1>9, <1>10, <1>11, <1>12 DEF Dispatch

LEMMA OutPcTyped ==
    ASSUME TypeOK,
           NEW pc \in {"loop", "polled", "fired", "preparing", "finalizing", "cancelling",
                       "emitting", "failing", "deadline", "expired", "reopening", "refeeding",
                       "giveUp", "over"},
           OutGoes(pc)
    PROVE  out' \in OutTask
  BY DEF TypeOK, OutTask, OutGoes

LEMMA AnsweredTyped ==
    ASSUME TypeOK, NEW b \in BOOLEAN, Answered(b)
    PROVE  history' \in [answered : BOOLEAN, astray : BOOLEAN]
  BY DEF TypeOK, Answered

LEMMA LiveTyped ==
    ASSUME TypeInv
    PROVE  /\ LiveEndpoint(state) \in SessionState
           /\ Reason \in {"none", "vad", "client_eos"}
  BY NothingTyped DEF TypeInv, TypeOK, LiveEndpoint, Reason, SessionState, Markers

LEMMA StartTyped ==
    ASSUME TypeInv, UNCHANGED fin \/ fin' = [st |-> "running", gen |-> mgr.gen, ok |-> FALSE]
    PROVE  fin' \in FinTask /\ (fin'.ok => fin'.gen > 0)
<1>1. CASE UNCHANGED fin
  BY <1>1 DEF TypeInv, TypeOK
<1>2. CASE fin' = [st |-> "running", gen |-> mgr.gen, ok |-> FALSE]
  <2>1. mgr.gen \in 0 .. MaxGen
    BY DEF TypeInv, TypeOK
  <2>2. fin'.ok = FALSE /\ fin' \in FinTask
    BY <1>2, <2>1 DEF FinTask
  <2>. QED
    BY <2>2
<1>. QED
  BY <1>1, <1>2

LEMMA FinalizeTyped ==
    ASSUME TypeInv, NEW s \in SessionState, FinalizeOrEmpty(s),
           out.pc = "fired" => sends # <<>>
    PROVE  /\ out' \in OutTask /\ state' \in SessionState /\ sends' \in Seq({"disp", "out"})
           /\ fin' \in FinTask /\ (fin'.ok => fin'.gen > 0)
           /\ mgr' \in [st : {"IDLE", "ACTIVE", "FINALIZING"}, gen : 0 .. MaxGen]
           /\ (mgr'.st # "IDLE" => mgr'.gen > 0)
<1>. DEFINE q == IF out.pc = "fired" THEN Tail(sends) ELSE sends
<1>1. s.gen \in 0 .. MaxGen /\ Reason \in {"none", "vad", "client_eos"} /\ 0 \in 0 .. MaxGen
  BY LiveTyped, NothingTyped DEF SessionState
<1>2. q \in Seq({"disp", "out"})
  BY HeadTailProperties DEF TypeInv, TypeOK
<1>3. sends' = q \/ sends' = Append(q, "out")
  BY DEF FinalizeOrEmpty
<1>. HIDE DEF q
<1>4. sends' \in Seq({"disp", "out"})
  BY <1>2, <1>3, AppendProperties
<1>5. out' \in OutTask
  <2>1. \E pc \in {"emitting", "preparing", "finalizing"}, g \in 0 .. MaxGen :
           out' = [out EXCEPT !.pc = pc, !.gen = g, !.by = Reason, !.end = FALSE]
    BY <1>1 DEF FinalizeOrEmpty
  <2>2. out \in OutTask
    BY DEF TypeInv, TypeOK
  <2>. QED
    BY <1>1, <2>1, <2>2 DEF OutTask
<1>6. state' \in SessionState
  BY <1>1 DEF FinalizeOrEmpty, SessionState
<1>7. fin' \in FinTask /\ (fin'.ok => fin'.gen > 0)
  BY StartTyped DEF FinalizeOrEmpty
<1>8. /\ mgr' \in [st : {"IDLE", "ACTIVE", "FINALIZING"}, gen : 0 .. MaxGen]
      /\ (mgr'.st # "IDLE" => mgr'.gen > 0)
  BY DEF TypeInv, TypeOK, FinalizeOrEmpty
<1>. QED
  BY <1>4, <1>5, <1>6, <1>7, <1>8

LEMMA DroppedTyped ==
    ASSUME TypeInv, NEW pc \in {"failing", "loop"}, FinalDropped(pc)
    PROVE  /\ out' \in OutTask /\ state' \in SessionState
           /\ jobs' \in [prep : 0 .. MaxGen, cancel : BOOLEAN]
           /\ history' \in [answered : BOOLEAN, astray : BOOLEAN]
           /\ fin' \in FinTask /\ (fin'.ok => fin'.gen > 0)
<1>. DEFINE s == IF mgr'.st = "IDLE" THEN [state EXCEPT !.active = FALSE, !.endpoint = NoEndpoint] ELSE state
<1>1. s \in SessionState
  BY NothingTyped DEF TypeInv, TypeOK, SessionState
<1>2. state' = [Cleared(s) EXCEPT !.finalizing = 0, !.abortRequested = FALSE]
  BY DEF FinalDropped
<1>. HIDE DEF s
<1>3. Cleared(s) \in SessionState
  BY <1>1, ClearedTyped
<1>4. state' \in SessionState
  BY <1>2, <1>3, NothingTyped DEF SessionState
<1>5. jobs' \in [prep : 0 .. MaxGen, cancel : BOOLEAN]
  BY NothingTyped DEF TypeInv, TypeOK, FinalDropped
<1>6. history' \in [answered : BOOLEAN, astray : BOOLEAN]
  BY AnsweredTyped DEF TypeInv, TypeOK, FinalDropped
<1>7. fin' \in FinTask /\ (fin'.ok => fin'.gen > 0)
  BY DEF TypeInv, TypeOK, FinalDropped, FinTask
<1>8. out' \in OutTask
  BY OutPcTyped DEF TypeInv, FinalDropped
<1>. QED
  BY <1>4, <1>5, <1>6, <1>7, <1>8

LEMMA JudgeTyped ==
    ASSUME TypeInv, NEW end \in BOOLEAN, Judge(end), out.pc # "fired"
    PROVE  TypeInv'
<1>. DEFINE s == LiveEndpoint(state)
            c == s.closed \/ ~Multi
            shut == [s EXCEPT !.closed = c]
<1>1. s \in SessionState /\ Reason \in {"none", "vad", "client_eos"}
  BY LiveTyped
<1>2. c \in BOOLEAN
  OBVIOUS
<1>3. shut \in SessionState
  <2>. HIDE DEF s, c
  <2>. QED
    BY <1>1, <1>2 DEF SessionState
<1>4. history' \in [answered : BOOLEAN, astray : BOOLEAN]
  BY AnsweredTyped DEF TypeInv, TypeOK, Judge
<1>5. \/ state' = s /\ OutGoes(LoopOrReturn(s)) /\ UNCHANGED <<sends, fin, mgr>>
      \/ FinalizeOrEmpty(shut)
      \/ /\ state' = shut /\ SendAs("out") /\ UNCHANGED <<fin, mgr>>
         /\ out' = [out EXCEPT !.pc = "fired", !.by = Reason, !.end = FALSE]
  BY DEF Judge
<1>6. UNCHANGED <<world, budget, disp, finals, jobs, heard>>
  BY DEF Judge
<1>. HIDE DEF s, c, shut
<1>7. CASE state' = s /\ OutGoes(LoopOrReturn(s)) /\ UNCHANGED <<sends, fin, mgr>>
  <2>1. out' \in OutTask
    BY <1>7, OutPcTyped DEF TypeInv, LoopOrReturn
  <2>. QED
    BY <1>1, <1>4, <1>6, <1>7, <2>1 DEF TypeInv, TypeOK, world
<1>8. CASE FinalizeOrEmpty(shut)
  BY <1>3, <1>4, <1>6, <1>8, FinalizeTyped DEF TypeInv, TypeOK, world
<1>9. CASE /\ state' = shut /\ SendAs("out") /\ UNCHANGED <<fin, mgr>>
           /\ out' = [out EXCEPT !.pc = "fired", !.by = Reason, !.end = FALSE]
  <2>1. out' \in OutTask
    BY <1>1, <1>9 DEF TypeInv, TypeOK, OutTask
  <2>. QED
    BY <1>3, <1>4, <1>6, <1>9, <2>1, SendsTyped DEF TypeInv, TypeOK, world
<1>. QED
  BY <1>5, <1>7, <1>8, <1>9

LEMMA RefeedTyped ==
    ASSUME TypeInv, RefeedTurn
    PROVE  TypeInv'
<1>. USE DEF TypeInv
<1>. DEFINE latched == IF DetachedTurn.ended THEN [state EXCEPT !.endpoint = [by |-> "vad", gen |-> out.gen]]
                                             ELSE state
            s == [latched EXCEPT !.pending = Tail(@), !.draining = FALSE]
<1>1. state \in SessionState /\ out \in OutTask /\ TypeOK /\ out.turn.utt \in 0 .. MaxUtterances
  BY DEF TypeOK, OutTask, Turns
<1>2. heard' \in [Generations -> SUBSET Utterances]
  BY <1>1, HeardTyped DEF RefeedTurn
<1>3. DetachedTurn \in Turns
  BY <1>1, HeadTailProperties DEF DetachedTurn, OutTask, SessionState
<1>4. jobs' \in [prep : 0 .. MaxGen, cancel : BOOLEAN]
  BY <1>1 DEF TypeOK, RefeedTurn, Prepared, SessionState
<1>5. history' \in [answered : BOOLEAN, astray : BOOLEAN]
  BY <1>3 DEF TypeOK, RefeedTurn, Turns
<1>6. latched \in SessionState
  BY <1>1 DEF SessionState, Markers, OutTask
<1>. HIDE DEF latched
<1>7. state.pending # <<>> => s \in SessionState
  <2>. SUFFICES ASSUME state.pending # <<>> PROVE s \in SessionState
    OBVIOUS
  <2>1. latched.pending = state.pending
    BY DEF latched, SessionState
  <2>2. Tail(latched.pending) \in Seq(Turns)
    BY <1>1, <2>1, HeadTailProperties DEF SessionState
  <2>. QED
    BY <1>6, <2>2 DEF SessionState
<1>. HIDE DEF s
<1>8. \/ state.pending = <<>> /\ state' = latched /\ out' = [out EXCEPT !.pc = "giveUp", !.turn = NoTurn]
      \/ state.pending # <<>> /\ state' = s /\ out' = [out EXCEPT !.pc = LoopOrReturn(s), !.turn = NoTurn]
  BY DEF RefeedTurn, latched, s
<1>9. state' \in SessionState /\ out' \in OutTask
  BY <1>1, <1>6, <1>7, <1>8, NothingTyped DEF LoopOrReturn, OutTask
<1>. QED
  BY <1>2, <1>4, <1>5, <1>9 DEF TypeOK, RefeedTurn, world

LEMMA AsrOutTyped ==
    ASSUME TypeInv, AsrOut \/ DeadlineExpires \/ FinalTimesOut \/ ReopenFails
    PROVE  TypeInv'
<1>. USE DEF TypeInv
<1>1. state \in SessionState /\ out \in OutTask /\ fin \in FinTask /\ TypeOK
  BY DEF TypeOK
<1>2. CASE Poll
  <2>1. out' \in OutTask
    BY <1>1, <1>2, Zenon DEF Poll, OutTask
  <2>. QED
    BY <1>2, <2>1 DEF TypeOK, Poll, asrVars, world
<1>3. CASE JudgeIdle
  BY <1>3, JudgeTyped DEF JudgeIdle
<1>4. CASE JudgePolled
  BY <1>1, <1>4, JudgeTyped DEF JudgePolled, OutTask
<1>5. CASE EndpointSent
  BY <1>1, <1>5, FinalizeTyped DEF TypeOK, EndpointSent, world
<1>6. CASE PrepareAwaited
  <2>1. out' \in OutTask
    BY <1>1, <1>6, OutPcTyped DEF PrepareAwaited
  <2>2. state' \in SessionState
    BY ZenonT(60), <1>1, <1>6, NothingTyped DEF PrepareAwaited, OutTask, SessionState
  <2>3. history' \in [answered : BOOLEAN, astray : BOOLEAN]
    BY <1>6, AnsweredTyped DEF TypeOK, PrepareAwaited
  <2>4. /\ fin' \in FinTask /\ (fin'.ok => fin'.gen > 0)
    BY <1>6, StartTyped DEF PrepareAwaited
  <2>5. /\ mgr' \in [st : {"IDLE", "ACTIVE", "FINALIZING"}, gen : 0 .. MaxGen]
        /\ (mgr'.st # "IDLE" => mgr'.gen > 0)
    BY <1>6 DEF TypeOK, PrepareAwaited
  <2>. QED
    BY <1>6, <2>1, <2>2, <2>3, <2>4, <2>5 DEF TypeOK, PrepareAwaited, world
<1>7. CASE FinalAccepted
  <2>1. fin.gen \in Generations
    BY <1>1, <1>7, BoundsAssumption DEF TypeOK, FinalAccepted, Generations, FinTask
  <2>2. finals' \in Seq(SUBSET Utterances)
    BY <1>7, <2>1, AppendProperties DEF TypeOK, FinalAccepted
  <2>3. state' \in SessionState
    BY <1>1, <1>7, NothingTyped DEF FinalAccepted, SessionState
  <2>4. jobs' \in [prep : 0 .. MaxGen, cancel : BOOLEAN]
    BY <1>7, NothingTyped DEF TypeOK, FinalAccepted
  <2>5. fin' \in FinTask /\ (fin'.ok => fin'.gen > 0)
    BY <1>1, <1>7 DEF FinalAccepted, FinTask
  <2>. QED
    BY <1>1, <1>7, <2>2, <2>3, <2>4, <2>5, AnsweredTyped, OutPcTyped, SendsTyped
    DEF TypeOK, FinalAccepted, asrVars, world
<1>8. CASE FinalRejected \/ FinalAborted
  BY <1>1, <1>8, DroppedTyped, SendsTyped DEF TypeOK, FinalRejected, FinalAborted, world
<1>9. CASE TimedOutCancelled
  BY <1>1, <1>9, DroppedTyped, SendsTyped DEF TypeOK, TimedOutCancelled, CancelStream, world
<1>10. CASE FailureReported
  BY <1>1, <1>10, OutPcTyped, SendsTyped DEF TypeOK, FailureReported, asrVars, world
<1>11. CASE FinalSent
  <2>1. state' \in SessionState
    BY <1>1, <1>11 DEF FinalSent, SessionState
  <2>2. CASE \E pc : pc \in {"over", "loop"} /\ OutGoes(pc)
    BY <1>1, <1>11, <2>1, <2>2, OutPcTyped, AnsweredTyped, SendsTyped DEF TypeOK, FinalSent, asrVars, world
  <2>3. CASE state.pending # <<>> /\ out' = [out EXCEPT !.pc = "reopening", !.turn = Head(state.pending)]
    <3>1. Head(state.pending) \in Turns
      BY <1>1, <2>3, HeadTailProperties DEF SessionState
    <3>2. out' \in OutTask
      BY <1>1, <2>3, <3>1 DEF OutTask
    <3>. QED
      BY <1>1, <1>11, <2>1, <3>2, AnsweredTyped, SendsTyped DEF TypeOK, FinalSent, asrVars, world
  <2>. QED
    BY <1>11, <2>2, <2>3 DEF FinalSent, LoopOrReturn
<1>12. CASE DropExpiredTurn
  <2>1. state' \in SessionState
    BY <1>1, <1>12, NothingTyped DEF DropExpiredTurn, SessionState
  <2>2. jobs' \in [prep : 0 .. MaxGen, cancel : BOOLEAN]
    BY <1>12, NothingTyped DEF TypeOK, DropExpiredTurn
  <2>. QED
    BY <1>1, <1>12, <2>1, <2>2, AnsweredTyped, OutPcTyped, SendsTyped
    DEF TypeOK, DropExpiredTurn, CancelStream, world
<1>13. CASE ExpiryReported
  BY <1>1, <1>13, OutPcTyped, SendsTyped DEF TypeOK, ExpiryReported, asrVars, world
<1>14. CASE ReopenTurn
  <2>1. mgr.gen + 1 \in 0 .. MaxGen /\ mgr.gen + 1 > 0
    BY <1>14, BoundsAssumption DEF TypeOK, ReopenTurn, OnSpeechStart
  <2>2. /\ mgr' \in [st : {"IDLE", "ACTIVE", "FINALIZING"}, gen : 0 .. MaxGen]
        /\ (mgr'.st # "IDLE" => mgr'.gen > 0)
    BY <1>14, <2>1 DEF TypeOK, ReopenTurn, OnSpeechStart
  <2>3. state' \in SessionState
    BY <1>1, <1>14, <2>1 DEF ReopenTurn, SessionState
  <2>4. out' \in OutTask
    BY <1>1, <1>14, <2>1 DEF ReopenTurn, OutTask
  <2>. QED
    BY <1>14, <2>2, <2>3, <2>4 DEF TypeOK, ReopenTurn, world
<1>15. CASE RefeedTurn
  BY <1>15, RefeedTyped
<1>16. CASE GiveUpTurn
  <2>1. state' \in SessionState
    BY <1>1, <1>16, NothingTyped, ClearedTyped DEF GiveUpTurn, SessionState
  <2>2. out' \in OutTask
    BY <1>1, <1>16, NothingTyped DEF GiveUpTurn, OutTask
  <2>3. mgr' \in [st : {"IDLE", "ACTIVE", "FINALIZING"}, gen : 0 .. MaxGen] /\ (mgr'.st # "IDLE" => mgr'.gen > 0)
    BY <1>16 DEF TypeOK, GiveUpTurn, CancelStream
  <2>. QED
    BY <1>1, <1>16, <2>1, <2>2, <2>3, AnsweredTyped, SendsTyped DEF TypeOK, GiveUpTurn, world
<1>17. CASE DeadlineExpires
  BY <1>1, <1>17, OutPcTyped, BudgetTyped, NothingTyped DEF TypeOK, DeadlineExpires, asrVars, world
<1>18. CASE FinalTimesOut
  <2>1. fin' \in FinTask /\ (fin'.ok => fin'.gen > 0)
    BY <1>1, <1>18 DEF FinalTimesOut, FinTask
  <2>. QED
    BY <1>1, <1>18, <2>1, OutPcTyped, BudgetTyped, NothingTyped DEF TypeOK, FinalTimesOut, asrVars, world
<1>19. CASE ReopenFails
  <2>1. history' \in [answered : BOOLEAN, astray : BOOLEAN]
    BY <1>19 DEF TypeOK, ReopenFails
  <2>. QED
    BY <1>1, <1>19, <2>1, OutPcTyped, BudgetTyped, NothingTyped DEF TypeOK, ReopenFails, asrVars, world
<1>. QED
  BY <1>2, <1>3, <1>4, <1>5, <1>6, <1>7, <1>8, <1>9, <1>10, <1>11, <1>12, <1>13, <1>14,
     <1>15, <1>16, <1>17, <1>18, <1>19 DEF AsrOut

LEMMA EngineTyped ==
    ASSUME TypeInv, FinalizeEnds \/ PrepareEnds \/ AbortCancelEnds \/ EngineFalls
    PROVE  TypeInv'
<1>. USE DEF TypeInv
<1>1. CASE FinalizeEnds
  <2>1. fin' \in FinTask /\ (fin'.ok => fin'.gen > 0)
    <3>. DEFINE ok == mgr.st = "FINALIZING" /\ mgr.gen = fin.gen
    <3>1. ok \in BOOLEAN /\ fin' = [fin EXCEPT !.st = "done", !.ok = ok] /\ (ok => fin.gen > 0)
      BY <1>1 DEF TypeOK, FinalizeEnds
    <3>2. fin \in FinTask
      BY DEF TypeOK
    <3>. HIDE DEF ok
    <3>. QED
      BY <3>1, <3>2 DEF FinTask
  <2>2. mgr' \in [st : {"IDLE", "ACTIVE", "FINALIZING"}, gen : 0 .. MaxGen] /\ (mgr'.st # "IDLE" => mgr'.gen > 0)
    BY <1>1 DEF TypeOK, FinalizeEnds, CancelStream
  <2>. QED
    BY <1>1, <2>1, <2>2 DEF TypeOK, FinalizeEnds, world
<1>2. CASE PrepareEnds
  BY <1>2, NothingTyped DEF TypeOK, PrepareEnds, outVars, asrVars, world
<1>3. CASE AbortCancelEnds
  BY <1>3 DEF TypeOK, AbortCancelEnds, CancelStream, outVars, world
<1>4. CASE EngineFalls
  BY <1>4, BudgetTyped, NothingTyped DEF TypeOK, EngineFalls, CancelStream, outVars, world
<1>. QED
  BY <1>1, <1>2, <1>3, <1>4

LEMMA TypeStep ==
    ASSUME TypeInv, [Next]_vars
    PROVE  TypeInv'
<1>1. CASE UNCHANGED vars
  BY <1>1 DEF TypeInv, TypeOK, vars
<1>. QED
  BY <1>1, ControlTyped, DispatchTyped, AsrOutTyped, EngineTyped DEF Next

LEMMA TypeInit ==
    ASSUME Init
    PROVE  TypeInv
<1>1. <<>> \in Seq(Turns) /\ <<>> \in Seq({"disp", "out"}) /\ <<>> \in Seq(SUBSET Utterances)
  OBVIOUS
<1>2. state \in SessionState /\ disp \in DispTask
  BY <1>1, NothingTyped DEF Init, SessionState, DispTask
<1>3. out \in OutTask /\ fin \in FinTask
  BY NothingTyped DEF Init, OutTask, FinTask
<1>4. budget \in [Disturbances -> 0 .. MaxDisturb]
  BY BoundsAssumption DEF Init
<1>5. /\ mic \in [utt : 0 .. MaxUtterances, talking : BOOLEAN]
      /\ jobs \in [prep : 0 .. MaxGen, cancel : BOOLEAN]
      /\ mgr \in [st : {"IDLE", "ACTIVE", "FINALIZING"}, gen : 0 .. MaxGen]
      /\ heard \in [Generations -> SUBSET Utterances]
      /\ history \in [answered : BOOLEAN, astray : BOOLEAN]
  BY BoundsAssumption DEF Init
<1>. QED
  BY <1>1, <1>2, <1>3, <1>4, <1>5 DEF TypeInv, TypeOK, Init

(* Whatever the session's configuration and the order of the tasks' steps,  *)
(* every variable keeps its type; the stream that is fed or finalized is    *)
(* one the engine opened.                                                  *)
THEOREM TypeCorrect == Spec => []TypeInv
<1>. QED
  BY TypeInit, TypeStep, PTL DEF Spec
-----------------------------------------------------------------------------
(* The cancel task an abort leaves                                         *)
(***************************************************************************)
(* While it runs the dispatcher is at rest or joins it, so the queue the     *)
(* abort emptied stays empty and nobody opens a turn.  Only a drain the     *)
(* abort caught half way could.                                            *)
(***************************************************************************)
CancelInv ==
    jobs.cancel => /\ disp.pc \in {"receive", "join", "over"} /\ state.pending = <<>>
                   /\ ~history.astray => ~state.active /\ out.pc # "reopening"

LEMMA SegmentLeavesCancel ==
    ASSUME TypeInv, NEW seg \in Segments, HandleSegment(seg)
    PROVE  jobs'.cancel = jobs.cancel
  BY DEF TypeInv, TypeOK, HandleSegment, QueueSegment, RejectPending, FeedSegment, LatchEnd, Prepared

LEMMA FinalizeGoes ==
    ASSUME TypeOK, NEW s, FinalizeOrEmpty(s)
    PROVE  out'.pc \in {"emitting", "preparing", "finalizing"} /\ ~out'.end
<1>1. out = [out EXCEPT !.pc = out.pc] /\ out \in OutTask
  BY DEF TypeOK, OutTask
<1>2. \E g : \E pc \in {"emitting", "preparing", "finalizing"} :
         out' = [out EXCEPT !.pc = pc, !.gen = g, !.by = Reason, !.end = FALSE]
  BY DEF FinalizeOrEmpty
<1>. QED
  BY <1>1, <1>2 DEF OutTask

LEMMA CancelStep ==
    ASSUME TypeInv, CancelInv, [Next]_vars
    PROVE  CancelInv'
<1>. SUFFICES ASSUME jobs'.cancel
              PROVE  /\ disp'.pc \in {"receive", "join", "over"} /\ state'.pending = <<>>
                     /\ ~history'.astray => ~state'.active /\ out'.pc # "reopening"
  BY DEF CancelInv
<1>. USE DEF TypeInv, CancelInv
<1>1. CASE Abort
  <2>1. state'.pending = <<>> /\ ~state'.active /\ out'.pc = out.pc
    BY <1>1 DEF TypeOK, SessionState, OutTask, Abort, Cleared
  <2>. QED
    BY <1>1, <2>1 DEF TypeOK, Abort, Control
<1>2. ASSUME NEW seg \in Segments, ReceiveAudio(seg) PROVE CancelInv'
  <2>1. CASE jobs.cancel
    BY <1>2, <2>1 DEF TypeOK, ReceiveAudio, MustJoin, outVars
  <2>2. CASE ~jobs.cancel
    BY <1>2, <2>2, SegmentLeavesCancel DEF ReceiveAudio, MustJoin
  <2>. QED
    BY <2>1, <2>2
<1>3. CASE ClientEos \/ ClientPrepare \/ KeepingAbort \/ Leave
  <2>1. CASE ClientEos
    BY <1>3, <2>1 DEF ClientEos, TypeOK, SessionState, Control, Latched, outVars
  <2>2. CASE ClientPrepare
    BY <1>3, <2>2 DEF ClientPrepare, TypeOK, Control, Prepared, outVars
  <2>3. CASE KeepingAbort
    BY <1>3, <2>3 DEF KeepingAbort, Control, outVars
  <2>4. CASE Leave
    BY <1>3, <2>4 DEF Leave, TypeOK, SessionState, DispTask, OutTask, Control
  <2>. QED
    BY <1>3, <2>1, <2>2, <2>3, <2>4
<1>4. CASE Dispatch \/ JoinTimesOut \/ OpenTurnFails
  <2>1. ASSUME Joined PROVE FALSE
    BY <2>1, SegmentLeavesCancel DEF TypeOK, DispTask, Joined
  <2>2. CASE Notified \/ JamReported \/ RefusalReported \/ StartTurn \/ QueueTurn
    BY <2>2 DEF TypeOK, Notified, JamReported, RefusalReported, StartTurn, QueueTurn
  <2>3. CASE OpenTurn \/ JoinTimesOut \/ OpenTurnFails
    BY <2>3 DEF TypeOK, OpenTurn, JoinTimesOut, OpenTurnFails
  <2>4. CASE FeedTurn
    BY <2>4 DEF TypeOK, FeedTurn, LatchEnd, Prepared
  <2>. QED
    BY <1>4, <2>1, <2>2, <2>3, <2>4 DEF Dispatch
<1>5. CASE AsrOut \/ DeadlineExpires \/ FinalTimesOut \/ ReopenFails
  <2>. USE DEF TypeOK, SessionState, OutTask
  <2>1. CASE Poll \/ DeadlineExpires \/ FinalTimesOut \/ FailureReported \/ ExpiryReported
    BY <2>1 DEF Poll, DeadlineExpires, FinalTimesOut, FailureReported, ExpiryReported, OutGoes
  <2>2. ASSUME NEW s, s.pending = state.pending, s.active = state.active, FinalizeOrEmpty(s), UNCHANGED <<disp, jobs>>,
               history'.astray = history.astray, s \in SessionState
        PROVE  CancelInv'
    <3>1. out'.pc \in {"emitting", "preparing", "finalizing"}
      BY <2>2, FinalizeGoes
    <3>2. state'.pending = s.pending /\ state'.active = s.active
      BY <2>2 DEF FinalizeOrEmpty
    <3>. QED
      BY <2>2, <3>1, <3>2
  <2>3. ASSUME NEW end, Judge(end) PROVE CancelInv'
    <3>. DEFINE s == LiveEndpoint(state)
                shut == [s EXCEPT !.closed = @ \/ ~Multi]
    <3>1. s.pending = state.pending /\ s.active = state.active /\ s \in SessionState
      BY LiveTyped DEF LiveEndpoint
    <3>2. shut.pending = state.pending /\ shut.active = state.active /\ shut \in SessionState
      BY <3>1
    <3>3. history'.astray = history.astray /\ UNCHANGED <<disp, jobs>>
      BY <2>3 DEF Judge, Answered
    <3>4. \/ state' = s /\ OutGoes(LoopOrReturn(s))
          \/ FinalizeOrEmpty(shut)
          \/ state' = shut /\ out' = [out EXCEPT !.pc = "fired", !.by = Reason, !.end = FALSE]
      BY <2>3 DEF Judge
    <3>. HIDE DEF s, shut
    <3>5. CASE FinalizeOrEmpty(shut)
      BY <2>2, <3>2, <3>3, <3>5
    <3>6. CASE out'.pc \in {"loop", "over", "fired"} /\ state' \in {s, shut}
      BY <3>1, <3>2, <3>3, <3>6
    <3>. QED
      BY ZenonT(60), <3>4, <3>5, <3>6 DEF OutGoes, LoopOrReturn
  <2>4. CASE EndpointSent
    BY <2>2, <2>4 DEF EndpointSent
  <2>5. CASE PrepareAwaited
    BY ZenonT(60), <2>5 DEF PrepareAwaited, OutGoes, Answered
  <2>6. CASE FinalAccepted
    BY <2>6 DEF FinalAccepted, OutGoes, Answered
  <2>7. CASE FinalRejected \/ FinalAborted \/ TimedOutCancelled
    <3>1. PICK pc \in {"failing", "loop"} : FinalDropped(pc) /\ UNCHANGED disp
      BY <2>7 DEF FinalRejected, FinalAborted, TimedOutCancelled
    <3>2. out'.pc # "reopening" /\ jobs'.cancel = jobs.cancel /\ history'.astray = history.astray
      BY <3>1 DEF FinalDropped, OutGoes, Answered
    <3>3. state'.pending = <<>> /\ (state'.active => state.active)
      BY <3>1 DEF FinalDropped, Cleared
    <3>. QED
      BY <3>1, <3>2, <3>3
  <2>8. CASE FinalSent
    BY ZenonT(60), <2>8 DEF FinalSent, OutGoes, Answered, LoopOrReturn
  <2>9. CASE DropExpiredTurn
    BY <2>9 DEF DropExpiredTurn, OutGoes, Answered
  <2>10. CASE ReopenTurn \/ ReopenFails
    BY ZenonT(60), <2>10 DEF ReopenTurn, ReopenFails, OutGoes
  <2>11. CASE RefeedTurn
    BY <2>11 DEF RefeedTurn, Prepared
  <2>12. CASE GiveUpTurn
    BY <2>12 DEF GiveUpTurn, Answered, Cleared
  <2>. QED
    BY <1>5, <2>1, <2>3, <2>4, <2>5, <2>6, <2>7, <2>8, <2>9, <2>10, <2>11, <2>12
    DEF AsrOut, JudgeIdle, JudgePolled
<1>6. CASE FinalizeEnds \/ PrepareEnds \/ AbortCancelEnds \/ EngineFalls
  BY <1>6 DEF TypeOK, FinalizeEnds, PrepareEnds, AbortCancelEnds, EngineFalls, outVars
<1>7. CASE UNCHANGED vars
  BY <1>7 DEF vars
<1>. QED
  BY <1>1, <1>2, <1>3, <1>4, <1>5, <1>6, <1>7 DEF Next

(* The cancel task an abort leaves running tears down the aborted turn and  *)
(* no other: while it runs, no turn is active, in every kind of session.    *)
THEOREM CancelSpares == Spec => []CancelSparesNewTurn
<1>1. Init => CancelInv
  BY DEF Init, CancelInv
<1>2. CancelInv => CancelSparesNewTurn
  BY DEF CancelInv, CancelSparesNewTurn
<1>. QED
  BY <1>1, <1>2, TypeCorrect, CancelStep, PTL DEF Spec
-----------------------------------------------------------------------------
(* The turns that wait in pending_turns                                    *)
(***************************************************************************)
(* QueuedSpeechIsTakenUp is an invariant because of how the two tasks share  *)
(* the session: which of them sends, which endpoint is latched for which    *)
(* generation, what the recogniser holds, and who may touch the queue.  The *)
(* parts below say so for a session that is Calm, one in which a turn can   *)
(* queue and none of the failures has happened that free its server: they   *)
(* hold together or not at all.                                            *)
(***************************************************************************)
Calm ==
    /\ Multi /\ deployment.detector = "vad" /\ deployment.disturb \cap Failures = {}
    /\ ~history.astray /\ ~state.clientClosed /\ ~state.closed

(* Only the disturbances of the deployment happen. *)
BudgetInv == \A kind \in Disturbances : kind \notin deployment.disturb => budget[kind] = 0

EndLatched == state.endpoint.by # "none"
Draining == out.pc \in {"reopening", "refeeding"}

(* send_lock is held or awaited by the tasks that are sending.              *)
SendInv ==
    LET d == disp.pc \in {"announce", "queue", "notify", "refused", "jammed"}
        o == out.pc \in {"fired", "emitting"}
    IN  /\ d /\ o => sends \in {<<"disp", "out">>, <<"out", "disp">>}
        /\ d /\ ~o => sends = <<"disp">>
        /\ ~d /\ o => sends = <<"out">>
        /\ ~d /\ ~o => sends = <<>>

(* The flags of the session say where asr_out_task is. *)
OutInv ==
    /\ out.pc \in {"loop", "polled", "fired", "preparing", "finalizing", "emitting",
                   "reopening", "refeeding"}
    /\ ~out.end
    /\ state.finalizing # 0 => out.pc = "finalizing"
    /\ state.draining <=> Draining
    /\ fin.st # "none" => out.pc = "finalizing"

(* A latched endpoint is the active turn's. *)
EndInv == EndLatched => state.active /\ state.endpoint.gen = state.gen

(* The active turn is the recogniser's stream. *)
ActiveInv ==
    state.active => /\ state.gen = mgr.gen /\ state.gen > 0
                    /\ out.pc # "finalizing" => mgr.st = "ACTIVE"

(* Speech on its way to the recogniser found nobody in its way, and nobody  *)
(* steps in its way.                                                       *)
DispInv ==
    /\ disp.pc \in {"announce", "opening", "feeding", "refused"} =>
         state.pending = <<>> /\ ~Draining /\ ~EndLatched /\ out.pc \notin {"preparing", "finalizing"}
    /\ disp.pc = "join" => state.pending = <<>> /\ ~Draining

(* An asr_endpoint is sent for an endpoint that is still latched, unless an *)
(* abort dropped it: then no turn opens before it is sent.                  *)
FiredInv ==
    out.pc = "fired" =>
       \/ EndLatched
       \/ /\ ~state.active /\ disp.pc \notin {"opening", "feeding", "refused"}
          /\ disp.pc = "announce" => sends = <<"out", "disp">>

(* The rest of an abort is still under way. *)
Winding == jobs.cancel \/ disp.pc = "jammed"

PreparingInv ==
    out.pc = "preparing" =>
       /\ out.gen > 0
       /\ \/ state.active /\ state.gen = out.gen /\ EndLatched
          \/ ~state.active /\ Winding /\ (jobs.cancel => jobs.prep # out.gen)

(* A finalize ends in a final, or was cancelled by an abort. *)
FinalizingInv ==
    out.pc = "finalizing" =>
       \/ /\ fin.st \in {"running", "done"} /\ state.finalizing # 0
          /\ state.active /\ state.gen = out.gen /\ fin.gen = mgr.gen
          /\ IF fin.st = "running" THEN mgr.st = "FINALIZING" ELSE fin.ok
       \/ /\ ~state.active /\ Winding
          /\ fin.st = "cancelled" \/ (fin.st = "done" /\ fin.ok)

DrainInv ==
    /\ out.pc = "reopening" => ~state.active
    /\ out.pc = "refeeding" => state.active /\ state.gen = out.gen
    /\ Draining => state.pending # <<>> /\ out.turn.utt = Head(state.pending).utt

(* While a final is sent that a queued turn waits for, no turn opens. *)
EmitInv ==
    out.pc = "emitting" /\ (state.pending # <<>> \/ (disp.pc = "queue" /\ sends = <<"disp", "out">>))
       => ~state.active

(* Only the last queued turn may still be spoken. *)
QueueInv ==
    /\ \A i \in 1 .. Len(state.pending) - 1 : state.pending[i].ended
    /\ TurnOpenInQueue => mic.talking /\ disp.pc # "queue"

(* A segment in the dispatcher's hands is the last one spoken. *)
MicInv ==
    /\ disp.pc \notin {"receive", "over", "notify"} =>
          (mic.talking <=> disp.seg.kind \in {"start", "speech"})
    /\ disp.pc = "queue" => disp.seg.kind = "start"

(* Who takes up the queue, also while its next turn is being announced. *)
ServerInv ==
    state.pending # <<>> \/ disp.pc = "queue" =>
       \/ EndLatched
       \/ out.pc \in {"finalizing", "reopening", "refeeding"}
       \/ out.pc = "emitting" /\ (state.pending # <<>> \/ sends = <<"disp", "out">>)

CalmInv ==
    /\ SendInv /\ OutInv /\ EndInv /\ ActiveInv /\ DispInv /\ FiredInv /\ PreparingInv
    /\ FinalizingInv /\ DrainInv /\ EmitInv /\ QueueInv /\ MicInv /\ ServerInv

(* In the other sessions nothing queues. *)
NothingQueues ==
    /\ ~Multi /\ ~state.closed =>
          /\ state.pending = <<>> /\ ~EndLatched /\ state.finalizing = 0 /\ ~state.draining
          /\ disp.pc # "queue"
          /\ out.pc \in {"loop", "polled", "deadline", "expired", "over"}
    /\ ~FrontendVad => state.pending = <<>> /\ disp.pc # "queue"

(* A step of a session that stays calm. *)
CalmCtx == TypeInv /\ CancelInv /\ Calm /\ CalmInv /\ Calm'

LEMMA AppendTwo ==
    ASSUME NEW a \in {"disp", "out"}, NEW b \in {"disp", "out"}
    PROVE  Append(<<a>>, b) = <<a, b>>
<1>. DEFINE T == {"disp", "out"}
            s == Append(<<a>>, b)
            t == <<a, b>>
<1>1. <<a>> \in Seq(T) /\ t \in Seq(T) /\ Len(<<a>>) = 1 /\ Len(t) = 2 /\ t[1] = a /\ t[2] = b
  OBVIOUS
<1>2. s \in Seq(T) /\ Len(s) = 2 /\ s[1] = a /\ s[2] = b
  BY <1>1, AppendProperties
<1>. HIDE DEF s, t
<1>3. \A i \in 1 .. Len(s) : s[i] = t[i]
  BY <1>1, <1>2
<1>4. s = t
  BY <1>1, <1>2, <1>3, SeqEqual
<1>. QED
  BY <1>4 DEF s, t

(* What send_lock's queue becomes. *)
LEMMA SendFacts ==
    /\ Append(<<>>, "disp") = <<"disp">> /\ Append(<<>>, "out") = <<"out">>
    /\ Append(<<"out">>, "disp") = <<"out", "disp">> /\ Append(<<"disp">>, "out") = <<"disp", "out">>
    /\ Head(<<"disp">>) = "disp" /\ Head(<<"out">>) = "out"
    /\ Head(<<"disp", "out">>) = "disp" /\ Head(<<"out", "disp">>) = "out"
    /\ Tail(<<"disp">>) = <<>> /\ Tail(<<"out">>) = <<>>
    /\ Tail(<<"disp", "out">>) = <<"out">>
    /\ Tail(<<"out", "disp">>) = <<"disp">>
    /\ <<"disp">> # <<>> /\ <<"out">> # <<>> /\ <<"disp", "out">> # <<>> /\ <<"out", "disp">> # <<>>
<1>1. Append(<<>>, "disp") = <<"disp">> /\ Append(<<>>, "out") = <<"out">>
  OBVIOUS
<1>2. Append(<<"out">>, "disp") = <<"out", "disp">> /\ Append(<<"disp">>, "out") = <<"disp", "out">>
  BY AppendTwo
<1>3. Head(<<"disp">>) = "disp" /\ Head(<<"out">>) = "out"
  OBVIOUS
<1>4. Head(<<"disp", "out">>) = "disp" /\ Head(<<"out", "disp">>) = "out"
  OBVIOUS
<1>5. Tail(<<"disp">>) = <<>> /\ Tail(<<"out">>) = <<>>
  OBVIOUS
<1>6. Tail(<<"disp", "out">>) = <<"out">>
  OBVIOUS
<1>7. Tail(<<"out", "disp">>) = <<"disp">>
  OBVIOUS
<1>8. <<"disp">> # <<>> /\ <<"out">> # <<>> /\ <<"disp", "out">> # <<>> /\ <<"out", "disp">> # <<>>
  OBVIOUS
<1>. QED
  BY <1>1, <1>2, <1>3, <1>4, <1>5, <1>6, <1>7, <1>8

LEMMA JoinTimesOutCalm ==
    ASSUME CalmCtx, JoinTimesOut
    PROVE  CalmInv'
<1>. USE DEF CalmInv, SendInv, OutInv, EndInv, ActiveInv, DispInv, FiredInv, PreparingInv, FinalizingInv, DrainInv, EmitInv, QueueInv, MicInv, ServerInv,
     Calm, CalmCtx, CancelInv, EndLatched, Draining, Winding, TurnOpenInQueue, Multi,
     TypeInv, TypeOK, SessionState, OutTask, DispTask, FinTask, Markers, JoinTimesOut, SendAs, outVars, asrVars, world
<1>1. SendInv' /\ ServerInv'
  BY ZenonT(60), SendFacts
<1>2. OutInv' /\ EndInv' /\ ActiveInv' /\ DispInv' /\ FiredInv' /\ PreparingInv' /\ FinalizingInv'
      /\ DrainInv' /\ EmitInv' /\ QueueInv' /\ MicInv'
  OBVIOUS
<1>. QED
  BY <1>1, <1>2 DEF CalmInv

LEMMA StartTurnCalm ==
    ASSUME CalmCtx, StartTurn
    PROVE  CalmInv'
<1>. USE DEF CalmInv, SendInv, OutInv, EndInv, ActiveInv, DispInv, FiredInv, PreparingInv, FinalizingInv, DrainInv, EmitInv, QueueInv, MicInv, ServerInv,
     Calm, CalmCtx, CancelInv, EndLatched, Draining, Winding, TurnOpenInQueue, Multi,
     TypeInv, TypeOK, SessionState, OutTask, DispTask, FinTask, Markers, StartTurn, Sent, BackendEndpoint, outVars, asrVars, world
<1>1. SendInv' /\ ServerInv'
  BY ZenonT(60), SendFacts
<1>2. OutInv' /\ EndInv' /\ ActiveInv' /\ DispInv' /\ FiredInv' /\ PreparingInv' /\ FinalizingInv'
      /\ DrainInv' /\ EmitInv' /\ QueueInv' /\ MicInv'
  OBVIOUS
<1>. QED
  BY <1>1, <1>2 DEF CalmInv

LEMMA OpenTurnCalm ==
    ASSUME CalmCtx, OpenTurn
    PROVE  CalmInv'
  BY DEF CalmInv, SendInv, OutInv, EndInv, ActiveInv, DispInv, FiredInv, PreparingInv, FinalizingInv, DrainInv, EmitInv, QueueInv, MicInv, ServerInv,
     Calm, CalmCtx, CancelInv, EndLatched, Draining, Winding, TurnOpenInQueue, Multi,
     TypeInv, TypeOK, SessionState, OutTask, DispTask, FinTask, Markers, OpenTurn, OnSpeechStart, Answered, NoEndpoint, outVars, world

LEMMA OpenTurnFailsCalm ==
    ASSUME CalmCtx, OpenTurnFails
    PROVE  CalmInv'
<1>. USE DEF CalmInv, SendInv, OutInv, EndInv, ActiveInv, DispInv, FiredInv, PreparingInv, FinalizingInv, DrainInv, EmitInv, QueueInv, MicInv, ServerInv,
     Calm, CalmCtx, CancelInv, EndLatched, Draining, Winding, TurnOpenInQueue, Multi,
     TypeInv, TypeOK, SessionState, OutTask, DispTask, FinTask, Markers, OpenTurnFails, SendAs, outVars, asrVars, world
<1>1. SendInv' /\ ServerInv'
  BY ZenonT(60), SendFacts
<1>2. OutInv' /\ EndInv' /\ ActiveInv' /\ DispInv' /\ FiredInv' /\ PreparingInv' /\ FinalizingInv'
      /\ DrainInv' /\ EmitInv' /\ QueueInv' /\ MicInv'
  OBVIOUS
<1>. QED
  BY <1>1, <1>2 DEF CalmInv

LEMMA RefusalReportedCalm ==
    ASSUME CalmCtx, RefusalReported
    PROVE  CalmInv'
<1>. USE DEF CalmInv, SendInv, OutInv, EndInv, ActiveInv, DispInv, FiredInv, PreparingInv, FinalizingInv, DrainInv, EmitInv, QueueInv, MicInv, ServerInv,
     Calm, CalmCtx, CancelInv, EndLatched, Draining, Winding, TurnOpenInQueue, Multi,
     TypeInv, TypeOK, SessionState, OutTask, DispTask, FinTask, Markers, RefusalReported, Sent, NoEndpoint, Event, outVars, asrVars, world
<1>1. SendInv' /\ ServerInv'
  BY ZenonT(60), SendFacts
<1>2. OutInv' /\ EndInv' /\ ActiveInv' /\ DispInv' /\ FiredInv' /\ PreparingInv' /\ FinalizingInv'
      /\ DrainInv' /\ EmitInv' /\ QueueInv' /\ MicInv'
  OBVIOUS
<1>. QED
  BY <1>1, <1>2 DEF CalmInv

LEMMA NotifiedCalm ==
    ASSUME CalmCtx, Notified
    PROVE  CalmInv'
<1>. USE DEF CalmInv, SendInv, OutInv, EndInv, ActiveInv, DispInv, FiredInv, PreparingInv, FinalizingInv, DrainInv, EmitInv, QueueInv, MicInv, ServerInv,
     Calm, CalmCtx, CancelInv, EndLatched, Draining, Winding, TurnOpenInQueue, Multi,
     TypeInv, TypeOK, SessionState, OutTask, DispTask, FinTask, Markers, Notified, Sent, outVars, asrVars, world
<1>1. SendInv' /\ ServerInv'
  BY ZenonT(60), SendFacts
<1>2. OutInv' /\ EndInv' /\ ActiveInv' /\ DispInv' /\ FiredInv' /\ PreparingInv' /\ FinalizingInv'
      /\ DrainInv' /\ EmitInv' /\ QueueInv' /\ MicInv'
  OBVIOUS
<1>. QED
  BY <1>1, <1>2 DEF CalmInv

LEMMA ClientEosCalm ==
    ASSUME CalmCtx, ClientEos
    PROVE  CalmInv'
  BY ZenonT(60) DEF CalmInv, SendInv, OutInv, EndInv, ActiveInv, DispInv, FiredInv, PreparingInv, FinalizingInv, DrainInv, EmitInv, QueueInv, MicInv, ServerInv,
     Calm, CalmCtx, CancelInv, EndLatched, Draining, Winding, TurnOpenInQueue, Multi,
     TypeInv, TypeOK, SessionState, OutTask, DispTask, FinTask, Markers, ClientEos, Control, Latched, outVars, asrVars, world

LEMMA ClientPrepareCalm ==
    ASSUME CalmCtx, ClientPrepare
    PROVE  CalmInv'
  BY DEF CalmInv, SendInv, OutInv, EndInv, ActiveInv, DispInv, FiredInv, PreparingInv, FinalizingInv, DrainInv, EmitInv, QueueInv, MicInv, ServerInv,
     Calm, CalmCtx, CancelInv, EndLatched, Draining, Winding, TurnOpenInQueue, Multi,
     TypeInv, TypeOK, SessionState, OutTask, DispTask, FinTask, Markers, ClientPrepare, Control, Prepared, outVars, asrVars, world

LEMMA KeepingAbortCalm ==
    ASSUME CalmCtx, KeepingAbort
    PROVE  CalmInv'
  BY DEF CalmInv, SendInv, OutInv, EndInv, ActiveInv, DispInv, FiredInv, PreparingInv, FinalizingInv, DrainInv, EmitInv, QueueInv, MicInv, ServerInv,
     Calm, CalmCtx, CancelInv, EndLatched, Draining, Winding, TurnOpenInQueue, Multi,
     TypeInv, TypeOK, SessionState, OutTask, DispTask, FinTask, Markers, KeepingAbort, Control, outVars, asrVars, world

LEMMA AbortCalm ==
    ASSUME CalmCtx, Abort
    PROVE  CalmInv'
<1>. USE DEF CalmInv, SendInv, OutInv, EndInv, ActiveInv, DispInv, FiredInv, PreparingInv, FinalizingInv, DrainInv, EmitInv, QueueInv, MicInv, ServerInv,
     Calm, CalmCtx, CancelInv, EndLatched, Draining, Winding, TurnOpenInQueue, Multi,
     TypeInv, TypeOK, SessionState, OutTask, DispTask, FinTask, Markers, Abort, Control, Cleared, NoEndpoint, asrVars, world
<1>1. SendInv' /\ ServerInv'
  BY SendFacts
<1>2. OutInv' /\ EndInv' /\ ActiveInv' /\ DispInv' /\ FiredInv' /\ PreparingInv' /\ FinalizingInv'
      /\ DrainInv' /\ EmitInv' /\ QueueInv' /\ MicInv'
  BY SMTT(30)
<1>. QED
  BY <1>1, <1>2 DEF CalmInv

LEMMA FinalAcceptedCalm ==
    ASSUME CalmCtx, FinalAccepted
    PROVE  CalmInv'
<1>. USE DEF CalmInv, SendInv, OutInv, EndInv, ActiveInv, DispInv, FiredInv, PreparingInv, FinalizingInv, DrainInv, EmitInv, QueueInv, MicInv, ServerInv,
     Calm, CalmCtx, CancelInv, EndLatched, Draining, Winding, TurnOpenInQueue, Multi,
     TypeInv, TypeOK, SessionState, OutTask, DispTask, FinTask, Markers, FinalAccepted, Answered, OutGoes, SendAs, NoEndpoint, asrVars, world
<1>1. SendInv' /\ ServerInv'
  BY ZenonT(60), SendFacts
<1>2. OutInv' /\ EndInv' /\ ActiveInv' /\ DispInv' /\ FiredInv' /\ PreparingInv' /\ FinalizingInv'
      /\ DrainInv' /\ EmitInv' /\ QueueInv' /\ MicInv'
  OBVIOUS
<1>. QED
  BY <1>1, <1>2 DEF CalmInv

LEMMA FinalAbortedCalm ==
    ASSUME CalmCtx, FinalAborted
    PROVE  CalmInv'
  BY DEF CalmInv, SendInv, OutInv, EndInv, ActiveInv, DispInv, FiredInv, PreparingInv, FinalizingInv, DrainInv, EmitInv, QueueInv, MicInv, ServerInv,
     Calm, CalmCtx, CancelInv, EndLatched, Draining, Winding, TurnOpenInQueue, Multi,
     TypeInv, TypeOK, SessionState, OutTask, DispTask, FinTask, Markers, FinalAborted, FinalDropped, Answered, OutGoes, Cleared, NoEndpoint, world

LEMMA ReopenTurnCalm ==
    ASSUME CalmCtx, ReopenTurn
    PROVE  CalmInv'
  BY DEF CalmInv, SendInv, OutInv, EndInv, ActiveInv, DispInv, FiredInv, PreparingInv, FinalizingInv, DrainInv, EmitInv, QueueInv, MicInv, ServerInv,
     Calm, CalmCtx, CancelInv, EndLatched, Draining, Winding, TurnOpenInQueue, Multi,
     TypeInv, TypeOK, SessionState, OutTask, DispTask, FinTask, Markers, ReopenTurn, OnSpeechStart, world

LEMMA FinalizeEndsCalm ==
    ASSUME CalmCtx, FinalizeEnds
    PROVE  CalmInv'
  BY DEF CalmInv, SendInv, OutInv, EndInv, ActiveInv, DispInv, FiredInv, PreparingInv, FinalizingInv, DrainInv, EmitInv, QueueInv, MicInv, ServerInv,
     Calm, CalmCtx, CancelInv, EndLatched, Draining, Winding, TurnOpenInQueue, Multi,
     TypeInv, TypeOK, SessionState, OutTask, DispTask, FinTask, Markers, FinalizeEnds, CancelStream, world

LEMMA PrepareEndsCalm ==
    ASSUME CalmCtx, PrepareEnds
    PROVE  CalmInv'
  BY DEF CalmInv, SendInv, OutInv, EndInv, ActiveInv, DispInv, FiredInv, PreparingInv, FinalizingInv, DrainInv, EmitInv, QueueInv, MicInv, ServerInv,
     Calm, CalmCtx, CancelInv, EndLatched, Draining, Winding, TurnOpenInQueue, Multi,
     TypeInv, TypeOK, SessionState, OutTask, DispTask, FinTask, Markers, PrepareEnds, outVars, asrVars, world

LEMMA PollCalm ==
    ASSUME CalmCtx, Poll
    PROVE  CalmInv'
<1>. USE DEF CalmInv, SendInv, OutInv, EndInv, ActiveInv, DispInv, FiredInv, PreparingInv, FinalizingInv, DrainInv, EmitInv, QueueInv, MicInv, ServerInv,
     Calm, CalmCtx, CancelInv, EndLatched, Draining, Winding, TurnOpenInQueue, Multi,
     TypeInv, TypeOK, SessionState, OutTask, DispTask, FinTask, Markers, Poll, asrVars, world
<1>1. ~BackendEndpoint
  BY DEF BackendEndpoint
<1>2. out' = [out EXCEPT !.pc = "polled", !.end = FALSE]
  BY <1>1
<1>. QED
  BY ZenonT(60), <1>2

LEMMA AbortCancelEndsCalm ==
    ASSUME CalmCtx, AbortCancelEnds
    PROVE  CalmInv'
<1>. USE DEF CalmInv, SendInv, OutInv, EndInv, ActiveInv, DispInv, FiredInv, PreparingInv, FinalizingInv, DrainInv, EmitInv, QueueInv, MicInv, ServerInv,
     Calm, CalmCtx, CancelInv, EndLatched, Draining, Winding, TurnOpenInQueue, Multi,
     TypeInv, TypeOK, SessionState, OutTask, DispTask, FinTask, Markers, AbortCancelEnds, CancelStream, outVars, world
<1>1. ~state.active /\ out.pc \notin {"preparing", "finalizing"} /\ UNCHANGED <<state, out, disp, sends, fin, mic>>
  OBVIOUS
<1>. QED
  BY <1>1

LEMMA OutQueues ==
    ASSUME SendInv, SendAs("out"), UNCHANGED disp,
           out.pc \notin {"fired", "emitting"}, out'.pc \in {"fired", "emitting"}
    PROVE  SendInv'
  BY SendFacts DEF SendInv, SendAs

LEMMA OutSent ==
    ASSUME SendInv, sends # <<>>, Head(sends) = "out", UNCHANGED disp, out.pc \in {"fired", "emitting"},
           \/ sends' = Tail(sends) /\ out'.pc \notin {"fired", "emitting"}
           \/ sends' = Append(Tail(sends), "out") /\ out'.pc \in {"fired", "emitting"}
    PROVE  /\ SendInv' /\ sends # <<"disp", "out">>
           /\ out'.pc \in {"fired", "emitting"} /\ disp.pc \in {"announce", "queue", "notify", "refused", "jammed"}
                => sends' = <<"disp", "out">>
  BY SendFacts DEF SendInv
LEMMA FinalSentCalm ==
    ASSUME CalmCtx, FinalSent
    PROVE  CalmInv'
<1>1. /\ UNCHANGED <<deployment, mic, disp, fin, jobs, mgr>> /\ out.pc = "emitting"
      /\ sends # <<>> /\ Head(sends) = "out" /\ sends' = Tail(sends)
  BY DEF FinalSent, Sent, asrVars, world
<1>2. \/ /\ state.pending # <<>> /\ state' = [state EXCEPT !.draining = TRUE]
         /\ out' = [out EXCEPT !.pc = "reopening", !.turn = Head(state.pending)]
      \/ state.pending = <<>> /\ UNCHANGED state /\ out' = [out EXCEPT !.pc = "loop"]
  BY DEF FinalSent, LoopOrReturn, OutGoes, CalmCtx, Calm, Multi
<1>3. SendInv' /\ sends # <<"disp", "out">>
  <2>1. out'.pc \in {"loop", "reopening"}
    BY <1>2 DEF CalmCtx, TypeInv, TypeOK, OutTask
  <2>. QED
    BY <1>1, <2>1, OutSent DEF CalmCtx, CalmInv
<1>6. state.pending # <<>> =>
      /\ out'.pc = "reopening" /\ out'.turn = Head(state.pending) /\ out'.gen = out.gen /\ ~out'.end
      /\ state'.draining /\ state'.pending = state.pending /\ state'.active = state.active
      /\ state'.gen = state.gen /\ state'.endpoint = state.endpoint /\ state'.finalizing = state.finalizing
  BY ZenonT(60), <1>2 DEF CalmCtx, CalmInv, OutInv, TypeInv, TypeOK, OutTask, SessionState
<1>. USE DEF CalmInv, SendInv, OutInv, EndInv, ActiveInv, DispInv, FiredInv, PreparingInv, FinalizingInv, DrainInv, EmitInv, QueueInv, MicInv, ServerInv,
     Calm, CalmCtx, CancelInv, EndLatched, Draining, Winding, TurnOpenInQueue, Multi,
     TypeInv, TypeOK, SessionState, OutTask, DispTask, FinTask, Markers, world
<1>4. CASE state.pending # <<>>
  <2>2. ~state.active /\ ~EndLatched /\ fin.st = "none" /\ state.finalizing = 0
        /\ disp.pc \notin {"announce", "opening", "feeding", "refused", "join"}
    BY <1>1, <1>4
  <2>3. OutInv' /\ EndInv' /\ ActiveInv' /\ DispInv' /\ FiredInv' /\ PreparingInv' /\ FinalizingInv'
    BY SMTT(30), <1>1, <1>4, <1>6, <2>2
  <2>4. DrainInv' /\ EmitInv' /\ QueueInv' /\ MicInv' /\ ServerInv'
    BY SMTT(30), <1>1, <1>4, <1>6, <2>2
  <2>. QED
    BY <1>3, <2>3, <2>4
<1>5. CASE state.pending = <<>>
  <2>1. out'.pc = "loop" /\ ~out'.end /\ UNCHANGED state
    BY SMTT(30), <1>2, <1>5
  <2>2. fin.st = "none" /\ state.finalizing = 0 /\ ~state.draining
    BY <1>1
  <2>3. OutInv' /\ EndInv' /\ ActiveInv' /\ DispInv' /\ FiredInv' /\ PreparingInv' /\ FinalizingInv'
    BY <1>1, <2>1, <2>2
  <2>4. DrainInv' /\ EmitInv' /\ QueueInv' /\ MicInv' /\ ServerInv'
    BY <1>1, <1>3, <1>5, <2>1
  <2>. QED
    BY <1>3, <2>3, <2>4
<1>. QED
  BY <1>4, <1>5

LEMMA PrepareAwaitedCalm ==
    ASSUME CalmCtx, PrepareAwaited
    PROVE  CalmInv'
<1>. USE DEF CalmInv, SendInv, OutInv, EndInv, ActiveInv, DispInv, FiredInv, PreparingInv, FinalizingInv, DrainInv, EmitInv, QueueInv, MicInv, ServerInv,
     Calm, CalmCtx, CancelInv, EndLatched, Draining, Winding, TurnOpenInQueue, Multi,
     TypeInv, TypeOK, SessionState, OutTask, DispTask, FinTask, Markers, Answered, world
<1>1. UNCHANGED <<deployment, mic, disp, jobs, sends>> /\ out.pc = "preparing" /\ jobs.prep # out.gen
  BY DEF PrepareAwaited
<1>2. CASE state.active /\ state.gen = out.gen
  <2>1. /\ state' = [state EXCEPT !.finalizing = out.gen] /\ out' = [out EXCEPT !.pc = "finalizing"]
        /\ fin' = [st |-> "running", gen |-> mgr.gen, ok |-> FALSE] /\ mgr' = [mgr EXCEPT !.st = "FINALIZING"]
    BY <1>2 DEF PrepareAwaited, OutGoes
  <2>. QED
    BY <1>1, <1>2, <2>1
<1>3. CASE ~(state.active /\ state.gen = out.gen)
  <2>1. ~state.active /\ ~EndLatched /\ Winding
    BY <1>1, <1>3
  <2>2. /\ out' = [out EXCEPT !.pc = "loop"] /\ UNCHANGED <<fin, mgr>>
        /\ state' = state \/ state' = [state EXCEPT !.endpoint = NoEndpoint]
    BY <1>3 DEF PrepareAwaited, OutGoes
  <2>3. CASE UNCHANGED state
    BY <1>1, <2>1, <2>2, <2>3
  <2>4. CASE state' = [state EXCEPT !.endpoint = NoEndpoint]
    <3>1. state'.endpoint.by = "none"
      BY <2>4 DEF NoEndpoint
    <3>. QED
      BY <1>1, <2>1, <2>2, <2>4, <3>1
  <2>. QED
    BY <2>2, <2>3, <2>4
<1>. QED
  BY <1>2, <1>3

LEMMA FinalizeCalm ==
    ASSUME CalmCtx, FinalizeOrEmpty(state), UNCHANGED <<deployment, mic, disp, jobs>>,
           out.pc \in {"loop", "polled"} => EndLatched /\ UNCHANGED history,
           out.pc \in {"loop", "polled"} \/ (out.pc = "fired" /\ sends # <<>> /\ Head(sends) = "out")
    PROVE  CalmInv'
<1>. USE DEF CalmInv, SendInv, OutInv, EndInv, ActiveInv, DispInv, FiredInv, PreparingInv, FinalizingInv, DrainInv, EmitInv, QueueInv, MicInv, ServerInv,
     Calm, CalmCtx, CancelInv, EndLatched, Draining, Winding, TurnOpenInQueue, Multi,
     TypeInv, TypeOK, SessionState, OutTask, DispTask, FinTask, Markers
<1>1. UNCHANGED <<deployment, mic, disp, jobs>>
  OBVIOUS
<1>2. CASE ~state.active
  <2>1. /\ out.pc = "fired" /\ sends' = Append(Tail(sends), "out") /\ UNCHANGED <<state, fin, mgr>>
        /\ out' = [out EXCEPT !.pc = "emitting", !.gen = 0, !.by = Reason, !.end = FALSE]
    BY <1>2 DEF FinalizeOrEmpty
  <2>2. SendInv' /\ ServerInv' /\ EmitInv'
    <3>1. out'.pc = "emitting"
      BY <2>1
    <3>2. /\ SendInv' /\ sends # <<"disp", "out">>
          /\ disp.pc = "queue" => sends' = <<"disp", "out">>
      BY <2>1, <3>1, OutSent
    <3>. QED
      BY <1>1, <1>2, <2>1, <3>1, <3>2
  <2>3. OutInv' /\ EndInv' /\ ActiveInv' /\ DispInv' /\ FiredInv' /\ PreparingInv' /\ FinalizingInv'
        /\ DrainInv' /\ QueueInv' /\ MicInv'
    BY <1>1, <1>2, <2>1
  <2>. QED
    BY <2>2, <2>3 DEF CalmInv
<1>3. CASE state.active /\ jobs.prep = state.gen
  <2>1. /\ EndLatched /\ sends' = (IF out.pc = "fired" THEN Tail(sends) ELSE sends) /\ UNCHANGED <<state, fin, mgr>>
        /\ out' = [out EXCEPT !.pc = "preparing", !.gen = state.gen, !.by = Reason, !.end = FALSE]
    BY <1>3 DEF FinalizeOrEmpty
  <2>2. SendInv' /\ ServerInv' /\ EmitInv'
    <3>1. out'.pc = "preparing" /\ EndLatched'
      BY <2>1
    <3>2. SendInv'
      BY <1>1, <2>1, <3>1, OutSent
    <3>. QED
      BY <3>1, <3>2
  <2>3. OutInv' /\ EndInv' /\ ActiveInv' /\ DispInv' /\ FiredInv' /\ PreparingInv' /\ FinalizingInv'
        /\ DrainInv' /\ QueueInv' /\ MicInv'
    BY <1>1, <1>3, <2>1
  <2>. QED
    BY <2>2, <2>3 DEF CalmInv
<1>4. CASE state.active /\ jobs.prep # state.gen
  <2>1. /\ EndLatched /\ sends' = (IF out.pc = "fired" THEN Tail(sends) ELSE sends)
        /\ out' = [out EXCEPT !.pc = "finalizing", !.gen = state.gen, !.by = Reason, !.end = FALSE]
        /\ state' = [state EXCEPT !.finalizing = state.gen]
        /\ fin' = [st |-> "running", gen |-> mgr.gen, ok |-> FALSE] /\ mgr' = [mgr EXCEPT !.st = "FINALIZING"]
    BY <1>4 DEF FinalizeOrEmpty
  <2>2. SendInv' /\ ServerInv' /\ EmitInv'
    <3>1. out'.pc = "finalizing"
      BY <2>1
    <3>2. SendInv'
      BY <1>1, <2>1, <3>1, OutSent
    <3>. QED
      BY <3>1, <3>2
  <2>3. OutInv' /\ EndInv' /\ ActiveInv' /\ DispInv' /\ FiredInv' /\ PreparingInv' /\ FinalizingInv'
        /\ DrainInv' /\ QueueInv' /\ MicInv'
    BY <1>1, <1>4, <2>1
  <2>. QED
    BY <2>2, <2>3 DEF CalmInv
<1>. QED
  BY <1>2, <1>3, <1>4

LEMMA EndpointSentCalm ==
    ASSUME CalmCtx, EndpointSent
    PROVE  CalmInv'
  BY FinalizeCalm DEF EndpointSent, world

LEMMA JudgeCalm ==
    ASSUME CalmCtx, Judge(FALSE), out.pc \in {"loop", "polled"}
    PROVE  CalmInv'
<1>1. ~StaleEndpoint /\ LiveEndpoint(state) = state /\ Reason = state.endpoint.by
  BY DEF CalmCtx, CalmInv, EndInv, EndLatched, StaleEndpoint, LiveEndpoint, Reason
<1>2. [state EXCEPT !.closed = @ \/ ~Multi] = state
  BY DEF CalmCtx, Calm, TypeInv, TypeOK, SessionState
<1>3. UNCHANGED <<deployment, mic, disp, jobs>>
  BY DEF Judge, world
<1>4. \/ ~EndLatched /\ UNCHANGED <<state, sends, fin, mgr>> /\ OutGoes(LoopOrReturn(state))
      \/ EndLatched /\ FinalizeOrEmpty(state) /\ UNCHANGED history
      \/ /\ EndLatched /\ SendAs("out") /\ UNCHANGED <<state, fin, mgr>>
         /\ out' = [out EXCEPT !.pc = "fired", !.by = Reason, !.end = FALSE]
  BY <1>1, <1>2 DEF Judge, EndLatched
<1>5. CASE ~EndLatched /\ UNCHANGED <<state, sends, fin, mgr>> /\ OutGoes(LoopOrReturn(state))
  <2>1. out' = [out EXCEPT !.pc = "loop"]
    BY <1>5 DEF OutGoes, LoopOrReturn, CalmCtx, Calm
  <2>. QED
    BY <1>3, <1>5, <2>1
    DEF CalmInv, SendInv, OutInv, EndInv, ActiveInv, DispInv, FiredInv, PreparingInv, FinalizingInv, DrainInv, EmitInv, QueueInv, MicInv, ServerInv,
     Calm, CalmCtx, CancelInv, EndLatched, Draining, Winding, TurnOpenInQueue, Multi,
     TypeInv, TypeOK, SessionState, OutTask, DispTask, FinTask, Markers
<1>6. CASE EndLatched /\ FinalizeOrEmpty(state) /\ UNCHANGED history
  BY <1>3, <1>6, FinalizeCalm
<1>7. CASE /\ EndLatched /\ SendAs("out") /\ UNCHANGED <<state, fin, mgr>>
           /\ out' = [out EXCEPT !.pc = "fired", !.by = Reason, !.end = FALSE]
  <2>1. SendInv'
    <3>1. out'.pc = "fired"
      BY <1>7 DEF CalmCtx, TypeInv, TypeOK, OutTask
    <3>. QED
      BY <1>3, <1>7, <3>1, OutQueues DEF CalmCtx, CalmInv
  <2>2. OutInv' /\ EndInv' /\ ActiveInv' /\ DispInv' /\ FiredInv' /\ PreparingInv' /\ FinalizingInv'
      /\ DrainInv' /\ EmitInv' /\ QueueInv' /\ MicInv'
        /\ ServerInv'
    BY <1>3, <1>7
    DEF CalmInv, SendInv, OutInv, EndInv, ActiveInv, DispInv, FiredInv, PreparingInv, FinalizingInv, DrainInv, EmitInv, QueueInv, MicInv, ServerInv,
     Calm, CalmCtx, CancelInv, EndLatched, Draining, Winding, TurnOpenInQueue, Multi,
     TypeInv, TypeOK, SessionState, OutTask, DispTask, FinTask, Markers
  <2>. QED
    BY <2>1, <2>2 DEF CalmInv
<1>. QED
  BY <1>4, <1>5, <1>6, <1>7

LEMMA JudgedCalm ==
    ASSUME CalmCtx, JudgeIdle \/ JudgePolled
    PROVE  CalmInv'
<1>1. ~out.end /\ out.end \in BOOLEAN
  BY DEF CalmCtx, CalmInv, OutInv, TypeInv, TypeOK, OutTask
<1>2. JudgeIdle \/ JudgePolled => Judge(FALSE) /\ out.pc \in {"loop", "polled"}
  BY <1>1 DEF JudgeIdle, JudgePolled
<1>. QED
  BY <1>2, JudgeCalm

LEMMA DispQueues ==
    ASSUME SendInv, SendAs("disp"), UNCHANGED out,
           disp.pc \notin {"announce", "queue", "notify", "refused", "jammed"},
           disp'.pc \in {"announce", "queue", "notify", "refused", "jammed"}
    PROVE  /\ SendInv'
           /\ out.pc \in {"fired", "emitting"} => sends' = <<"out", "disp">>
           /\ out.pc \notin {"fired", "emitting"} => sends' = <<"disp">>
  BY SendFacts DEF SendInv, SendAs

LEMMA DispSent ==
    ASSUME SendInv, Sent("disp"), UNCHANGED out,
           disp.pc \in {"announce", "queue", "notify", "refused", "jammed"},
           disp'.pc \notin {"announce", "queue", "notify", "refused", "jammed"}
    PROVE  /\ SendInv' /\ sends # <<"out", "disp">>
           /\ out.pc \in {"fired", "emitting"} => sends = <<"disp", "out">>
  BY SendFacts DEF SendInv, Sent

(* With an empty queue, and nothing in the way. *)
LEMMA FreeCalm ==
    ASSUME CalmCtx, ~PendingBlocked, ~jobs.cancel, disp.pc \in {"receive", "join", "announce"}
    PROVE  /\ ~EndLatched /\ state.pending = <<>> /\ ~Draining
           /\ out.pc \notin {"preparing", "finalizing"}
           /\ out.pc = "fired" => ~state.active
  BY DEF CalmCtx, Calm, FrontendVad, CalmInv, OutInv, PreparingInv, FinalizingInv, FiredInv, Winding,
         PendingBlocked, EndLatched, Draining

LEMMA SegmentCases ==
    ASSUME CalmCtx, NEW seg \in Segments, HandleSegment(seg)
    PROVE  /\ UNCHANGED jobs
           /\ \/ /\ PendingBlocked /\ seg.kind = "start" /\ disp' = [pc |-> "queue", seg |-> seg]
                 /\ SendAs("disp") /\ UNCHANGED state
              \/ /\ TurnOpenInQueue
                 /\ state' = [state EXCEPT !.pending[Len(state.pending)].ended = seg.kind = "end"]
                 /\ IF seg.kind = "end"
                    THEN disp' = [pc |-> "notify", seg |-> seg] /\ SendAs("disp")
                    ELSE disp' = [pc |-> "receive", seg |-> seg] /\ UNCHANGED sends
              \/ /\ ~TurnOpenInQueue /\ UNCHANGED state
                 /\ \/ disp' = [pc |-> "notify", seg |-> seg] /\ SendAs("disp")
                    \/ disp' = [pc |-> "receive", seg |-> seg] /\ UNCHANGED sends
              \/ /\ ~PendingBlocked /\ UNCHANGED state
                 /\ disp' = [pc |-> "announce", seg |-> seg] /\ SendAs("disp")
              \/ /\ ~PendingBlocked /\ UNCHANGED <<state, sends>> /\ state.active
                 /\ disp' = [pc |-> "feeding", seg |-> seg]
<1>1. /\ ~(state.closed \/ (~Multi /\ state.once /\ ~state.active)) /\ FrontendVad /\ ~BackendEndpoint
      /\ ~OpensLazily /\ (Event(seg) = "start" <=> seg.kind = "start") /\ (Event(seg) = "end" <=> seg.kind = "end")
  BY DEF CalmCtx, Calm, FrontendVad, BackendEndpoint, OpensLazily, Event
<1>2. ~RejectPending
  BY DEF CalmCtx, Calm, TypeInv, TypeOK, SessionState, RejectPending, Cleared
<1>3. ~(LatchEnd /\ ~state.active)
  <2>1. LatchEnd => history' = [answered |-> FALSE, astray |-> history.astray \/ ~state.active]
    BY <1>1 DEF LatchEnd, Latched
  <2>2. ~state.active => (history.astray \/ ~state.active) = TRUE
    OBVIOUS
  <2>3. LatchEnd /\ ~state.active => history' = [answered |-> FALSE, astray |-> TRUE]
    BY <2>1, <2>2
  <2>4. ~history'.astray
    BY DEF CalmCtx, Calm
  <2>. QED
    BY <2>3, <2>4
<1>4. CASE PendingBlocked
  BY <1>1, <1>2, <1>4 DEF HandleSegment, QueueSegment, FeedSegment
<1>5. CASE ~PendingBlocked
  <2>1. ~TurnOpenInQueue
    BY <1>1, <1>5 DEF PendingBlocked, TurnOpenInQueue
  <2>. QED
    BY <1>1, <1>3, <1>5, <2>1 DEF HandleSegment, QueueSegment, FeedSegment
<1>. QED
  BY <1>4, <1>5

LEMMA SegmentCalm ==
    ASSUME CalmCtx, NEW seg \in Segments, HandleSegment(seg), ~jobs.cancel,
           disp.pc \in {"receive", "join"}, UNCHANGED <<deployment, out, fin, mgr>>,
           mic'.talking <=> seg.kind \in {"start", "speech"},
           TurnOpenInQueue => seg.kind \in {"speech", "end"}
    PROVE  CalmInv'
<1>0. UNCHANGED <<deployment, out, fin, mgr, jobs>> /\ (TurnOpenInQueue => seg.kind \in {"speech", "end"})
      /\ (mic'.talking <=> seg.kind \in {"start", "speech"}) /\ disp.pc \in {"receive", "join"} /\ ~jobs.cancel
  BY SegmentCases
<1>1. CASE /\ PendingBlocked /\ seg.kind = "start" /\ disp' = [pc |-> "queue", seg |-> seg]
           /\ SendAs("disp") /\ UNCHANGED state
  <2>1. SendInv' /\ (out.pc \in {"fired", "emitting"} => sends' = <<"out", "disp">>)
    BY <1>0, <1>1, DispQueues DEF CalmCtx, CalmInv
  <2>2. <<"out", "disp">> # <<"disp", "out">>
    OBVIOUS
  <2>3. OutInv' /\ EndInv' /\ ActiveInv' /\ DispInv' /\ FiredInv' /\ PreparingInv' /\ FinalizingInv'
      /\ DrainInv' /\ EmitInv' /\ QueueInv' /\ MicInv'
    BY <1>0, <1>1, <2>1, <2>2
    DEF CalmInv, SendInv, OutInv, EndInv, ActiveInv, DispInv, FiredInv, PreparingInv, FinalizingInv, DrainInv, EmitInv, QueueInv, MicInv, ServerInv,
     Calm, CalmCtx, CancelInv, EndLatched, Draining, Winding, TurnOpenInQueue, Multi,
     TypeInv, TypeOK, SessionState, OutTask, DispTask, FinTask, Markers
  <2>4. ServerInv'
    BY <1>0, <1>1, <2>1
    DEF CalmInv, SendInv, OutInv, EndInv, ActiveInv, DispInv, FiredInv, PreparingInv, FinalizingInv, DrainInv, EmitInv, QueueInv, MicInv, ServerInv,
     Calm, CalmCtx, CancelInv, EndLatched, Draining, Winding, TurnOpenInQueue, Multi,
     TypeInv, TypeOK, SessionState, OutTask, DispTask, FinTask, Markers, PendingBlocked
  <2>. QED
    BY <2>1, <2>3, <2>4 DEF CalmInv
<1>2. CASE /\ TurnOpenInQueue
           /\ state' = [state EXCEPT !.pending[Len(state.pending)].ended = seg.kind = "end"]
           /\ IF seg.kind = "end"
              THEN disp' = [pc |-> "notify", seg |-> seg] /\ SendAs("disp")
              ELSE disp' = [pc |-> "receive", seg |-> seg] /\ UNCHANGED sends
  <2>. DEFINE n == Len(state.pending)
  <2>1. /\ n \in Nat /\ n > 0 /\ Len(state'.pending) = n /\ state'.pending \in Seq(Turns)
        /\ \A i \in 1 .. n : i # n => state'.pending[i] = state.pending[i]
        /\ state'.pending[n].utt = state.pending[n].utt /\ (state'.pending[n].ended <=> seg.kind = "end")
    <3>1. state \in SessionState /\ state.pending # <<>>
      BY <1>2 DEF CalmCtx, TypeInv, TypeOK, TurnOpenInQueue
    <3>2. n \in Nat /\ n > 0 /\ state.pending \in Seq(Turns) /\ state.pending[n] \in Turns
      BY <3>1, EmptySeq, ElementOfSeq DEF SessionState
    <3>. DEFINE b == seg.kind = "end"
                turn == [state.pending[n] EXCEPT !.ended = b]
    <3>3. turn \in Turns /\ turn.utt = state.pending[n].utt /\ (turn.ended <=> b)
      BY <3>2 DEF Turns
    <3>4. state'.pending = [state.pending EXCEPT ![n] = turn]
      BY <1>2, <3>1 DEF SessionState
    <3>. HIDE DEF turn
    <3>5. [state.pending EXCEPT ![n] = turn] \in Seq(Turns) /\ Len([state.pending EXCEPT ![n] = turn]) = n
      BY <3>2, <3>3, ExceptSeq
    <3>. QED
      BY <3>2, <3>3, <3>4, <3>5
  <2>. HIDE DEF n
  <2>2. /\ state'.active = state.active /\ state'.gen = state.gen /\ state'.endpoint = state.endpoint
        /\ state'.finalizing = state.finalizing /\ state'.draining = state.draining
        /\ state.pending # <<>>
    BY <1>2 DEF CalmCtx, TypeInv, TypeOK, SessionState, TurnOpenInQueue
  <2>3. state'.pending # <<>> /\ Head(state'.pending).utt = Head(state.pending).utt
    <3>1. Head(state.pending) = state.pending[1] /\ Head(state'.pending) = state'.pending[1] /\ state'.pending # <<>>
      BY <2>1, <2>2, EmptySeq DEF CalmCtx, TypeInv, TypeOK, SessionState, n
    <3>. QED
      BY <2>1, <3>1
  <2>4. disp'.pc \in {"receive", "notify"} /\ (disp'.pc = "notify" => seg.kind = "end")
    BY <1>2
  <2>5. SendInv'
    BY <1>0, <1>2, DispQueues
    DEF CalmCtx, CalmInv, SendInv
  <2>6. QueueInv'
    <3>1. \A i \in 1 .. n - 1 : state'.pending[i].ended
      BY <2>1 DEF CalmCtx, CalmInv, QueueInv, n
    <3>2. TurnOpenInQueue' => mic'.talking /\ disp'.pc # "queue"
      BY <1>0, <1>2, <2>1, <2>4 DEF TurnOpenInQueue
    <3>. QED
      BY <2>1, <3>1, <3>2 DEF QueueInv
  <2>7. OutInv' /\ EndInv' /\ ActiveInv' /\ DispInv' /\ FiredInv' /\ PreparingInv' /\ FinalizingInv'
    BY SMTT(30), <1>0, <2>2, <2>4
    DEF CalmInv, SendInv, OutInv, EndInv, ActiveInv, DispInv, FiredInv, PreparingInv, FinalizingInv, DrainInv, EmitInv, QueueInv, MicInv, ServerInv,
     Calm, CalmCtx, CancelInv, EndLatched, Draining, Winding, TurnOpenInQueue, Multi,
     TypeInv, TypeOK, SessionState, OutTask, DispTask, FinTask, Markers
  <2>8. DrainInv' /\ EmitInv' /\ MicInv' /\ ServerInv'
    BY <1>0, <2>2, <2>3, <2>4
    DEF CalmInv, SendInv, OutInv, EndInv, ActiveInv, DispInv, FiredInv, PreparingInv, FinalizingInv, DrainInv, EmitInv, QueueInv, MicInv, ServerInv,
     Calm, CalmCtx, CancelInv, EndLatched, Draining, Winding, TurnOpenInQueue, Multi,
     TypeInv, TypeOK, SessionState, OutTask, DispTask, FinTask, Markers
  <2>. QED
    BY <2>5, <2>6, <2>7, <2>8 DEF CalmInv
<1>3. CASE /\ ~TurnOpenInQueue /\ UNCHANGED state
           /\ \/ disp' = [pc |-> "notify", seg |-> seg] /\ SendAs("disp")
              \/ disp' = [pc |-> "receive", seg |-> seg] /\ UNCHANGED sends
  <2>1. SendInv'
    BY <1>0, <1>3, DispQueues DEF CalmCtx, CalmInv, SendInv
  <2>2. disp'.pc \in {"receive", "notify"}
    BY <1>3
  <2>3. UNCHANGED state /\ ~TurnOpenInQueue
    BY <1>3
  <2>4. OutInv' /\ EndInv' /\ ActiveInv' /\ DispInv' /\ FiredInv' /\ PreparingInv' /\ FinalizingInv'
      /\ DrainInv' /\ EmitInv' /\ QueueInv' /\ MicInv'
        /\ ServerInv'
    BY SMTT(30), <1>0, <2>2, <2>3
    DEF CalmInv, SendInv, OutInv, EndInv, ActiveInv, DispInv, FiredInv, PreparingInv, FinalizingInv, DrainInv, EmitInv, QueueInv, MicInv, ServerInv,
     Calm, CalmCtx, CancelInv, EndLatched, Draining, Winding, TurnOpenInQueue, Multi,
     TypeInv, TypeOK, SessionState, OutTask, DispTask, FinTask, Markers
  <2>. QED
    BY <2>1, <2>4 DEF CalmInv
<1>4. CASE /\ ~PendingBlocked /\ UNCHANGED state
           /\ disp' = [pc |-> "announce", seg |-> seg] /\ SendAs("disp")
  <2>1. SendInv' /\ (out.pc \in {"fired", "emitting"} => sends' = <<"out", "disp">>)
    BY <1>0, <1>4, DispQueues DEF CalmCtx, CalmInv
  <2>2. OutInv' /\ EndInv' /\ ActiveInv' /\ DispInv' /\ FiredInv' /\ PreparingInv' /\ FinalizingInv'
      /\ DrainInv' /\ EmitInv' /\ QueueInv' /\ MicInv'
        /\ ServerInv'
    BY <1>0, <1>4, <2>1, FreeCalm
    DEF CalmInv, SendInv, OutInv, EndInv, ActiveInv, DispInv, FiredInv, PreparingInv, FinalizingInv, DrainInv, EmitInv, QueueInv, MicInv, ServerInv,
     Calm, CalmCtx, CancelInv, EndLatched, Draining, Winding, TurnOpenInQueue, Multi,
     TypeInv, TypeOK, SessionState, OutTask, DispTask, FinTask, Markers
  <2>. QED
    BY <2>1, <2>2 DEF CalmInv
<1>5. CASE /\ ~PendingBlocked /\ UNCHANGED <<state, sends>> /\ state.active
           /\ disp' = [pc |-> "feeding", seg |-> seg]
  <2>1. SendInv'
    BY <1>0, <1>5 DEF CalmCtx, CalmInv, SendInv
  <2>2. OutInv' /\ EndInv' /\ ActiveInv' /\ DispInv' /\ FiredInv' /\ PreparingInv' /\ FinalizingInv'
      /\ DrainInv' /\ EmitInv' /\ QueueInv' /\ MicInv'
        /\ ServerInv'
    BY <1>0, <1>5, FreeCalm
    DEF CalmInv, SendInv, OutInv, EndInv, ActiveInv, DispInv, FiredInv, PreparingInv, FinalizingInv, DrainInv, EmitInv, QueueInv, MicInv, ServerInv,
     Calm, CalmCtx, CancelInv, EndLatched, Draining, Winding, TurnOpenInQueue, Multi,
     TypeInv, TypeOK, SessionState, OutTask, DispTask, FinTask, Markers
  <2>. QED
    BY <2>1, <2>2 DEF CalmInv
<1>. QED
  BY <1>1, <1>2, <1>3, <1>4, <1>5, SegmentCases

LEMMA AudioCalm ==
    ASSUME CalmCtx, NEW seg \in Segments, ReceiveAudio(seg)
    PROVE  CalmInv'
<1>1. /\ UNCHANGED <<deployment, out, fin, mgr>> /\ disp.pc = "receive"
      /\ mic'.talking <=> seg.kind \in {"start", "speech"}
      /\ mic.talking => seg.kind \in {"speech", "end"}
  <2>1. UNCHANGED <<deployment, out, fin, mgr>> /\ disp.pc = "receive" /\ Spoken(seg)
    BY DEF ReceiveAudio, outVars, asrVars
  <2>2. /\ mic'.talking <=> seg.kind \in {"start", "speech"}
        /\ mic.talking => seg.kind \in {"speech", "end"}
    <3>1. mic \in [utt : 0 .. MaxUtterances, talking : BOOLEAN]
      BY DEF CalmCtx, TypeInv, TypeOK
    <3>2. CASE seg.kind = "start" /\ ~mic.talking /\ mic' = [utt |-> seg.utt, talking |-> TRUE]
      BY <3>2
    <3>3. CASE seg.kind = "speech" /\ mic.talking /\ mic' = [mic EXCEPT !.talking = TRUE]
      BY <3>1, <3>3
    <3>4. CASE seg.kind = "end" /\ mic.talking /\ mic' = [mic EXCEPT !.talking = FALSE]
      BY <3>1, <3>4
    <3>5. CASE seg.kind = "silence" /\ ~mic.talking /\ UNCHANGED mic
      BY <3>5
    <3>6. \/ seg.kind = "start" /\ ~mic.talking /\ mic' = [utt |-> seg.utt, talking |-> TRUE]
          \/ seg.kind \in {"speech", "end"} /\ mic.talking /\ mic' = [mic EXCEPT !.talking = seg.kind = "speech"]
          \/ seg.kind = "silence" /\ ~mic.talking /\ UNCHANGED mic
      BY <2>1 DEF Spoken, NoSegment
    <3>7. seg.kind \in {"speech", "end"} =>
            (seg.kind = "speech") = TRUE \/ (seg.kind = "end" /\ (seg.kind = "speech") = FALSE)
      OBVIOUS
    <3>. QED
      BY <3>2, <3>3, <3>4, <3>5, <3>6, <3>7
  <2>. QED
    BY <2>1, <2>2
<1>2. TurnOpenInQueue => mic.talking
  BY DEF CalmCtx, CalmInv, QueueInv
<1>3. CASE jobs.cancel
  <2>1. disp' = [pc |-> "join", seg |-> seg] /\ UNCHANGED <<state, jobs, sends, history, budget>>
    BY <1>3 DEF ReceiveAudio, MustJoin
  <2>. QED
    BY <1>1, <1>2, <1>3, <2>1
    DEF CalmInv, SendInv, OutInv, EndInv, ActiveInv, DispInv, FiredInv, PreparingInv, FinalizingInv, DrainInv, EmitInv, QueueInv, MicInv, ServerInv,
     Calm, CalmCtx, CancelInv, EndLatched, Draining, Winding, TurnOpenInQueue, Multi,
     TypeInv, TypeOK, SessionState, OutTask, DispTask, FinTask, Markers
<1>4. CASE ~jobs.cancel
  <2>1. HandleSegment(seg)
    BY <1>4 DEF ReceiveAudio, MustJoin
  <2>. QED
    BY <1>1, <1>2, <1>4, <2>1, SegmentCalm
<1>. QED
  BY <1>3, <1>4

LEMMA JoinedCalm ==
    ASSUME CalmCtx, Joined
    PROVE  CalmInv'
<1>1. disp.seg \in Segments /\ disp.pc = "join" /\ ~jobs.cancel /\ HandleSegment(disp.seg)
  BY DEF Joined, CalmCtx, TypeInv, TypeOK, DispTask
<1>2. UNCHANGED <<deployment, mic, out, fin, mgr>>
  BY DEF Joined, world, outVars, asrVars
<1>3. ~TurnOpenInQueue /\ (mic.talking <=> disp.seg.kind \in {"start", "speech"})
  BY <1>1 DEF CalmCtx, CalmInv, DispInv, MicInv, TurnOpenInQueue
<1>. QED
  BY <1>1, <1>2, <1>3, SegmentCalm

LEMMA QueueTurnCalm ==
    ASSUME CalmCtx, QueueTurn
    PROVE  CalmInv'
<1>. DEFINE turn == [utt |-> disp.seg.utt, ended |-> FALSE]
            n == Len(state.pending)
<1>1. /\ Sent("disp") /\ state' = [state EXCEPT !.pending = Append(@, turn)] /\ disp.pc = "queue"
      /\ disp' = [disp EXCEPT !.pc = "receive"] /\ UNCHANGED <<deployment, mic, jobs, out, fin, mgr>>
  BY DEF QueueTurn, CalmCtx, Calm, TypeInv, TypeOK, SessionState, Cleared, world, outVars, asrVars
<1>2. turn \in Turns /\ state.pending \in Seq(Turns) /\ state \in SessionState
  BY DEF CalmCtx, TypeInv, TypeOK, DispTask, SessionState, Segments, Turns
<1>3. state'.pending = Append(state.pending, turn)
  BY <1>1, <1>2 DEF SessionState
<1>4. /\ n \in Nat /\ Len(state'.pending) = n + 1 /\ state'.pending # <<>>
      /\ \A i \in 1 .. n : state'.pending[i] = state.pending[i]
      /\ state'.pending[n + 1] = turn
  BY <1>2, <1>3, AppendProperties, LenProperties
<1>5. state.pending # <<>> => Head(state'.pending) = Head(state.pending)
  BY <1>2, <1>3, AppendProperties
<1>. HIDE DEF n
<1>6. /\ state'.active = state.active /\ state'.gen = state.gen /\ state'.endpoint = state.endpoint
      /\ state'.finalizing = state.finalizing /\ state'.draining = state.draining
      /\ disp'.pc = "receive" /\ mic.talking
  BY <1>1, <1>2 DEF CalmCtx, CalmInv, MicInv, SessionState, TypeInv, TypeOK, DispTask
<1>7. SendInv' /\ (out.pc = "emitting" => sends = <<"disp", "out">>)
  BY <1>1, <1>6, DispSent DEF CalmCtx, CalmInv
<1>8. QueueInv'
  <2>1. \A i \in 1 .. n : state.pending[i].ended
    <3>1. ~TurnOpenInQueue
      BY <1>1 DEF CalmCtx, CalmInv, QueueInv
    <3>2. n > 0 => state.pending[n].ended
      BY <3>1, <1>2, EmptySeq DEF TurnOpenInQueue, n
    <3>3. \A i \in 1 .. n - 1 : state.pending[i].ended
      BY DEF CalmCtx, CalmInv, QueueInv, n
    <3>. QED
      BY <1>4, <3>2, <3>3
  <2>. QED
    BY <1>1, <1>4, <1>6, <2>1 DEF QueueInv
<1>9. OutInv' /\ EndInv' /\ ActiveInv' /\ DispInv' /\ FiredInv' /\ PreparingInv' /\ FinalizingInv'
  BY <1>1, <1>6
  DEF CalmInv, SendInv, OutInv, EndInv, ActiveInv, DispInv, FiredInv, PreparingInv, FinalizingInv, DrainInv, EmitInv, QueueInv, MicInv, ServerInv,
     Calm, CalmCtx, CancelInv, EndLatched, Draining, Winding, TurnOpenInQueue, Multi,
     TypeInv, TypeOK, SessionState, OutTask, DispTask, FinTask, Markers
<1>10. DrainInv' /\ EmitInv'
  BY <1>1, <1>4, <1>5, <1>6, <1>7 DEF CalmCtx, CalmInv, DrainInv, EmitInv, Draining
<1>11. MicInv'
  BY <1>1, <1>6 DEF MicInv
<1>12. ServerInv'
  BY <1>1, <1>4, <1>6, <1>7 DEF CalmCtx, CalmInv, ServerInv, EndLatched
<1>. QED
  BY <1>7, <1>8, <1>9, <1>10, <1>11, <1>12 DEF CalmInv

LEMMA FeedTurnCalm ==
    ASSUME CalmCtx, FeedTurn
    PROVE  CalmInv'
<1>1. disp.pc = "feeding" /\ UNCHANGED <<deployment, mic, out, fin, mgr>>
  BY DEF FeedTurn, world, outVars
<1>2. CASE disp' = [disp EXCEPT !.pc = "receive"] /\ UNCHANGED <<state, jobs, sends, history>>
  <2>1. disp'.pc = "receive"
    BY <1>2 DEF CalmCtx, TypeInv, TypeOK, DispTask
  <2>. QED
    BY <1>1, <1>2, <2>1
    DEF CalmInv, SendInv, OutInv, EndInv, ActiveInv, DispInv, FiredInv, PreparingInv, FinalizingInv, DrainInv, EmitInv, QueueInv, MicInv, ServerInv,
     Calm, CalmCtx, CancelInv, EndLatched, Draining, Winding, TurnOpenInQueue, Multi,
     TypeInv, TypeOK, SessionState, OutTask, DispTask, FinTask, Markers
<1>3. CASE LatchEnd
  <2>1. /\ state' = [state EXCEPT !.endpoint = [by |-> "vad", gen |-> state.gen], !.closed = @ \/ ~Multi]
        /\ jobs' = Prepared(state) /\ Latched /\ SendAs("disp") /\ disp' = [disp EXCEPT !.pc = "notify"]
    BY <1>3 DEF LatchEnd, CalmCtx, Calm, BackendEndpoint
  <2>2. state.active
    <3>1. history'.astray = (history.astray \/ ~state.active)
      BY <2>1 DEF Latched
    <3>. QED
      BY <3>1 DEF CalmCtx, Calm
  <2>3. SendInv'
    <3>1. disp'.pc = "notify"
      BY <2>1 DEF CalmCtx, TypeInv, TypeOK, DispTask
    <3>. QED
      BY <1>1, <2>1, <3>1, DispQueues DEF CalmCtx, CalmInv
  <2>4. OutInv' /\ EndInv' /\ ActiveInv' /\ DispInv' /\ FiredInv' /\ PreparingInv' /\ FinalizingInv'
      /\ DrainInv' /\ EmitInv' /\ QueueInv' /\ MicInv'
        /\ ServerInv'
    BY <1>1, <2>1, <2>2
    DEF CalmInv, SendInv, OutInv, EndInv, ActiveInv, DispInv, FiredInv, PreparingInv, FinalizingInv, DrainInv, EmitInv, QueueInv, MicInv, ServerInv,
     Calm, CalmCtx, CancelInv, EndLatched, Draining, Winding, TurnOpenInQueue, Multi,
     TypeInv, TypeOK, SessionState, OutTask, DispTask, FinTask, Markers, Prepared
  <2>. QED
    BY <2>3, <2>4 DEF CalmInv
<1>. QED
  BY <1>2, <1>3 DEF FeedTurn

LEMMA RefeedTurnCalm ==
    ASSUME CalmCtx, RefeedTurn
    PROVE  CalmInv'
<1>. DEFINE latched == IF DetachedTurn.ended THEN [state EXCEPT !.endpoint = [by |-> "vad", gen |-> out.gen]]
                                             ELSE state
            s == [latched EXCEPT !.pending = Tail(@), !.draining = FALSE]
<1>1. /\ state.pending # <<>> /\ state.pending \in Seq(Turns) /\ state \in SessionState
      /\ DetachedTurn = Head(state.pending) /\ state.active /\ state.gen = out.gen /\ out.pc = "refeeding"
  BY DEF RefeedTurn, CalmCtx, CalmInv, DrainInv, Draining, DetachedTurn, TypeInv, TypeOK, SessionState
<1>2. /\ state' = s /\ out' = [out EXCEPT !.pc = LoopOrReturn(s), !.turn = NoTurn]
      /\ UNCHANGED <<deployment, mic, disp, fin, sends, mgr>>
      /\ jobs' = IF DetachedTurn.ended THEN Prepared(state) ELSE jobs
  BY <1>1 DEF RefeedTurn, world
<1>3. /\ s.pending = Tail(state.pending) /\ ~s.draining /\ s.active /\ s.gen = state.gen /\ ~s.closed
      /\ s.finalizing = state.finalizing
      /\ s.endpoint = IF Head(state.pending).ended THEN [by |-> "vad", gen |-> state.gen] ELSE state.endpoint
  BY <1>1 DEF SessionState, CalmCtx, Calm
<1>. HIDE DEF s
<1>4. /\ out'.pc = "loop" /\ out'.gen = out.gen /\ ~out'.end
  BY <1>2, <1>3 DEF LoopOrReturn, CalmCtx, CalmInv, OutInv, TypeInv, TypeOK, OutTask
<1>. DEFINE n == Len(state.pending)
<1>5. /\ n \in Nat /\ n > 0 /\ Len(s.pending) = n - 1
      /\ \A i \in 1 .. n - 1 : s.pending[i] = state.pending[i + 1]
      /\ Head(state.pending) = state.pending[1]
      /\ s.pending # <<>> => n > 1
  BY <1>1, <1>3, HeadTailProperties, EmptySeq
<1>6. s.pending # <<>> => Head(state.pending).ended
  BY <1>5 DEF CalmCtx, CalmInv, QueueInv
<1>7. QueueInv'
  <2>1. \A i \in 1 .. n - 1 : state.pending[i].ended
    BY DEF CalmCtx, CalmInv, QueueInv
  <2>2. s.pending # <<>> => s.pending[Len(s.pending)] = state.pending[n]
    BY <1>5
  <2>3. TurnOpenInQueue' => TurnOpenInQueue
    BY <1>1, <1>2, <2>2 DEF TurnOpenInQueue
  <2>4. TurnOpenInQueue => mic.talking /\ disp.pc # "queue"
    BY DEF CalmCtx, CalmInv, QueueInv
  <2>5. \A i \in 1 .. (n - 1) - 1 : s.pending[i].ended
    BY <1>5, <2>1
  <2>. QED
    BY <1>2, <1>5, <2>3, <2>4, <2>5 DEF QueueInv
<1>8. disp.pc = "queue" => Head(state.pending).ended
  <2>1. disp.pc = "queue" => ~TurnOpenInQueue
    BY DEF CalmCtx, CalmInv, QueueInv
  <2>2. n = 1 \/ n > 1
    <3>1. n \in Nat /\ n > 0
      BY <1>5
    <3>. HIDE DEF n
    <3>. QED
      BY <3>1
  <2>3. CASE n = 1
    BY <1>1, <1>5, <2>1, <2>3 DEF TurnOpenInQueue
  <2>4. CASE n > 1
    BY <1>5, <2>4 DEF CalmCtx, CalmInv, QueueInv
  <2>. QED
    BY <2>2, <2>3, <2>4
<1>. HIDE DEF n
<1>9. SendInv'
  BY <1>1, <1>2, <1>4 DEF CalmCtx, CalmInv, SendInv
<1>10. EndLatched' <=> Head(state.pending).ended \/ EndLatched
  BY <1>2, <1>3 DEF EndLatched
<1>11. OutInv' /\ EndInv' /\ ActiveInv' /\ DispInv' /\ FiredInv' /\ PreparingInv' /\ FinalizingInv'
  BY <1>1, <1>2, <1>3, <1>4, <1>10
  DEF CalmInv, SendInv, OutInv, EndInv, ActiveInv, DispInv, FiredInv, PreparingInv, FinalizingInv, DrainInv, EmitInv, QueueInv, MicInv, ServerInv,
     Calm, CalmCtx, CancelInv, EndLatched, Draining, Winding, TurnOpenInQueue, Multi,
     TypeInv, TypeOK, SessionState, OutTask, DispTask, FinTask, Markers
<1>12. DrainInv' /\ EmitInv' /\ MicInv' /\ ServerInv'
  BY <1>1, <1>2, <1>3, <1>4, <1>6, <1>8, <1>10
  DEF CalmInv, SendInv, OutInv, EndInv, ActiveInv, DispInv, FiredInv, PreparingInv, FinalizingInv, DrainInv, EmitInv, QueueInv, MicInv, ServerInv,
     Calm, CalmCtx, CancelInv, EndLatched, Draining, Winding, TurnOpenInQueue, Multi,
     TypeInv, TypeOK, SessionState, OutTask, DispTask, FinTask, Markers
<1>. QED
  BY <1>7, <1>9, <1>11, <1>12 DEF CalmInv


LEMMA NeverCalm ==
    ASSUME CalmCtx, BudgetInv
    PROVE  /\ ~Leave /\ ~JamReported /\ ~ReopenFails
           /\ ~DeadlineExpires /\ ~FinalTimesOut /\ ~EngineFalls
           /\ ~FinalRejected /\ ~TimedOutCancelled /\ ~FailureReported
           /\ ~DropExpiredTurn /\ ~ExpiryReported /\ ~GiveUpTurn
<1>1. ~Leave /\ ~JamReported
  BY DEF CalmCtx, Calm, TypeInv, TypeOK, SessionState, Leave, JamReported
<1>2. ~ReopenFails
  BY DEF CalmCtx, Calm, TypeInv, TypeOK, ReopenFails
<1>3. budget["deadline"] = 0 /\ budget["timeout"] = 0 /\ budget["crash"] = 0
  BY DEF CalmCtx, Calm, Failures, BudgetInv, Disturbances
<1>4. ~DeadlineExpires /\ ~FinalTimesOut /\ ~EngineFalls
  BY <1>3 DEF Disturb, DeadlineExpires, FinalTimesOut, EngineFalls
<1>5. ~FinalRejected
  BY DEF CalmCtx, CalmInv, FinalizingInv, FinalRejected
<1>6. ~TimedOutCancelled /\ ~FailureReported /\ ~DropExpiredTurn /\ ~ExpiryReported /\ ~GiveUpTurn
  BY DEF CalmCtx, CalmInv, OutInv, TimedOutCancelled, FailureReported, DropExpiredTurn, ExpiryReported, GiveUpTurn
<1>. QED
  BY <1>1, <1>2, <1>4, <1>5, <1>6

LEMMA StillCalm ==
    ASSUME CalmCtx, UNCHANGED vars
    PROVE  CalmInv'
  BY DEF CalmCtx, CalmInv, SendInv, OutInv, EndInv, ActiveInv, DispInv, FiredInv, PreparingInv, FinalizingInv,
         DrainInv, EmitInv, QueueInv, MicInv, ServerInv, EndLatched, Draining, Winding, TurnOpenInQueue, vars

LEMMA CalmAction ==
    ASSUME CalmCtx, BudgetInv, [Next]_vars
    PROVE  CalmInv'
  BY NeverCalm, StillCalm, AudioCalm, JoinedCalm, QueueTurnCalm, FeedTurnCalm, RefeedTurnCalm, JudgedCalm,
     EndpointSentCalm, PrepareAwaitedCalm, FinalSentCalm, AbortCancelEndsCalm, PollCalm, JoinTimesOutCalm,
     StartTurnCalm, OpenTurnCalm, OpenTurnFailsCalm, RefusalReportedCalm, NotifiedCalm, ClientEosCalm,
     ClientPrepareCalm, KeepingAbortCalm, AbortCalm, FinalAcceptedCalm, FinalAbortedCalm, ReopenTurnCalm,
     FinalizeEndsCalm, PrepareEndsCalm
  DEF Next, Dispatch, AsrOut

(* What ends the calm does so for good. *)
LEMMA SegmentStorm ==
    ASSUME TypeInv, NEW seg \in Segments, HandleSegment(seg)
    PROVE  /\ history.astray => history'.astray
           /\ state.clientClosed => state'.clientClosed
           /\ state.closed => state'.closed
<1>1. history'.astray = history.astray \/ history'.astray = (history.astray \/ ~state.active)
  BY DEF HandleSegment, QueueSegment, FeedSegment, LatchEnd, Latched
<1>2. state'.clientClosed = state.clientClosed /\ (state.closed => state'.closed)
  BY DEF TypeInv, TypeOK, SessionState, HandleSegment, QueueSegment, RejectPending, Cleared, FeedSegment, LatchEnd
<1>. QED
  BY <1>1, <1>2

LEMMA Storm ==
    ASSUME TypeInv, [Next]_vars
    PROVE  /\ UNCHANGED deployment
           /\ history.astray => history'.astray
           /\ state.clientClosed => state'.clientClosed
           /\ state.closed => state'.closed
<1>. DEFINE Goal == /\ UNCHANGED deployment
                    /\ history.astray => history'.astray
                    /\ state.clientClosed => state'.clientClosed
                    /\ state.closed => state'.closed
<1>. USE DEF TypeInv
<1>0. state \in SessionState /\ history \in [answered : BOOLEAN, astray : BOOLEAN] /\ disp.seg \in Segments
  BY DEF TypeOK, DispTask
<1>1. ASSUME NEW seg \in Segments, ReceiveAudio(seg) PROVE Goal
  <2>1. UNCHANGED deployment /\ (HandleSegment(seg) \/ UNCHANGED <<state, history>>)
    BY <1>1 DEF ReceiveAudio
  <2>. QED
    BY <2>1, SegmentStorm
<1>2. CASE ClientEos \/ ClientPrepare \/ KeepingAbort \/ Abort \/ Leave
  <2>1. CASE ClientEos
    <3>1. history'.astray = (history.astray \/ ~state.active)
      BY <2>1 DEF ClientEos, Latched
    <3>. QED
      BY <1>0, <2>1, <3>1 DEF SessionState, ClientEos, world
  <2>2. CASE Abort
    <3>1. history'.astray = (history.astray \/ out.pc \in {"reopening", "refeeding"})
      BY <2>2 DEF Abort
    <3>. QED
      BY <1>0, <2>2, <3>1 DEF SessionState, Abort, Cleared, world
  <2>3. CASE ClientPrepare \/ KeepingAbort \/ Leave
    BY <1>0, <2>3 DEF SessionState, ClientPrepare, KeepingAbort, Leave, world
  <2>. QED
    BY <1>2, <2>1, <2>2, <2>3
<1>3. CASE Joined
  BY <1>0, <1>3, SegmentStorm DEF Joined, world
<1>4. CASE FeedTurn
  <2>1. UNCHANGED deployment /\ (UNCHANGED <<state, history>> \/ LatchEnd)
    BY <1>4 DEF FeedTurn, world
  <2>2. LatchEnd => history'.astray = history.astray \/ history'.astray = (history.astray \/ ~state.active)
    BY DEF LatchEnd, Latched
  <2>3. LatchEnd => state'.clientClosed = state.clientClosed /\ (state.closed => state'.closed)
    BY <1>0 DEF SessionState, LatchEnd
  <2>. QED
    BY <2>1, <2>2, <2>3
<1>5. CASE QueueTurn \/ StartTurn \/ OpenTurn \/ Notified \/ JamReported \/ RefusalReported \/ JoinTimesOut \/ OpenTurnFails
  BY <1>0, <1>5 DEF SessionState, QueueTurn, Cleared, StartTurn, OpenTurn, Answered, Notified, JamReported,
     RefusalReported, JoinTimesOut, OpenTurnFails, world
<1>6. ASSUME NEW end, Judge(end) PROVE Goal
  <2>. DEFINE s == LiveEndpoint(state)
              shut == [s EXCEPT !.closed = @ \/ ~Multi]
  <2>1. s.closed = state.closed /\ s.clientClosed = state.clientClosed /\ s \in SessionState
    BY LiveTyped DEF LiveEndpoint, TypeOK, SessionState
  <2>2. (state.closed => shut.closed) /\ shut.clientClosed = state.clientClosed /\ shut \in SessionState
    BY <2>1 DEF SessionState
  <2>3. history'.astray = history.astray /\ UNCHANGED deployment
    BY <1>6 DEF Judge, Answered, TypeOK, world
  <2>4. state' = s \/ state' = shut \/ \E g : state' = [shut EXCEPT !.finalizing = g]
    BY <1>6 DEF Judge, FinalizeOrEmpty
  <2>. HIDE DEF s, shut
  <2>. QED
    BY <2>1, <2>2, <2>3, <2>4 DEF SessionState
<1>7. CASE EndpointSent \/ PrepareAwaited
  BY <1>0, <1>7 DEF SessionState, EndpointSent, FinalizeOrEmpty, PrepareAwaited, Answered, world
<1>8. CASE FinalRejected \/ FinalAborted \/ TimedOutCancelled
  <2>1. UNCHANGED deployment /\ history'.astray = history.astray
    BY <1>0, <1>8 DEF FinalRejected, FinalAborted, TimedOutCancelled, FinalDropped, Answered, world
  <2>2. state'.clientClosed = state.clientClosed /\ state'.closed = state.closed
    BY <1>0, <1>8 DEF SessionState, FinalRejected, FinalAborted, TimedOutCancelled, FinalDropped, Cleared
  <2>. QED
    BY <2>1, <2>2
<1>9. CASE FinalAccepted \/ FinalSent \/ DropExpiredTurn \/ GiveUpTurn
  BY ZenonT(60), <1>0, <1>9 DEF SessionState, FinalAccepted, FinalSent, DropExpiredTurn, GiveUpTurn, Cleared, Answered, world
<1>10. CASE Poll \/ FailureReported \/ ExpiryReported \/ DeadlineExpires \/ FinalTimesOut
  BY <1>10 DEF Poll, FailureReported, ExpiryReported, DeadlineExpires, FinalTimesOut, world
<1>11. CASE ReopenTurn \/ ReopenFails
  BY <1>0, <1>11 DEF SessionState, ReopenTurn, ReopenFails, world
<1>12. CASE RefeedTurn
  <2>1. UNCHANGED deployment /\ (history.astray => history'.astray)
    BY <1>12 DEF RefeedTurn, world
  <2>2. state'.clientClosed = state.clientClosed /\ state'.closed = state.closed
    BY <1>0, <1>12 DEF SessionState, RefeedTurn
  <2>. QED
    BY <2>1, <2>2
<1>13. CASE FinalizeEnds \/ PrepareEnds \/ AbortCancelEnds \/ EngineFalls
  BY <1>13 DEF FinalizeEnds, PrepareEnds, AbortCancelEnds, EngineFalls, world
<1>14. CASE UNCHANGED vars
  BY <1>14 DEF vars
<1>. QED
  BY <1>1, <1>2, <1>3, <1>4, <1>5, <1>6, <1>7, <1>8, <1>9, <1>10, <1>11, <1>12, <1>13, <1>14
  DEF Next, Dispatch, AsrOut, JudgeIdle, JudgePolled

LEMMA CalmBefore ==
    ASSUME TypeInv, [Next]_vars, Calm'
    PROVE  Calm
  BY Storm DEF Calm, Multi

LEMMA Disturbed ==
    ASSUME [Next]_vars
    PROVE  UNCHANGED budget \/ \E kind \in Disturbances : Disturb(kind)
<1>. USE DEF Disturbances
<1>1. ASSUME NEW seg, HandleSegment(seg) PROVE UNCHANGED budget \/ Disturb("overflow")
  BY <1>1 DEF HandleSegment, QueueSegment, RejectPending, FeedSegment
<1>2. CASE \E seg \in Segments : ReceiveAudio(seg)
  BY <1>1, <1>2 DEF ReceiveAudio
<1>3. CASE ClientEos \/ ClientPrepare \/ KeepingAbort \/ Abort \/ Leave
  BY <1>3 DEF ClientEos, ClientPrepare, KeepingAbort, Abort, Leave
<1>4. CASE Dispatch \/ JoinTimesOut \/ OpenTurnFails
  BY <1>1, <1>4 DEF Dispatch, Joined, QueueTurn, StartTurn, OpenTurn, FeedTurn, Notified, JamReported,
     RefusalReported, JoinTimesOut, OpenTurnFails
<1>5. CASE AsrOut \/ DeadlineExpires \/ FinalTimesOut \/ ReopenFails
  BY <1>5 DEF AsrOut, Poll, JudgeIdle, JudgePolled, Judge, EndpointSent, PrepareAwaited, FinalAccepted,
     FinalRejected, FinalAborted, TimedOutCancelled, FailureReported, FinalSent, DropExpiredTurn,
     ExpiryReported, ReopenTurn, RefeedTurn, GiveUpTurn, DeadlineExpires, FinalTimesOut, ReopenFails
<1>6. CASE FinalizeEnds \/ PrepareEnds \/ AbortCancelEnds \/ EngineFalls
  BY <1>6 DEF FinalizeEnds, PrepareEnds, AbortCancelEnds, EngineFalls
<1>. QED
  BY <1>2, <1>3, <1>4, <1>5, <1>6 DEF Next, vars

LEMMA BudgetStep ==
    ASSUME TypeInv, BudgetInv, [Next]_vars
    PROVE  BudgetInv'
<1>1. UNCHANGED deployment
  BY Storm
<1>2. CASE UNCHANGED budget
  BY <1>1, <1>2 DEF BudgetInv
<1>3. ASSUME NEW kind \in Disturbances, Disturb(kind) PROVE BudgetInv'
  <2>1. budget \in [Disturbances -> 0 .. MaxDisturb]
    BY DEF TypeInv, TypeOK
  <2>2. kind \in deployment.disturb
    BY <1>3, <2>1 DEF BudgetInv, Disturb
  <2>3. \A k \in Disturbances : k # kind => budget'[k] = budget[k]
    BY <1>3, <2>1 DEF Disturb
  <2>. QED
    BY <1>1, <2>2, <2>3 DEF BudgetInv
<1>. QED
  BY <1>2, <1>3, Disturbed

-----------------------------------------------------------------------------
LEMMA SegmentQueuesNothing ==
    ASSUME TypeInv, NothingQueues, NEW seg \in Segments, HandleSegment(seg), UNCHANGED <<deployment, out>>
    PROVE  NothingQueues'
<1>. USE DEF TypeInv, TypeOK
<1>1. state \in SessionState
  OBVIOUS
<1>2. CASE PendingBlocked
  <2>1. FrontendVad /\ (~Multi => state.closed)
    BY <1>2 DEF NothingQueues, PendingBlocked, EndLatched
  <2>2. state.closed => state'.closed
    BY SegmentStorm
  <2>. QED
    BY <2>1, <2>2 DEF NothingQueues, FrontendVad, Multi
<1>3. CASE ~PendingBlocked
  <2>1. FeedSegment(seg) \/ (disp'.pc = "receive" /\ UNCHANGED state)
    BY <1>3 DEF HandleSegment, QueueSegment
  <2>2. disp'.pc # "queue"
    BY <2>1 DEF FeedSegment, LatchEnd, DispTask
  <2>3. UNCHANGED state \/ (state'.pending = state.pending /\ (~Multi => state'.closed))
    BY <1>1, <2>1 DEF FeedSegment, LatchEnd, SessionState
  <2>. QED
    BY <2>2, <2>3 DEF NothingQueues, EndLatched, FrontendVad, Multi
<1>. QED
  BY <1>2, <1>3

LEMMA NothingQueuesStep ==
    ASSUME TypeInv, NothingQueues, [Next]_vars
    PROVE  NothingQueues'
<1>. DEFINE Busy == ~Multi /\ ~state.closed
            Deaf == ~FrontendVad
<1>0. UNCHANGED deployment /\ (state.closed => state'.closed) /\ (Multi' <=> Multi) /\ (FrontendVad' <=> FrontendVad)
  BY Storm DEF Multi, FrontendVad
<1>. SUFFICES ASSUME Deaf \/ Busy
     PROVE  /\ Busy /\ ~state'.closed =>
                  /\ state'.pending = <<>> /\ ~EndLatched' /\ state'.finalizing = 0 /\ ~state'.draining
                  /\ disp'.pc # "queue"
                  /\ out'.pc \in {"loop", "polled", "deadline", "expired", "over"}
            /\ Deaf => state'.pending = <<>> /\ disp'.pc # "queue"
  BY <1>0 DEF NothingQueues
<1>. HIDE DEF Busy, Deaf
<1>1. /\ state.pending = <<>> /\ disp.pc # "queue"
      /\ Busy => /\ ~EndLatched /\ state.finalizing = 0 /\ ~state.draining /\ ~Multi /\ ~state.closed
                 /\ out.pc \in {"loop", "polled", "deadline", "expired", "over"}
  BY DEF NothingQueues, Busy, Deaf
<1>2. state \in SessionState /\ out \in OutTask /\ disp \in DispTask
  BY DEF TypeInv, TypeOK
<1>3. ASSUME NEW seg \in Segments, ReceiveAudio(seg) PROVE NothingQueues'
  <2>1. CASE HandleSegment(seg)
    BY <1>3, <2>1, SegmentQueuesNothing DEF ReceiveAudio, outVars
  <2>2. CASE disp' = [pc |-> "join", seg |-> seg] /\ UNCHANGED <<state, jobs, sends, history, budget>>
    BY <1>3, <2>2 DEF ReceiveAudio, NothingQueues, EndLatched, Multi, FrontendVad, outVars
  <2>. QED
    BY <1>3, <2>1, <2>2 DEF ReceiveAudio
<1>4. ASSUME Joined PROVE NothingQueues'
  BY <1>2, <1>4, SegmentQueuesNothing DEF Joined, DispTask, world, outVars
<1>5. CASE ClientEos
  BY <1>1, <1>2, <1>5 DEF ClientEos, SessionState
<1>6. CASE ClientPrepare \/ KeepingAbort
  BY <1>1, <1>6 DEF ClientPrepare, KeepingAbort, EndLatched, outVars
<1>7. CASE Abort
  BY <1>1, <1>2, <1>7 DEF Abort, Cleared, NoEndpoint, EndLatched, SessionState, OutTask
<1>8. CASE Leave
  BY <1>1, <1>2, <1>8 DEF Leave, EndLatched, SessionState, OutTask, DispTask
<1>9. CASE StartTurn \/ OpenTurn \/ Notified \/ JamReported \/ RefusalReported \/ JoinTimesOut \/ OpenTurnFails
  <2>1. disp'.pc # "queue" /\ UNCHANGED out
    BY <1>2, <1>9 DEF StartTurn, OpenTurn, Notified, JamReported, RefusalReported, JoinTimesOut, OpenTurnFails, DispTask, outVars
  <2>2. /\ state'.pending = state.pending /\ state'.finalizing = state.finalizing /\ state'.draining = state.draining
        /\ ~EndLatched => ~EndLatched'
    <3>1. CASE RefusalReported
      BY <1>2, <3>1 DEF RefusalReported, SessionState, EndLatched, NoEndpoint
    <3>2. CASE OpenTurn
      BY <1>2, <3>2 DEF OpenTurn, SessionState, EndLatched, NoEndpoint
    <3>3. CASE JamReported
      BY <1>2, <3>3 DEF JamReported, SessionState, EndLatched
    <3>4. CASE StartTurn \/ Notified \/ JoinTimesOut \/ OpenTurnFails
      BY <3>4 DEF StartTurn, Notified, JoinTimesOut, OpenTurnFails, EndLatched
    <3>. QED
      BY <1>9, <3>1, <3>2, <3>3, <3>4
  <2>. QED
    BY <1>1, <2>1, <2>2
<1>10. CASE QueueTurn
  BY <1>1, <1>10 DEF QueueTurn
<1>11. CASE FeedTurn
  <2>1. disp'.pc # "queue" /\ UNCHANGED out
    BY <1>2, <1>11 DEF FeedTurn, LatchEnd, DispTask, outVars
  <2>2. UNCHANGED state \/ (state'.pending = state.pending /\ (~Multi => state'.closed))
    BY <1>2, <1>11 DEF FeedTurn, LatchEnd, SessionState
  <2>. QED
    BY <1>1, <2>1, <2>2 DEF EndLatched
<1>12. ASSUME NEW end, Judge(end) PROVE NothingQueues'
  <2>. DEFINE s == LiveEndpoint(state)
              shut == [s EXCEPT !.closed = @ \/ ~Multi]
  <2>1. /\ s.pending = <<>> /\ s.closed = state.closed /\ s.finalizing = state.finalizing /\ s.draining = state.draining
        /\ (~EndLatched => s.endpoint.by = "none") /\ s \in SessionState
    BY <1>1, <1>2, LiveTyped DEF LiveEndpoint, NoEndpoint, EndLatched, SessionState
  <2>2. shut.pending = <<>> /\ (~Multi => shut.closed) /\ shut \in SessionState
    BY <2>1 DEF SessionState
  <2>3. UNCHANGED disp
    BY <1>12 DEF Judge
  <2>4. \/ state' = s /\ OutGoes(LoopOrReturn(s))
        \/ state' = shut \/ \E g : state' = [shut EXCEPT !.finalizing = g]
    BY <1>12 DEF Judge, FinalizeOrEmpty
  <2>. HIDE DEF s, shut
  <2>5. CASE state' = s /\ OutGoes(LoopOrReturn(s))
    BY <1>0, <1>1, <1>2, <2>1, <2>3, <2>5 DEF NothingQueues, EndLatched, OutGoes, LoopOrReturn, OutTask, Busy, Deaf
  <2>6. CASE state' = shut \/ \E g : state' = [shut EXCEPT !.finalizing = g]
    <3>1. state'.pending = <<>> /\ (~Multi => state'.closed)
      BY <2>2, <2>6 DEF SessionState
    <3>. QED
      BY <1>0, <1>1, <2>3, <3>1 DEF NothingQueues
  <2>. QED
    BY <2>4, <2>5, <2>6
<1>13. CASE EndpointSent \/ PrepareAwaited \/ FinalAccepted \/ FinalSent
  <2>1. ~Busy /\ state'.pending = <<>> /\ UNCHANGED disp
    BY <1>1, <1>2, <1>13 DEF EndpointSent, FinalizeOrEmpty, PrepareAwaited, FinalAccepted, FinalSent, SessionState
  <2>. QED
    BY <1>1, <2>1
<1>14. CASE FinalRejected \/ FinalAborted \/ TimedOutCancelled
  <2>1. ~Busy /\ UNCHANGED disp
    BY <1>1, <1>14 DEF FinalRejected, FinalAborted, TimedOutCancelled
  <2>2. state'.pending = <<>>
    BY <1>2, <1>14 DEF FinalRejected, FinalAborted, TimedOutCancelled, FinalDropped, Cleared, SessionState
  <2>. QED
    BY <1>1, <2>1, <2>2
<1>15. CASE Poll \/ DeadlineExpires \/ FailureReported \/ ExpiryReported \/ FinalTimesOut
  <2>1. UNCHANGED <<state, disp>>
    BY <1>15 DEF Poll, DeadlineExpires, FailureReported, ExpiryReported, FinalTimesOut
  <2>2. Busy => out'.pc \in {"loop", "polled", "deadline", "expired", "over"}
    BY <1>1, <1>2, <1>15 DEF Poll, DeadlineExpires, FailureReported, ExpiryReported, FinalTimesOut, OutGoes, OutTask
  <2>. QED
    BY <1>1, <2>1, <2>2 DEF EndLatched
<1>16. CASE DropExpiredTurn
  BY <1>1, <1>2, <1>16 DEF DropExpiredTurn, OutGoes, EndLatched, NoEndpoint, SessionState, OutTask
<1>17. CASE ReopenTurn \/ ReopenFails \/ RefeedTurn \/ GiveUpTurn
  <2>1. ~Busy /\ UNCHANGED disp
    BY <1>1, <1>17 DEF ReopenTurn, ReopenFails, RefeedTurn, GiveUpTurn
  <2>2. state'.pending = <<>>
    BY <1>1, <1>2, <1>17 DEF ReopenTurn, ReopenFails, RefeedTurn, GiveUpTurn, Cleared, SessionState
  <2>. QED
    BY <1>1, <2>1, <2>2
<1>18. CASE FinalizeEnds \/ PrepareEnds \/ AbortCancelEnds \/ EngineFalls
  BY <1>1, <1>18 DEF FinalizeEnds, PrepareEnds, AbortCancelEnds, EngineFalls, EndLatched, outVars
<1>19. CASE UNCHANGED vars
  BY <1>1, <1>19 DEF vars, EndLatched
<1>20. NothingQueues' => /\ Busy /\ ~state'.closed =>
                               /\ state'.pending = <<>> /\ ~EndLatched' /\ state'.finalizing = 0 /\ ~state'.draining
                               /\ disp'.pc # "queue"
                               /\ out'.pc \in {"loop", "polled", "deadline", "expired", "over"}
                         /\ Deaf => state'.pending = <<>> /\ disp'.pc # "queue"
  BY <1>0 DEF NothingQueues, Busy, Deaf
<1>. QED
  BY <1>3, <1>4, <1>5, <1>6, <1>7, <1>8, <1>9, <1>10, <1>11, <1>12, <1>13, <1>14, <1>15, <1>16, <1>17, <1>18, <1>19, <1>20
  DEF Next, Dispatch, AsrOut, JudgeIdle, JudgePolled

(* The inductive invariant of the session. *)
SessionInv ==
    /\ TypeInv /\ CancelInv /\ BudgetInv /\ NothingQueues
    /\ Calm => CalmInv

LEMMA SessionInit ==
    ASSUME Init
    PROVE  SessionInv
<1>1. TypeInv /\ CancelInv /\ BudgetInv
  BY TypeInit DEF Init, CancelInv, BudgetInv
<1>2. NothingQueues
  BY DEF Init, NothingQueues, EndLatched, NoEndpoint
<1>3. CalmInv
  BY DEF Init, NoEndpoint, NoSegment, CalmInv, SendInv, OutInv, EndInv, ActiveInv, DispInv, FiredInv, PreparingInv,
     FinalizingInv, DrainInv, EmitInv, QueueInv, MicInv, ServerInv, EndLatched, Draining, TurnOpenInQueue
<1>. QED
  BY <1>1, <1>2, <1>3 DEF SessionInv

LEMMA SessionStep ==
    ASSUME SessionInv, [Next]_vars
    PROVE  SessionInv'
  BY TypeStep, CancelStep, BudgetStep, NothingQueuesStep, CalmBefore, CalmAction DEF SessionInv, CalmCtx

LEMMA Served ==
    ASSUME SessionInv, deployment.detector # "backend"
    PROVE  QueuedSpeechIsTakenUp
<1>. SUFFICES ASSUME deployment.disturb \cap Failures = {}, ~history.astray,
                     state.pending # <<>>, ~state.clientClosed, ~state.closed
              PROVE  QueuedSpeechHasServer
  BY DEF QueuedSpeechIsTakenUp, QueuedSpeechHasServer
<1>1. Multi /\ FrontendVad
  BY DEF SessionInv, NothingQueues
<1>2. deployment.detector = "vad"
  BY <1>1, BoundsAssumption DEF FrontendVad, SessionInv, TypeInv, TypeOK
<1>3. CalmInv
  BY <1>1, <1>2 DEF SessionInv, Calm
<1>. QED
  BY <1>3 DEF CalmInv, ServerInv, EndInv, EndLatched, QueuedSpeechHasServer

(* Speech that queues behind an older turn always has someone to take it up *)
(* (_drain_pending_turn), however aborts, ends of speech from the client,   *)
(* refusals and overflows fall between the two tasks' steps.  A session     *)
(* whose recogniser ends the turns itself is excepted: there a marker of a  *)
(* dead generation may send speech to the queue of an active turn.          *)
THEOREM QueuedSpeechServed == Spec => [](deployment.detector # "backend" => QueuedSpeechIsTakenUp)
<1>1. SessionInv => (deployment.detector # "backend" => QueuedSpeechIsTakenUp)
  BY Served
<1>. QED
  BY <1>1, SessionInit, SessionStep, PTL DEF Spec

-----------------------------------------------------------------------------
(* The order of the finals                                                 *)
(***************************************************************************)
(* In an undisturbed session the utterances spoken so far are, in order:    *)
(* those that have their final, the one of the active turn, those of the    *)
(* queue, and the one the dispatcher is announcing.  The parts below give   *)
(* each its number.                                                        *)
(***************************************************************************)
(* Nothing ends the session or one of its turns. *)
PeaceInv ==
    /\ ~state.closed /\ ~state.clientClosed /\ ~history.astray /\ ~jobs.cancel
    /\ disp.pc \in {"receive", "announce", "queue", "opening", "feeding", "notify"}

(* The queue's first turn is still on it while its audio is fed again. *)
ActiveTurns == IF state.active /\ out.pc # "refeeding" THEN 1 ELSE 0
Arriving == IF disp.pc \in {"announce", "queue", "opening"} THEN 1 ELSE 0
Before == Len(finals) + ActiveTurns

NumberInv ==
    /\ mic.utt = Before + Len(state.pending) + Arriving
    /\ \A i \in 1 .. Len(state.pending) : state.pending[i].utt = Before + i

(* The segment at hand is of the utterance being spoken. *)
SegmentInv ==
    /\ disp.pc \in {"announce", "queue", "opening"} => disp.seg.kind = "start"
    /\ disp.pc \in {"announce", "queue", "opening", "feeding"} =>
         disp.seg.utt = mic.utt \/ (disp.seg.utt = 0 /\ disp.seg.kind = "silence")

(* An utterance that is spoken is heard: its turn is active and not ended,  *)
(* or is the last of the queue.                                            *)
SpokenInv ==
    /\ disp.pc = "notify" => ~mic.talking
    /\ disp.pc = "receive" /\ mic.talking =>
         IF state.pending # <<>> THEN TurnOpenInQueue ELSE state.active /\ ~EndLatched
    /\ state.active /\ ~EndLatched /\ ~Draining =>
         /\ state.pending = <<>> /\ disp.pc \in {"receive", "feeding"}
         /\ mic.talking \/ (disp.pc = "feeding" /\ disp.seg.kind = "end")

(* A turn is finalized with its endpoint latched, and refed without; no     *)
(* turn opens before its final is sent.                                    *)
EndedInv ==
    /\ disp.pc = "feeding" => state.active
    /\ out.pc \in {"fired", "preparing", "finalizing"} => EndLatched
    /\ out.pc = "refeeding" => ~EndLatched
    /\ out.pc = "emitting" => /\ ~state.active /\ disp.pc \notin {"opening", "feeding"}
                             /\ (disp.pc = "announce" => sends = <<"out", "disp">>)

(* The active stream has heard its own turn's utterance and no other. *)
HeardInv ==
    /\ \A g \in Generations : g > mgr.gen => heard[g] = {}
    /\ state.active =>
         heard[state.gen] =
            IF out.pc = "refeeding" \/ (disp.pc = "feeding" /\ disp.seg.kind = "start")
            THEN {} ELSE {Len(finals) + 1}

OrderInv ==
    /\ PeaceInv /\ NumberInv /\ SegmentInv /\ SpokenInv /\ EndedInv /\ HeardInv
    /\ FinalsInOrder

OrderCtx == SessionInv /\ Undisturbed /\ OrderInv

LEMMA OrderFacts ==
    ASSUME OrderCtx
    PROVE  /\ TypeInv /\ CalmInv /\ BudgetInv /\ CancelInv /\ Multi /\ FrontendVad /\ ~BackendEndpoint
           /\ state \in SessionState /\ out \in OutTask /\ disp \in DispTask /\ fin \in FinTask
           /\ mic.utt \in Nat /\ Len(finals) \in Nat /\ Len(state.pending) \in Nat /\ state.pending \in Seq(Turns)
           /\ \A kind \in {"abort", "eos", "leave", "deadline", "timeout", "unavailable", "overflow", "jam", "crash"} :
                 ~Disturb(kind)
<1>1. TypeInv /\ BudgetInv /\ CancelInv /\ Multi /\ FrontendVad /\ ~BackendEndpoint
  BY DEF OrderCtx, SessionInv, Undisturbed, FrontendVad, BackendEndpoint
<1>2. CalmInv
  BY DEF OrderCtx, SessionInv, Undisturbed, OrderInv, PeaceInv, Calm, Failures
<1>3. state \in SessionState /\ out \in OutTask /\ disp \in DispTask /\ fin \in FinTask
      /\ mic.utt \in Nat /\ finals \in Seq(SUBSET Utterances)
  BY <1>1, BoundsAssumption DEF TypeInv, TypeOK
<1>4. Len(finals) \in Nat /\ Len(state.pending) \in Nat /\ state.pending \in Seq(Turns)
  BY <1>3, LenProperties DEF SessionState
<1>5. \A kind \in {"abort", "eos", "leave", "deadline", "timeout", "unavailable", "overflow", "jam", "crash"} :
         ~Disturb(kind)
  BY DEF OrderCtx, SessionInv, BudgetInv, Undisturbed, Disturb, Disturbances
<1>. QED
  BY <1>1, <1>2, <1>3, <1>4, <1>5

LEMMA NeverDisturbed ==
    ASSUME OrderCtx
    PROVE  /\ ~ClientEos /\ ~Abort /\ ~Leave /\ ~JoinTimesOut /\ ~OpenTurnFails
           /\ ~DeadlineExpires /\ ~FinalTimesOut /\ ~ReopenFails /\ ~EngineFalls
           /\ ~Joined /\ ~JamReported /\ ~RefusalReported /\ ~AbortCancelEnds
           /\ ~FinalRejected /\ ~FinalAborted /\ ~TimedOutCancelled /\ ~FailureReported
           /\ ~DropExpiredTurn /\ ~ExpiryReported /\ ~GiveUpTurn /\ ~RejectPending
<1>1. /\ ~ClientEos /\ ~Abort /\ ~Leave /\ ~JoinTimesOut /\ ~OpenTurnFails /\ ~RejectPending
      /\ ~DeadlineExpires /\ ~FinalTimesOut /\ ~ReopenFails /\ ~EngineFalls
  BY OrderFacts DEF ClientEos, Abort, Leave, JoinTimesOut, OpenTurnFails, RejectPending, DeadlineExpires,
     FinalTimesOut, ReopenFails, EngineFalls
<1>2. ~Joined /\ ~JamReported /\ ~RefusalReported /\ ~AbortCancelEnds
  BY DEF OrderCtx, OrderInv, PeaceInv, Joined, JamReported, RefusalReported, AbortCancelEnds
<1>3. ~FinalRejected /\ ~FinalAborted
  BY OrderFacts DEF CalmInv, FinalizingInv, Winding, OrderCtx, OrderInv, PeaceInv, FinalRejected, FinalAborted
<1>4. ~TimedOutCancelled /\ ~FailureReported /\ ~DropExpiredTurn /\ ~ExpiryReported /\ ~GiveUpTurn
  BY OrderFacts DEF CalmInv, OutInv, TimedOutCancelled, FailureReported, DropExpiredTurn, ExpiryReported, GiveUpTurn
<1>. QED
  BY <1>1, <1>2, <1>3, <1>4

(* What a step of asr_out_task or of the engine may do without touching the *)
(* order.                                                                  *)
Kept ==
    /\ UNCHANGED <<deployment, mic, disp, finals, heard>>
    /\ state'.active = state.active /\ state'.pending = state.pending /\ state'.gen = state.gen
    /\ state'.endpoint = state.endpoint
    /\ state'.closed = state.closed /\ state'.clientClosed = state.clientClosed
    /\ mgr'.gen = mgr.gen /\ jobs'.cancel = jobs.cancel /\ history'.astray = history.astray
    /\ \/ out'.pc = out.pc /\ UNCHANGED sends
       \/ /\ {out.pc, out'.pc} \cap {"refeeding", "reopening", "emitting"} = {}
          /\ out'.pc \in {"fired", "preparing", "finalizing"} => EndLatched

LEMMA KeptOrder ==
    ASSUME OrderCtx, Kept
    PROVE  OrderInv'
<1>1. PeaceInv' /\ NumberInv' /\ SegmentInv'
  BY DEF OrderCtx, Kept, OrderInv, PeaceInv, NumberInv, SegmentInv, Before, ActiveTurns, Arriving
<1>2. SpokenInv' /\ EndedInv'
  BY DEF OrderCtx, Kept, OrderInv, SpokenInv, EndedInv, TurnOpenInQueue, EndLatched, Draining
<1>3. HeardInv' /\ FinalsInOrder'
  BY DEF OrderCtx, Kept, OrderInv, HeardInv, FinalsInOrder, Undisturbed, Multi
<1>. QED
  BY <1>1, <1>2, <1>3 DEF OrderInv

LEMMA QuietOrder ==
    ASSUME OrderCtx, ClientPrepare \/ KeepingAbort \/ Poll \/ FinalizeEnds \/ PrepareEnds \/ UNCHANGED vars
    PROVE  OrderInv'
<1>1. CASE ClientPrepare \/ KeepingAbort \/ PrepareEnds \/ UNCHANGED vars
  BY <1>1, KeptOrder, OrderFacts
  DEF Kept, TypeInv, TypeOK, ClientPrepare, Prepared, KeepingAbort, PrepareEnds, vars, world, outVars, asrVars
<1>2. CASE Poll
  <2>1. out.pc = "loop" /\ out'.pc = "polled"
    BY <1>2, OrderFacts DEF Poll, OutTask
  <2>. QED
    BY <1>2, <2>1, KeptOrder DEF Kept, Poll, world, asrVars
<1>3. CASE FinalizeEnds
  BY <1>3, KeptOrder, OrderFacts DEF Kept, TypeInv, TypeOK, FinalizeEnds, CancelStream, world
<1>. QED
  BY <1>1, <1>2, <1>3

LEMMA FinalizeOrder ==
    ASSUME OrderCtx, FinalizeOrEmpty(state), EndLatched, out.pc \in {"loop", "polled", "fired"},
           UNCHANGED <<deployment, mic, disp, jobs, finals, heard, history>>
    PROVE  OrderInv'
<1>1. state.active
  BY OrderFacts DEF CalmInv, EndInv
<1>2. out'.pc \in {"preparing", "finalizing"}
  BY <1>1, OrderFacts DEF FinalizeOrEmpty, OutTask
<1>3. /\ state'.active = state.active /\ state'.pending = state.pending /\ state'.gen = state.gen
      /\ state'.endpoint = state.endpoint
      /\ state'.closed = state.closed /\ state'.clientClosed = state.clientClosed
  BY OrderFacts DEF FinalizeOrEmpty, SessionState
<1>4. mgr'.gen = mgr.gen
  BY <1>1, OrderFacts DEF FinalizeOrEmpty, TypeInv, TypeOK
<1>. QED
  BY <1>2, <1>3, <1>4, KeptOrder DEF Kept

LEMMA JudgeOrder ==
    ASSUME OrderCtx, JudgeIdle \/ JudgePolled \/ EndpointSent
    PROVE  OrderInv'
<1>1. CASE EndpointSent
  <2>1. EndLatched
    BY <1>1 DEF OrderCtx, OrderInv, EndedInv, EndpointSent
  <2>. QED
    BY <1>1, <2>1, FinalizeOrder DEF EndpointSent, world
<1>2. CASE JudgeIdle \/ JudgePolled
  <2>1. ~out.end /\ out.end \in BOOLEAN
    BY OrderFacts DEF CalmInv, OutInv, OutTask
  <2>2. Judge(FALSE) /\ out.pc \in {"loop", "polled"}
    BY <1>2, <2>1 DEF JudgeIdle, JudgePolled
  <2>3. ~StaleEndpoint /\ LiveEndpoint(state) = state /\ Reason = state.endpoint.by
    BY OrderFacts DEF CalmInv, EndInv, EndLatched, StaleEndpoint, LiveEndpoint, Reason
  <2>4. [state EXCEPT !.closed = @ \/ ~Multi] = state
    BY OrderFacts DEF SessionState
  <2>5. UNCHANGED <<deployment, mic, disp, jobs, finals, heard>>
    BY <2>2 DEF Judge, world
  <2>6. \/ ~EndLatched /\ UNCHANGED <<state, sends, fin, mgr>> /\ OutGoes(LoopOrReturn(state))
        \/ EndLatched /\ FinalizeOrEmpty(state) /\ UNCHANGED history
        \/ /\ EndLatched /\ SendAs("out") /\ UNCHANGED <<state, fin, mgr>>
           /\ out' = [out EXCEPT !.pc = "fired", !.by = Reason, !.end = FALSE]
    BY <2>2, <2>3, <2>4 DEF Judge, EndLatched
  <2>7. history'.astray = history.astray
    BY <2>2, OrderFacts DEF Judge, Answered, TypeInv, TypeOK
  <2>8. CASE ~EndLatched /\ UNCHANGED <<state, sends, fin, mgr>> /\ OutGoes(LoopOrReturn(state))
    <3>1. out'.pc = "loop"
      BY <2>8, OrderFacts DEF OutGoes, LoopOrReturn, OrderCtx, OrderInv, PeaceInv, OutTask
    <3>. QED
      BY <2>2, <2>5, <2>7, <2>8, <3>1, KeptOrder DEF Kept
  <2>9. CASE EndLatched /\ FinalizeOrEmpty(state) /\ UNCHANGED history
    BY <2>2, <2>5, <2>9, FinalizeOrder
  <2>10. CASE /\ EndLatched /\ SendAs("out") /\ UNCHANGED <<state, fin, mgr>>
              /\ out' = [out EXCEPT !.pc = "fired", !.by = Reason, !.end = FALSE]
    <3>1. out'.pc = "fired"
      BY <2>10, OrderFacts DEF OutTask
    <3>. QED
      BY <2>2, <2>5, <2>7, <2>10, <3>1, KeptOrder DEF Kept
  <2>. QED
    BY <2>6, <2>8, <2>9, <2>10
<1>. QED
  BY <1>1, <1>2

LEMMA PrepareOrder ==
    ASSUME OrderCtx, PrepareAwaited
    PROVE  OrderInv'
<1>1. out.pc = "preparing" /\ state.active /\ state.gen = out.gen /\ EndLatched
  BY OrderFacts DEF PrepareAwaited, CalmInv, PreparingInv, Winding, OrderCtx, OrderInv, PeaceInv
<1>2. /\ state' = [state EXCEPT !.finalizing = out.gen] /\ out'.pc = "finalizing"
      /\ mgr'.gen = mgr.gen /\ UNCHANGED <<deployment, mic, disp, jobs, finals, heard, history>>
  BY <1>1, OrderFacts DEF PrepareAwaited, OutGoes, OutTask, TypeInv, TypeOK, world
<1>3. /\ state'.active = state.active /\ state'.pending = state.pending /\ state'.gen = state.gen
      /\ state'.endpoint = state.endpoint
      /\ state'.closed = state.closed /\ state'.clientClosed = state.clientClosed
  BY <1>2, OrderFacts DEF SessionState
<1>. QED
  BY <1>1, <1>2, <1>3, KeptOrder DEF Kept

LEMMA AcceptedOrder ==
    ASSUME OrderCtx, FinalAccepted
    PROVE  OrderInv'
<1>1. /\ out.pc = "finalizing" /\ state.active /\ state.gen = out.gen /\ EndLatched /\ fin.gen = state.gen
      /\ disp.pc \in {"receive", "queue", "notify"}
  <2>1. out.pc = "finalizing" /\ ~Winding
    BY DEF FinalAccepted, Winding, OrderCtx, OrderInv, PeaceInv
  <2>2. state.active /\ state.gen = out.gen /\ fin.gen = state.gen
    BY <2>1, OrderFacts DEF CalmInv, FinalizingInv, ActiveInv
  <2>3. EndLatched
    BY <2>1 DEF OrderCtx, OrderInv, EndedInv
  <2>4. disp.pc \in {"receive", "queue", "notify"}
    BY <2>3, OrderFacts DEF CalmInv, DispInv, OrderCtx, OrderInv, PeaceInv
  <2>. QED
    BY <2>1, <2>2, <2>3, <2>4
<1>2. /\ ~state'.active /\ state'.pending = state.pending /\ state'.gen = state.gen /\ ~EndLatched'
      /\ state'.closed = state.closed /\ state'.clientClosed = state.clientClosed
  BY <1>1, OrderFacts DEF FinalAccepted, SessionState, NoEndpoint, EndLatched
<1>3. /\ UNCHANGED <<deployment, mic, disp, mgr, heard>> /\ out'.pc = "emitting" /\ jobs'.cancel = jobs.cancel
      /\ history'.astray = history.astray /\ finals' = Append(finals, heard[fin.gen])
  BY OrderFacts DEF FinalAccepted, OutGoes, OutTask, Answered, TypeInv, TypeOK, world, asrVars
<1>. DEFINE n == Len(finals)
<1>4. heard[fin.gen] = {n + 1}
  BY <1>1 DEF OrderCtx, OrderInv, HeardInv
<1>5. n \in Nat /\ finals \in Seq(SUBSET Utterances) /\ heard[fin.gen] \in SUBSET Utterances
  <2>1. fin.gen \in Generations /\ n \in Nat
    BY <1>1, OrderFacts, BoundsAssumption DEF CalmInv, ActiveInv, SessionState, Generations
  <2>. QED
    BY <2>1, OrderFacts DEF TypeInv, TypeOK
<1>6. Len(finals') = n + 1 /\ finals'[n + 1] = {n + 1} /\ \A i \in 1 .. n : finals'[i] = finals[i]
  BY <1>3, <1>4, <1>5, AppendProperties
<1>7. Before' = Before /\ Before = n + 1
  <2>1. ActiveTurns = 1 /\ ActiveTurns' = 0
    BY <1>1, <1>2 DEF ActiveTurns
  <2>. QED
    BY <1>5, <1>6, <2>1 DEF Before
<1>8. FinalsInOrder'
  <2>1. \A i \in 1 .. n : finals[i] = {i}
    BY DEF OrderCtx, OrderInv, FinalsInOrder
  <2>. HIDE DEF n
  <2>2. \A i \in 1 .. n + 1 : finals'[i] = {i}
    BY <1>5, <1>6, <2>1
  <2>. QED
    BY <1>6, <2>2 DEF FinalsInOrder
<1>9. PeaceInv' /\ SegmentInv'
  BY <1>2, <1>3 DEF OrderCtx, OrderInv, PeaceInv, SegmentInv
<1>10. NumberInv'
  <2>1. Arriving' = Arriving
    BY <1>3 DEF Arriving
  <2>. QED
    BY <1>2, <1>3, <1>7, <2>1 DEF OrderCtx, OrderInv, NumberInv
<1>11. SpokenInv' /\ EndedInv'
  BY <1>1, <1>2, <1>3 DEF OrderCtx, OrderInv, SpokenInv, EndedInv, TurnOpenInQueue
<1>12. HeardInv'
  BY <1>2, <1>3 DEF OrderCtx, OrderInv, HeardInv
<1>. QED
  BY <1>8, <1>9, <1>10, <1>11, <1>12 DEF OrderInv

LEMMA SentOrder ==
    ASSUME OrderCtx, FinalSent
    PROVE  OrderInv'
<1>1. /\ out.pc = "emitting" /\ ~state.active /\ UNCHANGED <<deployment, mic, disp, mgr, heard, finals, jobs>>
      /\ history'.astray = history.astray /\ disp.pc \notin {"opening", "feeding"}
  BY OrderFacts DEF FinalSent, Answered, TypeInv, TypeOK, world, asrVars, OrderCtx, OrderInv, EndedInv
<1>2. state' = state \/ state' = [state EXCEPT !.draining = TRUE]
  BY OrderFacts DEF FinalSent
<1>3. /\ ~state'.active /\ state'.pending = state.pending /\ state'.endpoint = state.endpoint
      /\ state'.closed = state.closed /\ state'.clientClosed = state.clientClosed
  BY <1>1, <1>2, OrderFacts DEF SessionState
<1>4. out'.pc \in {"loop", "over", "reopening"}
  BY OrderFacts DEF FinalSent, OutGoes, LoopOrReturn, OutTask
<1>5. PeaceInv' /\ SegmentInv' /\ FinalsInOrder'
  BY <1>1, <1>3 DEF OrderCtx, OrderInv, PeaceInv, SegmentInv, FinalsInOrder
<1>6. NumberInv'
  <2>1. Before' = Before /\ Arriving' = Arriving
    BY <1>1, <1>3, <1>4 DEF Before, ActiveTurns, Arriving
  <2>. QED
    BY <1>1, <1>3, <2>1 DEF OrderCtx, OrderInv, NumberInv
<1>7. SpokenInv' /\ EndedInv' /\ HeardInv'
  BY <1>1, <1>3, <1>4 DEF OrderCtx, OrderInv, SpokenInv, EndedInv, HeardInv, TurnOpenInQueue, EndLatched
<1>. QED
  BY <1>5, <1>6, <1>7 DEF OrderInv

LEMMA ReopenOrder ==
    ASSUME OrderCtx, ReopenTurn
    PROVE  OrderInv'
<1>1. /\ out.pc = "reopening" /\ ~state.active /\ UNCHANGED <<deployment, mic, disp, heard, finals, jobs, history>>
      /\ mgr.gen + 1 \in Generations /\ mgr'.gen = mgr.gen + 1 /\ mgr.gen \in Nat
  BY OrderFacts, BoundsAssumption DEF ReopenTurn, OnSpeechStart, CalmInv, DrainInv, TypeInv, TypeOK, Generations, world
<1>2. state.pending # <<>> /\ ~EndLatched
  BY <1>1, OrderFacts DEF CalmInv, DrainInv, EndInv, Draining
<1>3. /\ state'.active /\ state'.gen = mgr.gen + 1 /\ state'.pending = state.pending /\ state'.endpoint = state.endpoint
      /\ state'.closed = state.closed /\ state'.clientClosed = state.clientClosed
  BY OrderFacts DEF ReopenTurn, SessionState
<1>4. out'.pc = "refeeding"
  BY OrderFacts DEF ReopenTurn, OutTask
<1>5. PeaceInv' /\ SegmentInv' /\ FinalsInOrder'
  BY <1>1, <1>3 DEF OrderCtx, OrderInv, PeaceInv, SegmentInv, FinalsInOrder
<1>6. NumberInv'
  <2>1. Before' = Before /\ Arriving' = Arriving
    BY <1>1, <1>3, <1>4 DEF Before, ActiveTurns, Arriving
  <2>. QED
    BY <1>1, <1>3, <2>1 DEF OrderCtx, OrderInv, NumberInv
<1>7. SpokenInv'
  BY <1>1, <1>2, <1>3, <1>4 DEF OrderCtx, OrderInv, SpokenInv, TurnOpenInQueue, EndLatched, Draining
<1>8. EndedInv'
  BY <1>1, <1>2, <1>3, <1>4 DEF OrderCtx, OrderInv, EndedInv, EndLatched
<1>9. HeardInv'
  BY <1>1, <1>3, <1>4 DEF OrderCtx, OrderInv, HeardInv, Generations
<1>. QED
  BY <1>5, <1>6, <1>7, <1>8, <1>9 DEF OrderInv

(* A frame falls into one of five cases. *)
LEMMA SpokenCases ==
    ASSUME OrderCtx, NEW seg \in Segments, ReceiveAudio(seg)
    PROVE  /\ disp.pc = "receive" /\ HandleSegment(seg) /\ UNCHANGED <<deployment, out, fin, finals, mgr, heard>>
           /\ mic.talking <=> seg.kind \in {"speech", "end"}
           /\ mic'.talking <=> seg.kind \in {"start", "speech"}
           /\ mic'.utt = IF seg.kind = "start" THEN mic.utt + 1 ELSE mic.utt
           /\ seg.kind # "silence" => seg.utt = mic'.utt
<1>1. /\ disp.pc = "receive" /\ HandleSegment(seg) /\ Spoken(seg)
      /\ UNCHANGED <<deployment, out, fin, finals, mgr, heard>>
  BY DEF ReceiveAudio, MustJoin, OrderCtx, OrderInv, PeaceInv, outVars, asrVars
<1>2. mic \in [utt : 0 .. MaxUtterances, talking : BOOLEAN]
  BY OrderFacts DEF TypeInv, TypeOK
<1>3. CASE seg.kind = "start" /\ ~mic.talking /\ seg.utt = mic.utt + 1 /\ mic' = [utt |-> seg.utt, talking |-> TRUE]
  BY <1>1, <1>3
<1>4. CASE seg.kind = "speech" /\ mic.talking /\ seg.utt = mic.utt /\ mic' = [mic EXCEPT !.talking = TRUE]
  BY <1>1, <1>2, <1>4
<1>5. CASE seg.kind = "end" /\ mic.talking /\ seg.utt = mic.utt /\ mic' = [mic EXCEPT !.talking = FALSE]
  BY <1>1, <1>2, <1>5
<1>6. CASE seg.kind = "silence" /\ ~mic.talking /\ UNCHANGED mic
  BY <1>1, <1>2, <1>6
<1>7. \/ seg.kind = "start" /\ ~mic.talking /\ seg.utt = mic.utt + 1 /\ mic' = [utt |-> seg.utt, talking |-> TRUE]
      \/ seg.kind \in {"speech", "end"} /\ mic.talking /\ seg.utt = mic.utt
         /\ mic' = [mic EXCEPT !.talking = seg.kind = "speech"]
      \/ seg.kind = "silence" /\ ~mic.talking /\ UNCHANGED mic
  BY <1>1 DEF Spoken, NoSegment
<1>8. seg.kind \in {"speech", "end"} =>
        (seg.kind = "speech") = TRUE \/ (seg.kind = "end" /\ (seg.kind = "speech") = FALSE)
  OBVIOUS
<1>. QED
  BY <1>3, <1>4, <1>5, <1>6, <1>7, <1>8

LEMMA SegmentPaths ==
    ASSUME OrderCtx, NEW seg \in Segments, HandleSegment(seg), disp.pc = "receive",
           mic.talking <=> seg.kind \in {"speech", "end"}
    PROVE  /\ UNCHANGED <<jobs, history>>
           /\ \/ /\ seg.kind = "start" /\ disp' = [pc |-> "queue", seg |-> seg] /\ UNCHANGED state
              \/ /\ seg.kind = "start" /\ disp' = [pc |-> "announce", seg |-> seg] /\ UNCHANGED state
                 /\ SendAs("disp")
              \/ /\ seg.kind \in {"speech", "end"} /\ TurnOpenInQueue
                 /\ state' = [state EXCEPT !.pending[Len(state.pending)].ended = seg.kind = "end"]
                 /\ disp' = [pc |-> IF seg.kind = "end" THEN "notify" ELSE "receive", seg |-> seg]
              \/ /\ seg.kind \in {"speech", "end"} /\ state.active /\ state.pending = <<>> /\ ~EndLatched
                 /\ disp' = [pc |-> "feeding", seg |-> seg] /\ UNCHANGED state
              \/ /\ seg.kind = "silence" /\ disp' = [pc |-> "receive", seg |-> seg] /\ UNCHANGED state
<1>1. /\ ~(state.closed \/ (~Multi /\ state.once /\ ~state.active)) /\ ~RejectPending
      /\ ~OpensLazily /\ (Event(seg) = "start" <=> seg.kind = "start") /\ (Event(seg) = "end" <=> seg.kind = "end")
  BY OrderFacts, NeverDisturbed DEF OpensLazily, Event, OrderCtx, OrderInv, PeaceInv
<1>2. seg.kind \in {"start", "speech", "end", "silence"}
  BY DEF Segments, Kinds
<1>3. CASE seg.kind = "start"
  BY <1>1, <1>3 DEF HandleSegment, QueueSegment, FeedSegment
<1>4. CASE seg.kind = "silence"
  <2>1. ~TurnOpenInQueue
    BY <1>4, OrderFacts DEF CalmInv, QueueInv
  <2>2. ~PendingBlocked => ~state.active
    BY <1>4, OrderFacts DEF OrderCtx, OrderInv, SpokenInv, PendingBlocked, EndLatched, CalmInv, OutInv
  <2>. QED
    BY <1>1, <1>4, <2>1, <2>2 DEF HandleSegment, QueueSegment, FeedSegment
<1>5. CASE seg.kind \in {"speech", "end"} /\ state.pending # <<>>
  <2>1. TurnOpenInQueue
    BY <1>5 DEF OrderCtx, OrderInv, SpokenInv
  <2>2. PendingBlocked
    BY <1>5, OrderFacts DEF PendingBlocked
  <2>3. CASE seg.kind = "speech"
    <3>1. ~(seg.kind = "end") /\ ~(seg.kind = "start") /\ (Event(seg) = "end") = (seg.kind = "end")
      BY <1>1, <2>3
    <3>. QED
      BY <1>1, <2>1, <2>2, <2>3, <3>1 DEF HandleSegment, QueueSegment, FeedSegment
  <2>4. CASE seg.kind = "end"
    <3>1. ~(seg.kind = "start") /\ (Event(seg) = "end") = (seg.kind = "end")
      BY <1>1, <2>4
    <3>. QED
      BY <1>1, <2>1, <2>2, <2>4, <3>1 DEF HandleSegment, QueueSegment, FeedSegment
  <2>. QED
    BY <1>5, <2>3, <2>4
<1>6. CASE seg.kind \in {"speech", "end"} /\ state.pending = <<>>
  <2>1. state.active /\ ~EndLatched
    BY <1>6 DEF OrderCtx, OrderInv, SpokenInv
  <2>2. ~PendingBlocked
    BY <1>6, <2>1, OrderFacts
    DEF PendingBlocked, EndLatched, CalmInv, OutInv, DrainInv, OrderCtx, OrderInv, EndedInv
  <2>. QED
    BY <1>1, <1>6, <2>1, <2>2 DEF HandleSegment, QueueSegment, FeedSegment
<1>. QED
  BY <1>2, <1>3, <1>4, <1>5, <1>6

LEMMA AudioOrder ==
    ASSUME OrderCtx, NEW seg \in Segments, ReceiveAudio(seg)
    PROVE  OrderInv'
<1>1. /\ disp.pc = "receive" /\ HandleSegment(seg) /\ UNCHANGED <<deployment, out, fin, finals, mgr, heard>>
      /\ mic.talking <=> seg.kind \in {"speech", "end"}
      /\ mic'.talking <=> seg.kind \in {"start", "speech"}
      /\ mic'.utt = IF seg.kind = "start" THEN mic.utt + 1 ELSE mic.utt
      /\ seg.kind # "silence" => seg.utt = mic'.utt
  BY SpokenCases
<1>2. UNCHANGED <<jobs, history>>
  BY <1>1, SegmentPaths
<1>3. FinalsInOrder'
  BY <1>1 DEF OrderCtx, OrderInv, FinalsInOrder
<1>4. mic.utt \in Nat /\ Len(finals) \in Nat /\ Len(state.pending) \in Nat
  BY OrderFacts
<1>5. CASE /\ seg.kind = "start" /\ disp'.pc \in {"queue", "announce"} /\ disp'.seg = seg /\ UNCHANGED state
           /\ disp'.pc = "announce" => SendAs("disp")
  <2>1. NumberInv'
    <3>1. Arriving = 0 /\ Arriving' = 1
      BY <1>1, <1>5 DEF Arriving
    <3>2. Before' = Before /\ Before \in Nat
      BY <1>1, <1>4, <1>5 DEF Before, ActiveTurns
    <3>. QED
      BY <1>1, <1>4, <1>5, <3>1, <3>2 DEF OrderCtx, OrderInv, NumberInv
  <2>2. PeaceInv' /\ SegmentInv' /\ SpokenInv'
    BY <1>1, <1>2, <1>5 DEF OrderCtx, OrderInv, PeaceInv, SegmentInv, SpokenInv, EndLatched, Draining
  <2>3. disp'.pc = "announce" /\ out.pc = "emitting" => sends' = <<"out", "disp">>
    BY <1>1, <1>5, OrderFacts, DispQueues DEF CalmInv
  <2>4. EndedInv' /\ HeardInv'
    BY <1>1, <1>5, <2>3 DEF OrderCtx, OrderInv, EndedInv, HeardInv, EndLatched
  <2>. QED
    BY <1>3, <2>1, <2>2, <2>4 DEF OrderInv
<1>6. CASE /\ seg.kind \in {"speech", "end"} /\ TurnOpenInQueue
           /\ state' = [state EXCEPT !.pending[Len(state.pending)].ended = seg.kind = "end"]
           /\ disp' = [pc |-> IF seg.kind = "end" THEN "notify" ELSE "receive", seg |-> seg]
  <2>. DEFINE n == Len(state.pending)
  <2>1. state.pending \in Seq(Turns) /\ state.pending # <<>> /\ n \in 1 .. n /\ state.pending[n] \in Turns
    BY <1>6, OrderFacts, EmptySeq, LenProperties, ElementOfSeq DEF TurnOpenInQueue
  <2>. DEFINE turn == [state.pending[n] EXCEPT !.ended = seg.kind = "end"]
  <2>2. turn \in Turns /\ turn.utt = state.pending[n].utt /\ (turn.ended <=> seg.kind = "end")
    BY <2>1 DEF Turns
  <2>3. /\ state'.pending = [state.pending EXCEPT ![n] = turn]
        /\ state'.active = state.active /\ state'.endpoint = state.endpoint /\ state'.gen = state.gen
        /\ state'.closed = state.closed /\ state'.clientClosed = state.clientClosed
    BY <1>6, OrderFacts DEF SessionState
  <2>. HIDE DEF turn
  <2>4. /\ Len(state'.pending) = n /\ state'.pending[n] = turn /\ state'.pending # <<>>
        /\ \A i \in 1 .. n : state'.pending[i].utt = state.pending[i].utt
    <3>1. /\ [state.pending EXCEPT ![n] = turn] \in Seq(Turns)
          /\ Len([state.pending EXCEPT ![n] = turn]) = n
          /\ \A i \in 1 .. n : [state.pending EXCEPT ![n] = turn][i] = IF i = n THEN turn ELSE state.pending[i]
      BY <2>1, <2>2, ExceptSeq
    <3>. QED
      BY <2>1, <2>2, <2>3, <3>1, EmptySeq
  <2>5. NumberInv'
    <3>1. Arriving = 0 /\ Arriving' = 0
      BY <1>1, <1>6 DEF Arriving
    <3>2. Before' = Before
      BY <1>1, <2>3 DEF Before, ActiveTurns
    <3>. QED
      BY <1>1, <1>6, <2>3, <2>4, <3>1, <3>2 DEF OrderCtx, OrderInv, NumberInv
  <2>6. PeaceInv' /\ SegmentInv'
    BY <1>1, <1>2, <1>6, <2>3 DEF OrderCtx, OrderInv, PeaceInv, SegmentInv
  <2>7. SpokenInv'
    <3>1. ~(state.active /\ ~EndLatched /\ ~Draining)
      BY <2>1 DEF OrderCtx, OrderInv, SpokenInv
    <3>2. disp'.pc = "receive" => TurnOpenInQueue'
      BY <1>6, <2>2, <2>4 DEF TurnOpenInQueue
    <3>. QED
      BY <1>1, <1>6, <2>3, <2>4, <3>1, <3>2 DEF SpokenInv, EndLatched, Draining
  <2>8. EndedInv' /\ HeardInv'
    BY <1>1, <1>6, <2>3 DEF OrderCtx, OrderInv, EndedInv, HeardInv, EndLatched
  <2>. QED
    BY <1>3, <2>5, <2>6, <2>7, <2>8 DEF OrderInv
<1>7. CASE \/ /\ seg.kind \in {"speech", "end"} /\ state.active /\ state.pending = <<>> /\ ~EndLatched
              /\ disp'.pc = "feeding" /\ disp'.seg = seg /\ UNCHANGED state
           \/ /\ seg.kind = "silence" /\ disp'.pc = "receive" /\ disp'.seg = seg /\ UNCHANGED state
  <2>1. NumberInv'
    <3>1. Arriving = 0 /\ Arriving' = 0
      BY <1>1, <1>7 DEF Arriving
    <3>2. Before' = Before
      BY <1>1, <1>7 DEF Before, ActiveTurns
    <3>. QED
      BY <1>1, <1>7, <3>1, <3>2 DEF OrderCtx, OrderInv, NumberInv
  <2>2. PeaceInv' /\ SegmentInv'
    BY <1>1, <1>2, <1>7 DEF OrderCtx, OrderInv, PeaceInv, SegmentInv
  <2>3. SpokenInv'
    BY <1>1, <1>7 DEF OrderCtx, OrderInv, SpokenInv, EndLatched, Draining
  <2>4. EndedInv' /\ HeardInv'
    BY <1>1, <1>7 DEF OrderCtx, OrderInv, EndedInv, HeardInv, EndLatched
  <2>. QED
    BY <1>3, <2>1, <2>2, <2>3, <2>4 DEF OrderInv
<1>. QED
  BY <1>1, <1>5, <1>6, <1>7, SegmentPaths

LEMMA QueueOrder ==
    ASSUME OrderCtx, QueueTurn
    PROVE  OrderInv'
<1>. DEFINE turn == [utt |-> disp.seg.utt, ended |-> FALSE]
            n == Len(state.pending)
<1>1. /\ Sent("disp") /\ state' = [state EXCEPT !.pending = Append(@, turn)] /\ disp.pc = "queue"
      /\ disp' = [disp EXCEPT !.pc = "receive"]
      /\ UNCHANGED <<deployment, mic, jobs, out, fin, finals, mgr, heard, history>>
  BY OrderFacts DEF QueueTurn, world, outVars, asrVars
<1>2. turn \in Turns /\ state.pending \in Seq(Turns) /\ state \in SessionState
  BY OrderFacts DEF DispTask, Segments, Turns
<1>3. /\ state'.pending = Append(state.pending, turn)
      /\ state'.active = state.active /\ state'.gen = state.gen /\ state'.endpoint = state.endpoint
      /\ state'.closed = state.closed /\ state'.clientClosed = state.clientClosed
      /\ disp'.pc = "receive"
  BY <1>1, <1>2, OrderFacts DEF SessionState, DispTask
<1>4. /\ n \in Nat /\ Len(state'.pending) = n + 1 /\ state'.pending # <<>>
      /\ \A i \in 1 .. n : state'.pending[i] = state.pending[i]
      /\ state'.pending[n + 1] = turn
  BY <1>2, <1>3, AppendProperties, LenProperties
<1>5. disp.seg.kind = "start" /\ disp.seg.utt = mic.utt
  BY <1>1, OrderFacts DEF CalmInv, MicInv, OrderCtx, OrderInv, SegmentInv
<1>6. PeaceInv' /\ SegmentInv' /\ FinalsInOrder'
  BY <1>1, <1>3 DEF OrderCtx, OrderInv, PeaceInv, SegmentInv, FinalsInOrder
<1>7. NumberInv'
  <2>1. Before' = Before /\ Arriving = 1 /\ Arriving' = 0 /\ Before \in Nat
    BY <1>1, <1>3, OrderFacts DEF Before, ActiveTurns, Arriving
  <2>2. mic.utt = Before + n + 1 /\ \A i \in 1 .. n : state.pending[i].utt = Before + i
    BY <2>1 DEF OrderCtx, OrderInv, NumberInv
  <2>3. turn.utt = Before + (n + 1)
    BY <1>4, <1>5, <2>1, <2>2
  <2>. HIDE DEF n, turn
  <2>4. \A i \in 1 .. n + 1 : state'.pending[i].utt = Before + i
    BY <1>4, <2>2, <2>3
  <2>5. mic'.utt = Before' + Len(state'.pending) + Arriving'
    BY <1>1, <1>4, <2>1, <2>2
  <2>6. \A i \in 1 .. Len(state'.pending) : state'.pending[i].utt = Before' + i
    BY <1>4, <2>1, <2>4
  <2>. QED
    BY <2>5, <2>6 DEF NumberInv
<1>8. SpokenInv'
  <2>1. TurnOpenInQueue'
    BY <1>4 DEF TurnOpenInQueue
  <2>. QED
    BY <1>1, <1>3, <1>4, <2>1 DEF OrderCtx, OrderInv, SpokenInv, EndLatched, Draining
<1>9. EndedInv' /\ HeardInv'
  BY <1>1, <1>3 DEF OrderCtx, OrderInv, EndedInv, HeardInv, EndLatched
<1>. QED
  BY <1>6, <1>7, <1>8, <1>9 DEF OrderInv

LEMMA StartOrder ==
    ASSUME OrderCtx, StartTurn
    PROVE  OrderInv'
<1>1. /\ disp.pc = "announce" /\ Sent("disp") /\ disp'.pc = "opening" /\ disp'.seg = disp.seg
      /\ UNCHANGED <<deployment, mic, state, jobs, out, fin, finals, mgr, heard, history>>
  BY OrderFacts DEF StartTurn, DispTask, world, outVars, asrVars
<1>2. out.pc # "emitting"
  BY <1>1, SendFacts DEF Sent, OrderCtx, OrderInv, EndedInv
<1>3. PeaceInv' /\ SegmentInv' /\ FinalsInOrder'
  BY <1>1 DEF OrderCtx, OrderInv, PeaceInv, SegmentInv, FinalsInOrder
<1>4. NumberInv'
  <2>1. Before' = Before /\ Arriving' = Arriving
    BY <1>1 DEF Before, ActiveTurns, Arriving
  <2>. QED
    BY <1>1, <2>1 DEF OrderCtx, OrderInv, NumberInv
<1>5. SpokenInv' /\ EndedInv' /\ HeardInv'
  BY <1>1, <1>2 DEF OrderCtx, OrderInv, SpokenInv, EndedInv, HeardInv, EndLatched, Draining
<1>. QED
  BY <1>3, <1>4, <1>5 DEF OrderInv

LEMMA OpenOrder ==
    ASSUME OrderCtx, OpenTurn
    PROVE  OrderInv'
<1>1. /\ disp.pc = "opening" /\ disp'.pc = "feeding" /\ disp'.seg = disp.seg
      /\ UNCHANGED <<deployment, mic, out, fin, finals, heard>>
      /\ jobs'.cancel = jobs.cancel /\ history'.astray = history.astray
  BY OrderFacts DEF OpenTurn, DispTask, Answered, TypeInv, TypeOK, world, outVars
<1>2. mgr.gen + 1 \in Generations /\ mgr'.gen = mgr.gen + 1 /\ mgr.gen \in Nat
  BY OrderFacts, BoundsAssumption DEF OpenTurn, OnSpeechStart, TypeInv, TypeOK, Generations
<1>3. state.pending = <<>> /\ ~Draining /\ ~EndLatched /\ ~state.active
  BY <1>1, OrderFacts DEF CalmInv, DispInv, OrderCtx, OrderInv, SpokenInv
<1>4. /\ state'.active /\ state'.gen = mgr.gen + 1 /\ state'.pending = state.pending /\ ~EndLatched'
      /\ state'.closed = state.closed /\ state'.clientClosed = state.clientClosed
  BY OrderFacts DEF OpenTurn, SessionState, NoEndpoint, EndLatched
<1>5. out.pc # "emitting" /\ out.pc \notin {"fired", "preparing", "finalizing", "refeeding"}
  BY <1>1, <1>3 DEF OrderCtx, OrderInv, EndedInv, Draining
<1>6. disp.seg.kind = "start" /\ disp.seg.utt = mic.utt /\ mic.talking
  BY <1>1, OrderFacts DEF CalmInv, MicInv, OrderCtx, OrderInv, SegmentInv
<1>7. PeaceInv' /\ SegmentInv' /\ FinalsInOrder'
  BY <1>1, <1>4, <1>6 DEF OrderCtx, OrderInv, PeaceInv, SegmentInv, FinalsInOrder
<1>8. NumberInv'
  <2>1. Before' = Before + 1 /\ Before \in Nat /\ Arriving = 1 /\ Arriving' = 0
    BY <1>1, <1>3, <1>4, <1>5, OrderFacts DEF Before, ActiveTurns, Arriving
  <2>2. Len(state.pending) = 0
    BY <1>3
  <2>. QED
    BY <1>1, <1>4, <2>1, <2>2 DEF OrderCtx, OrderInv, NumberInv
<1>9. SpokenInv' /\ EndedInv'
  BY <1>1, <1>3, <1>4, <1>5, <1>6 DEF SpokenInv, EndedInv
<1>10. HeardInv'
  BY <1>1, <1>2, <1>4, <1>6 DEF OrderCtx, OrderInv, HeardInv, Generations
<1>. QED
  BY <1>7, <1>8, <1>9, <1>10 DEF OrderInv

LEMMA FeedOrder ==
    ASSUME OrderCtx, FeedTurn
    PROVE  OrderInv'
<1>. DEFINE n == Len(finals)
<1>1. /\ disp.pc = "feeding" /\ heard' = FedWith(disp.seg.utt)
      /\ UNCHANGED <<deployment, mic, out, fin, finals, mgr>>
  BY DEF FeedTurn, world, outVars
<1>2. state.active /\ ~Draining /\ ~EndLatched /\ state.pending = <<>>
  BY <1>1, OrderFacts DEF CalmInv, DispInv, OrderCtx, OrderInv, EndedInv
<1>3. mgr.st = "ACTIVE" /\ state.gen = mgr.gen /\ state.gen \in Generations
  <2>1. out.pc # "finalizing"
    BY <1>1, OrderFacts DEF CalmInv, DispInv
  <2>. QED
    BY <1>2, <2>1, OrderFacts, BoundsAssumption DEF CalmInv, ActiveInv, SessionState, Generations
<1>4. mic.talking \/ disp.seg.kind = "end"
  BY <1>1, <1>2 DEF OrderCtx, OrderInv, SpokenInv
<1>5. mic.talking <=> disp.seg.kind \in {"start", "speech"}
  BY <1>1, OrderFacts DEF CalmInv, MicInv
<1>6. n \in Nat /\ mic.utt = n + 1
  <2>1. Before = n + 1 /\ Arriving = 0 /\ Len(state.pending) = 0 /\ n \in Nat
    BY <1>1, <1>2, OrderFacts DEF Before, ActiveTurns, Arriving, Draining
  <2>. QED
    BY <2>1 DEF OrderCtx, OrderInv, NumberInv
<1>7. disp.seg.utt = n + 1
  BY <1>1, <1>4, <1>5, <1>6 DEF OrderCtx, OrderInv, SegmentInv
<1>8. heard' = [heard EXCEPT ![mgr.gen] = @ \cup {n + 1}]
  BY <1>1, <1>3, <1>6, <1>7 DEF FedWith
<1>9. heard'[state.gen] = {n + 1} /\ \A g \in Generations : g > mgr.gen => heard'[g] = {}
  <2>1. heard[state.gen] = {} \/ heard[state.gen] = {n + 1}
    BY <1>2 DEF OrderCtx, OrderInv, HeardInv
  <2>2. \A g \in Generations : g > mgr.gen => heard[g] = {} /\ g # mgr.gen
    BY OrderFacts, BoundsAssumption DEF OrderCtx, OrderInv, HeardInv, Generations, TypeInv, TypeOK
  <2>3. heard \in [Generations -> SUBSET Utterances]
    BY OrderFacts DEF TypeInv, TypeOK
  <2>. HIDE DEF n
  <2>. QED
    BY <1>3, <1>8, <2>1, <2>2, <2>3
<1>10. /\ state'.active /\ state'.pending = <<>> /\ state'.gen = state.gen
       /\ ~state'.closed /\ ~state'.clientClosed /\ jobs'.cancel = jobs.cancel /\ ~history'.astray
       /\ \/ disp.seg.kind = "end" /\ disp'.pc = "notify" /\ EndLatched'
          \/ disp.seg.kind # "end" /\ disp'.pc = "receive" /\ ~EndLatched'
  <2>1. Event(disp.seg) = "end" <=> disp.seg.kind = "end"
    BY OrderFacts DEF Event
  <2>2. ~state.closed /\ ~state.clientClosed /\ ~history.astray
    BY DEF OrderCtx, OrderInv, PeaceInv
  <2>3. CASE disp.seg.kind # "end"
    BY <1>2, <2>1, <2>2, <2>3, OrderFacts DEF FeedTurn, DispTask, EndLatched
  <2>4. CASE disp.seg.kind = "end"
    <3>1. /\ state' = [state EXCEPT !.endpoint = [by |-> "vad", gen |-> state.gen], !.closed = @ \/ ~Multi]
          /\ jobs' = Prepared(state) /\ Latched /\ disp' = [disp EXCEPT !.pc = "notify"]
      BY <2>1, <2>4, OrderFacts DEF FeedTurn, LatchEnd
    <3>2. ~history'.astray
      BY <1>2, <2>2, <3>1 DEF Latched
    <3>3. jobs'.cancel = jobs.cancel /\ disp'.pc = "notify"
      BY <3>1, OrderFacts DEF Prepared, TypeInv, TypeOK, DispTask
    <3>. QED
      BY <1>2, <2>2, <2>4, <3>1, <3>2, <3>3, OrderFacts DEF SessionState, EndLatched
  <2>. QED
    BY <2>3, <2>4
<1>11. PeaceInv' /\ SegmentInv' /\ FinalsInOrder'
  BY <1>1, <1>10 DEF OrderCtx, OrderInv, PeaceInv, SegmentInv, FinalsInOrder
<1>12. NumberInv'
  <2>1. Before' = n + 1 /\ Arriving' = 0 /\ Len(state'.pending) = 0
    BY <1>1, <1>2, <1>10, OrderFacts DEF Before, ActiveTurns, Arriving, Draining
  <2>. QED
    BY <1>1, <1>6, <2>1 DEF NumberInv
<1>13. SpokenInv'
  BY <1>1, <1>4, <1>5, <1>10 DEF SpokenInv
<1>14. EndedInv'
  BY <1>1, <1>2, <1>10, OrderFacts DEF CalmInv, DispInv, OrderCtx, OrderInv, EndedInv, Draining
<1>15. HeardInv'
  <2>1. out.pc # "refeeding"
    BY <1>2 DEF Draining
  <2>. QED
    BY <1>1, <1>9, <1>10, <2>1 DEF HeardInv
<1>. QED
  BY <1>11, <1>12, <1>13, <1>14, <1>15 DEF OrderInv

LEMMA NotifiedOrder ==
    ASSUME OrderCtx, Notified
    PROVE  OrderInv'
<1>1. /\ disp.pc = "notify" /\ disp'.pc = "receive" /\ ~mic.talking
      /\ UNCHANGED <<deployment, mic, state, jobs, out, fin, finals, mgr, heard, history>>
  BY OrderFacts DEF Notified, DispTask, world, outVars, asrVars, OrderCtx, OrderInv, SpokenInv
<1>2. PeaceInv' /\ SegmentInv' /\ FinalsInOrder'
  BY <1>1 DEF OrderCtx, OrderInv, PeaceInv, SegmentInv, FinalsInOrder
<1>3. NumberInv'
  <2>1. Before' = Before /\ Arriving' = Arriving
    BY <1>1 DEF Before, ActiveTurns, Arriving
  <2>. QED
    BY <1>1, <2>1 DEF OrderCtx, OrderInv, NumberInv
<1>4. SpokenInv' /\ EndedInv' /\ HeardInv'
  BY <1>1 DEF OrderCtx, OrderInv, SpokenInv, EndedInv, HeardInv, EndLatched, Draining
<1>. QED
  BY <1>2, <1>3, <1>4 DEF OrderInv

LEMMA RefeedOrder ==
    ASSUME OrderCtx, RefeedTurn
    PROVE  OrderInv'
<1>. DEFINE latched == IF DetachedTurn.ended THEN [state EXCEPT !.endpoint = [by |-> "vad", gen |-> out.gen]]
                                             ELSE state
            s == [latched EXCEPT !.pending = Tail(@), !.draining = FALSE]
            n == Len(finals)
            k == Len(state.pending)
<1>1. /\ state.pending # <<>> /\ state.pending \in Seq(Turns) /\ state \in SessionState
      /\ out.turn.utt = Head(state.pending).utt
      /\ DetachedTurn = Head(state.pending) /\ state.active /\ state.gen = out.gen /\ out.pc = "refeeding"
  BY OrderFacts DEF RefeedTurn, CalmInv, DrainInv, Draining, DetachedTurn
<1>2. ~EndLatched /\ ~state.closed /\ ~history.astray /\ ~state.clientClosed
  BY <1>1 DEF OrderCtx, OrderInv, EndedInv, PeaceInv
<1>3. /\ state' = s /\ out' = [out EXCEPT !.pc = LoopOrReturn(s), !.turn = NoTurn]
      /\ UNCHANGED <<deployment, mic, disp, fin, finals, sends, mgr>>
      /\ jobs' = IF DetachedTurn.ended THEN Prepared(state) ELSE jobs
      /\ heard' = FedWith(out.turn.utt)
      /\ history'.astray = (history.astray \/ state.pending = <<>>)
  BY <1>1 DEF RefeedTurn, world
<1>4. /\ s.pending = Tail(state.pending) /\ s.active /\ s.gen = state.gen
      /\ ~s.closed /\ ~s.clientClosed
      /\ s.endpoint = IF Head(state.pending).ended THEN [by |-> "vad", gen |-> state.gen] ELSE state.endpoint
  BY <1>1, <1>2 DEF SessionState
<1>. HIDE DEF s
<1>5. /\ state'.pending = Tail(state.pending) /\ state'.active /\ state'.gen = state.gen
      /\ ~state'.closed /\ ~state'.clientClosed
      /\ EndLatched' <=> Head(state.pending).ended
  BY <1>2, <1>3, <1>4 DEF EndLatched
<1>6. out'.pc = "loop" /\ jobs'.cancel = jobs.cancel /\ ~history'.astray
  <2>1. out'.pc = "loop"
    BY <1>3, <1>4, OrderFacts DEF LoopOrReturn, OutTask
  <2>2. jobs'.cancel = jobs.cancel
    BY <1>3, OrderFacts DEF Prepared, TypeInv, TypeOK
  <2>. QED
    BY <1>1, <1>2, <1>3, <2>1, <2>2
<1>7. /\ k \in Nat \ {0} /\ Head(state.pending) = state.pending[1]
      /\ Len(state'.pending) = k - 1 /\ \A i \in 1 .. k - 1 : state'.pending[i] = state.pending[i + 1]
      /\ state'.pending = <<>> <=> k = 1
  <2>1. k \in Nat /\ k # 0 /\ Head(state.pending) = state.pending[1]
    BY <1>1, EmptySeq, LenProperties
  <2>2. /\ Tail(state.pending) \in Seq(Turns) /\ Len(Tail(state.pending)) = k - 1
        /\ \A i \in 1 .. k - 1 : Tail(state.pending)[i] = state.pending[i + 1]
    BY <1>1, HeadTailProperties
  <2>. HIDE DEF k
  <2>3. Tail(state.pending) = <<>> <=> k = 1
    <3>1. Tail(state.pending) = <<>> <=> Len(Tail(state.pending)) = 0
      BY <2>2, EmptySeq
    <3>2. Len(Tail(state.pending)) = k - 1
      BY <2>2
    <3>3. k - 1 = 0 <=> k = 1
      BY <2>1
    <3>. QED
      BY <3>1, <3>2, <3>3
  <2>. QED
    BY <1>5, <2>1, <2>2, <2>3
<1>8. /\ n \in Nat /\ Before = n /\ Before' = n + 1 /\ Arriving' = Arriving
  BY <1>1, <1>3, <1>5, <1>6, OrderFacts DEF Before, ActiveTurns, Arriving
<1>9. out.turn.utt = n + 1
  BY <1>1, <1>7, <1>8 DEF OrderCtx, OrderInv, NumberInv
<1>10. mgr.st = "ACTIVE" /\ state.gen = mgr.gen /\ state.gen \in Generations
  BY <1>1, OrderFacts, BoundsAssumption DEF CalmInv, ActiveInv, SessionState, Generations
<1>. HIDE DEF n, k
<1>11. heard'[state.gen] = {n + 1} /\ \A g \in Generations : g > mgr.gen => heard'[g] = {}
  <2>1. heard' = [heard EXCEPT ![mgr.gen] = @ \cup {n + 1}]
    BY <1>3, <1>8, <1>9, <1>10 DEF FedWith
  <2>2. heard[state.gen] = {}
    BY <1>1 DEF OrderCtx, OrderInv, HeardInv
  <2>3. \A g \in Generations : g > mgr.gen => heard[g] = {} /\ g # mgr.gen
    BY OrderFacts, BoundsAssumption DEF OrderCtx, OrderInv, HeardInv, Generations, TypeInv, TypeOK
  <2>4. heard \in [Generations -> SUBSET Utterances]
    BY OrderFacts DEF TypeInv, TypeOK
  <2>. QED
    BY <1>10, <2>1, <2>2, <2>3, <2>4
<1>12. PeaceInv' /\ SegmentInv' /\ FinalsInOrder'
  BY <1>3, <1>5, <1>6 DEF OrderCtx, OrderInv, PeaceInv, SegmentInv, FinalsInOrder
<1>13. NumberInv'
  <2>1. Arriving \in Nat
    BY DEF Arriving
  <2>2. mic.utt = n + k + Arriving /\ \A i \in 1 .. k : state.pending[i].utt = n + i
    BY <1>8 DEF OrderCtx, OrderInv, NumberInv, k
  <2>3. ASSUME NEW i \in 1 .. k - 1 PROVE state'.pending[i].utt = n + 1 + i
    <3>1. i + 1 \in 1 .. k /\ state'.pending[i] = state.pending[i + 1]
      BY <1>7
    <3>2. state.pending[i + 1].utt = n + (i + 1)
      BY <2>2, <3>1
    <3>. QED
      BY <1>7, <1>8, <3>1, <3>2
  <2>4. mic.utt = (n + 1) + (k - 1) + Arriving
    BY <1>7, <1>8, <2>1, <2>2
  <2>. QED
    BY <1>3, <1>7, <1>8, <2>3, <2>4 DEF NumberInv
<1>14. SpokenInv'
  <2>1. disp.pc = "receive" /\ mic.talking => ~state.pending[k].ended
    BY <1>1 DEF OrderCtx, OrderInv, SpokenInv, TurnOpenInQueue, k
  <2>2. disp.pc = "receive" /\ mic.talking =>
          IF k # 1 THEN TurnOpenInQueue' ELSE ~EndLatched'
    <3>1. k # 1 => k - 1 \in 1 .. k - 1 /\ state'.pending[k - 1] = state.pending[k]
      BY <1>7
    <3>. QED
      BY <1>5, <1>7, <2>1, <3>1 DEF TurnOpenInQueue
  <2>3. ~EndLatched' => k = 1 /\ TurnOpenInQueue
    <3>1. ASSUME ~state.pending[1].ended PROVE k = 1
      BY <1>7, <3>1, OrderFacts DEF CalmInv, QueueInv, k
    <3>. QED
      BY <1>1, <1>5, <1>7, <3>1 DEF TurnOpenInQueue, k
  <2>4. ~EndLatched' => disp.pc = "receive" /\ mic.talking
    <3>1. TurnOpenInQueue => mic.talking /\ disp.pc # "queue"
      BY OrderFacts DEF CalmInv, QueueInv
    <3>2. disp.pc \notin {"announce", "opening", "feeding"}
      BY <1>1, OrderFacts DEF CalmInv, DispInv
    <3>. QED
      BY <2>3, <3>1, <3>2 DEF OrderCtx, OrderInv, PeaceInv, SpokenInv
  <2>. QED
    BY <1>3, <1>5, <1>7, <2>2, <2>3, <2>4 DEF OrderCtx, OrderInv, SpokenInv
<1>15. EndedInv'
  BY <1>3, <1>5, <1>6 DEF OrderCtx, OrderInv, EndedInv
<1>16. HeardInv'
  <2>1. disp.pc # "feeding"
    BY <1>1, OrderFacts DEF CalmInv, DispInv
  <2>. QED
    BY <1>3, <1>5, <1>6, <1>11, <2>1 DEF HeardInv, n
<1>. QED
  BY <1>12, <1>13, <1>14, <1>15, <1>16 DEF OrderInv

LEMMA OrderStep ==
    ASSUME SessionInv, Undisturbed => OrderInv, [Next]_vars
    PROVE  (Undisturbed => OrderInv)'
<1>. SUFFICES ASSUME Undisturbed' PROVE OrderInv'
  OBVIOUS
<1>1. Undisturbed
  BY Storm DEF SessionInv, Undisturbed, Multi
<1>2. OrderCtx
  BY <1>1 DEF OrderCtx
<1>. QED
  BY <1>2, NeverDisturbed, QuietOrder, JudgeOrder, PrepareOrder, AcceptedOrder, SentOrder, ReopenOrder,
     AudioOrder, QueueOrder, StartOrder, OpenOrder, FeedOrder, NotifiedOrder, RefeedOrder
  DEF Next, Dispatch, AsrOut

LEMMA OrderInit ==
    ASSUME Init
    PROVE  OrderInv
  BY DEF Init, NoEndpoint, NoSegment, OrderInv, PeaceInv, NumberInv, SegmentInv, SpokenInv, EndedInv, HeardInv,
     FinalsInOrder, Before, ActiveTurns, Arriving, EndLatched, Generations

(* Turns that queue behind a final (pending_turns) are neither lost, merged *)
(* nor overtaken: while nothing aborts or fails, the i-th final is the       *)
(* transcript of the i-th utterance and of nothing else, however many       *)
(* utterances queue while an older one is finalized.                        *)
THEOREM OrderedFinals == Spec => []FinalsInOrder
<1>1. (Undisturbed => OrderInv) => FinalsInOrder
  BY DEF OrderInv, FinalsInOrder
<1>. QED
  BY <1>1, SessionInit, SessionStep, OrderInit, OrderStep, PTL DEF Spec

(***************************************************************************)
(* send_lock                                                               *)
(***************************************************************************)
DispSends == disp.pc \in {"announce", "queue", "notify", "refused", "jammed"}
OutSends == out.pc \in {"fired", "emitting", "failing", "expired"}

(* send_lock is held or awaited by exactly the tasks that are sending.      *)
LockInv ==
    /\ DispSends /\ OutSends => sends \in {<<"disp", "out">>, <<"out", "disp">>}
    /\ DispSends /\ ~OutSends => sends = <<"disp">>
    /\ ~DispSends /\ OutSends => sends = <<"out">>
    /\ ~DispSends /\ ~OutSends => sends = <<>>

(* The ways a step may deal with the lock. *)
LockFree == UNCHANGED sends /\ (DispSends' <=> DispSends) /\ (OutSends' <=> OutSends)
DispLocks == SendAs("disp") /\ ~DispSends /\ DispSends' /\ (OutSends' <=> OutSends)
DispUnlocks == Sent("disp") /\ ~DispSends' /\ (OutSends' <=> OutSends)
OutLocks == SendAs("out") /\ ~OutSends /\ OutSends' /\ (DispSends' <=> DispSends)
OutUnlocks == Sent("out") /\ ~OutSends' /\ (DispSends' <=> DispSends)
SendsAgain(task) ==
    /\ sends # <<>> /\ Head(sends) = task /\ sends' = Append(Tail(sends), task)
    /\ (DispSends' <=> DispSends) /\ (OutSends' <=> OutSends)

LEMMA LockKeeps ==
    ASSUME LockInv,
           \/ LockFree \/ DispLocks \/ DispUnlocks \/ OutLocks \/ OutUnlocks
           \/ SendsAgain("disp") \/ SendsAgain("out")
    PROVE  LockInv'
<1>1. CASE LockFree
  BY <1>1 DEF LockFree, LockInv
<1>2. CASE DispLocks
  BY <1>2, SendFacts DEF DispLocks, SendAs, LockInv
<1>3. CASE DispUnlocks
  BY <1>3, SendFacts DEF DispUnlocks, Sent, LockInv
<1>4. CASE OutLocks
  BY <1>4, SendFacts DEF OutLocks, SendAs, LockInv
<1>5. CASE OutUnlocks
  BY <1>5, SendFacts DEF OutUnlocks, Sent, LockInv
<1>6. CASE SendsAgain("disp")
  BY <1>6, SendFacts DEF SendsAgain, LockInv
<1>7. CASE SendsAgain("out")
  BY <1>7, SendFacts DEF SendsAgain, LockInv
<1>. QED
  BY <1>1, <1>2, <1>3, <1>4, <1>5, <1>6, <1>7

LEMMA SegmentLocks ==
    ASSUME TypeInv, NEW seg \in Segments, HandleSegment(seg), ~DispSends, UNCHANGED out
    PROVE  LockFree \/ DispLocks
<1>. DEFINE Waits == disp'.pc \in {"receive", "opening", "feeding"} /\ UNCHANGED sends
            Speaks == disp'.pc \in {"announce", "queue", "notify"} /\ SendAs("disp")
<1>0. disp \in DispTask
  BY DEF TypeInv, TypeOK
<1>1. QueueSegment(seg) => Waits \/ Speaks
  <2>. SUFFICES ASSUME QueueSegment(seg) PROVE Waits \/ Speaks
    OBVIOUS
  <2>1. CASE RejectPending
    BY <1>0, <2>1 DEF RejectPending, DispTask
  <2>2. CASE disp' = [pc |-> "queue", seg |-> seg] /\ SendAs("disp")
    BY <2>2
  <2>3. CASE IF Event(seg) = "end"
             THEN disp' = [pc |-> "notify", seg |-> seg] /\ SendAs("disp")
             ELSE disp' = [pc |-> "receive", seg |-> seg] /\ UNCHANGED sends
    BY <2>3
  <2>. QED
    BY <2>1, <2>2, <2>3 DEF QueueSegment
<1>2. FeedSegment(seg) => Waits \/ Speaks
  <2>. SUFFICES ASSUME FeedSegment(seg) PROVE Waits \/ Speaks
    OBVIOUS
  <2>1. CASE LatchEnd
    BY <1>0, <2>1 DEF LatchEnd, DispTask
  <2>2. CASE disp' = [pc |-> "announce", seg |-> seg] /\ SendAs("disp")
    BY <2>2
  <2>3. CASE /\ \/ disp' = [pc |-> "opening", seg |-> seg] \/ disp' = [pc |-> "feeding", seg |-> seg]
                \/ disp' = [pc |-> "receive", seg |-> seg]
             /\ UNCHANGED sends
    BY <2>3
  <2>. QED
    BY <2>1, <2>2, <2>3 DEF FeedSegment
<1>3. Waits \/ Speaks
  BY <1>1, <1>2 DEF HandleSegment
<1>. QED
  BY <1>3 DEF LockFree, DispLocks, DispSends, OutSends

LEMMA DispatcherLocks ==
    ASSUME TypeInv, LockInv, Dispatch \/ JoinTimesOut \/ OpenTurnFails \/ \E seg \in Segments : ReceiveAudio(seg)
    PROVE  LockInv'
<1>. USE DEF TypeInv, TypeOK, DispTask
<1>1. ASSUME NEW seg \in Segments, ReceiveAudio(seg) PROVE LockInv'
  <2>1. ~DispSends /\ UNCHANGED out
    BY <1>1 DEF ReceiveAudio, DispSends, outVars
  <2>2. CASE HandleSegment(seg)
    BY <2>1, <2>2, SegmentLocks, LockKeeps
  <2>3. CASE disp' = [pc |-> "join", seg |-> seg] /\ UNCHANGED sends
    BY <2>1, <2>3, LockKeeps DEF LockFree, DispSends, OutSends
  <2>. QED
    BY <1>1, <2>2, <2>3 DEF ReceiveAudio
<1>2. CASE Joined
  <2>1. ~DispSends /\ UNCHANGED out /\ disp.seg \in Segments
    BY <1>2 DEF Joined, DispSends, outVars
  <2>. QED
    BY <1>2, <2>1, SegmentLocks, LockKeeps DEF Joined
<1>3. CASE JoinTimesOut \/ OpenTurnFails
  <2>1. DispLocks
    BY <1>3 DEF JoinTimesOut, OpenTurnFails, outVars, DispLocks, DispSends, OutSends
  <2>. QED
    BY <2>1, LockKeeps
<1>4. CASE JamReported \/ StartTurn \/ RefusalReported \/ Notified
  <2>1. DispUnlocks
    BY <1>4 DEF JamReported, StartTurn, RefusalReported, Notified, outVars, DispUnlocks, DispSends, OutSends
  <2>. QED
    BY <2>1, LockKeeps
<1>5. CASE QueueTurn
  <2>1. DispUnlocks \/ SendsAgain("disp")
    BY <1>5 DEF QueueTurn, outVars, DispUnlocks, SendsAgain, DispSends, OutSends
  <2>. QED
    BY <2>1, LockKeeps
<1>6. CASE OpenTurn
  <2>1. LockFree
    BY <1>6 DEF OpenTurn, outVars, LockFree, DispSends, OutSends
  <2>. QED
    BY <2>1, LockKeeps
<1>7. CASE FeedTurn
  <2>1. LockFree \/ DispLocks
    BY <1>7 DEF FeedTurn, LatchEnd, outVars, LockFree, DispLocks, DispSends, OutSends
  <2>. QED
    BY <2>1, LockKeeps
<1>. QED
  BY <1>1, <1>2, <1>3, <1>4, <1>5, <1>6, <1>7 DEF Dispatch

LEMMA FinalizeLocks ==
    ASSUME TypeInv, NEW s, FinalizeOrEmpty(s), UNCHANGED disp,
           out.pc \in {"loop", "polled"} \/ (out.pc = "fired" /\ sends # <<>> /\ Head(sends) = "out")
    PROVE  LockFree \/ OutLocks \/ OutUnlocks \/ SendsAgain("out")
<1>. USE DEF TypeInv, TypeOK, OutTask
<1>1. CASE ~s.active
  BY <1>1 DEF FinalizeOrEmpty, SendsAgain, OutLocks, SendAs, DispSends, OutSends
<1>2. CASE s.active
  <2>1. out'.pc \in {"preparing", "finalizing"} /\ sends' = IF out.pc = "fired" THEN Tail(sends) ELSE sends
    BY ZenonT(60), <1>2 DEF FinalizeOrEmpty
  <2>. QED
    BY <2>1 DEF LockFree, OutUnlocks, Sent, DispSends, OutSends
<1>. QED
  BY <1>1, <1>2

LEMMA JudgeLocks ==
    ASSUME TypeInv, LockInv, NEW end, Judge(end), out.pc \in {"loop", "polled"}
    PROVE  LockInv'
<1>. DEFINE s == LiveEndpoint(state)
            shut == [s EXCEPT !.closed = @ \/ ~Multi]
<1>1. UNCHANGED disp
  BY DEF Judge
<1>2. \/ OutGoes(LoopOrReturn(s)) /\ UNCHANGED sends
      \/ FinalizeOrEmpty(shut)
      \/ out' = [out EXCEPT !.pc = "fired", !.by = Reason, !.end = FALSE] /\ SendAs("out")
  BY DEF Judge
<1>. HIDE DEF s, shut
<1>3. CASE OutGoes(LoopOrReturn(s)) /\ UNCHANGED sends
  <2>1. out'.pc \in {"loop", "over"}
    BY <1>3 DEF OutGoes, LoopOrReturn, TypeInv, TypeOK, OutTask
  <2>2. LockFree
    BY <1>1, <1>3, <2>1 DEF LockFree, DispSends, OutSends
  <2>. QED
    BY <2>2, LockKeeps
<1>4. CASE FinalizeOrEmpty(shut)
  BY <1>1, <1>4, FinalizeLocks, LockKeeps
<1>5. CASE out' = [out EXCEPT !.pc = "fired", !.by = Reason, !.end = FALSE] /\ SendAs("out")
  <2>1. out'.pc = "fired"
    BY <1>5 DEF TypeInv, TypeOK, OutTask
  <2>2. OutLocks
    BY <1>1, <1>5, <2>1 DEF OutLocks, DispSends, OutSends
  <2>. QED
    BY <2>2, LockKeeps
<1>. QED
  BY <1>2, <1>3, <1>4, <1>5

LEMMA OutTaskLocks ==
    ASSUME TypeInv, LockInv, AsrOut \/ DeadlineExpires \/ FinalTimesOut \/ ReopenFails
    PROVE  LockInv'
<1>. USE DEF TypeInv, TypeOK, OutTask
<1>1. CASE Poll \/ DeadlineExpires \/ FinalTimesOut \/ ReopenFails \/ PrepareAwaited \/ FinalAborted \/ ReopenTurn \/ RefeedTurn
  <2>1. UNCHANGED <<disp, sends>>
    BY <1>1 DEF Poll, DeadlineExpires, FinalTimesOut, ReopenFails, PrepareAwaited, FinalAborted, ReopenTurn, RefeedTurn
  <2>2. /\ out.pc \in {"loop", "finalizing", "reopening", "preparing", "refeeding"}
        /\ out'.pc \in {"polled", "deadline", "cancelling", "giveUp", "loop", "finalizing", "refeeding", "over"}
    BY ZenonT(60), <1>1 DEF Poll, DeadlineExpires, FinalTimesOut, ReopenFails, PrepareAwaited, FinalAborted, FinalDropped,
       ReopenTurn, RefeedTurn, OutGoes, LoopOrReturn
  <2>3. LockFree
    BY <2>1, <2>2 DEF LockFree, DispSends, OutSends
  <2>. QED
    BY <2>3, LockKeeps
<1>2. CASE FinalAccepted \/ FinalRejected \/ TimedOutCancelled \/ DropExpiredTurn \/ GiveUpTurn
  <2>1. UNCHANGED disp /\ SendAs("out")
    BY <1>2 DEF FinalAccepted, FinalRejected, TimedOutCancelled, DropExpiredTurn, GiveUpTurn
  <2>2. /\ out.pc \in {"finalizing", "cancelling", "deadline", "giveUp"}
        /\ out'.pc \in {"emitting", "failing", "expired"}
    BY <1>2 DEF FinalAccepted, FinalRejected, TimedOutCancelled, FinalDropped, DropExpiredTurn, GiveUpTurn, OutGoes
  <2>3. OutLocks
    BY <2>1, <2>2 DEF OutLocks, DispSends, OutSends
  <2>. QED
    BY <2>3, LockKeeps
<1>3. CASE FailureReported \/ ExpiryReported \/ FinalSent
  <2>1. UNCHANGED disp /\ Sent("out")
    BY <1>3 DEF FailureReported, ExpiryReported, FinalSent
  <2>2. out'.pc \in {"loop", "over", "reopening"}
    BY <1>3 DEF FailureReported, ExpiryReported, FinalSent, OutGoes, LoopOrReturn
  <2>3. OutUnlocks
    BY <2>1, <2>2 DEF OutUnlocks, DispSends, OutSends
  <2>. QED
    BY <2>3, LockKeeps
<1>4. CASE EndpointSent
  BY <1>4, FinalizeLocks, LockKeeps DEF EndpointSent
<1>5. CASE JudgeIdle \/ JudgePolled
  BY <1>5, JudgeLocks DEF JudgeIdle, JudgePolled
<1>. QED
  BY <1>1, <1>2, <1>3, <1>4, <1>5 DEF AsrOut

LEMMA LockStep ==
    ASSUME TypeInv, LockInv, [Next]_vars
    PROVE  LockInv'
<1>. USE DEF TypeInv, TypeOK, OutTask
<1>1. CASE ClientEos \/ ClientPrepare \/ KeepingAbort \/ Abort
  <2>1. UNCHANGED <<disp, sends>> /\ out'.pc = out.pc
    BY <1>1 DEF ClientEos, ClientPrepare, KeepingAbort, Abort, outVars
  <2>2. LockFree
    BY <2>1 DEF LockFree, DispSends, OutSends
  <2>. QED
    BY <2>2, LockKeeps
<1>2. CASE Leave
  <2>1. sends' = <<>> /\ disp'.pc = "over" /\ out'.pc = "over"
    BY <1>2 DEF Leave, DispTask
  <2>. QED
    BY <2>1 DEF LockInv, DispSends, OutSends
<1>3. CASE FinalizeEnds \/ PrepareEnds \/ AbortCancelEnds \/ EngineFalls \/ UNCHANGED vars
  <2>1. LockFree
    BY <1>3 DEF FinalizeEnds, PrepareEnds, AbortCancelEnds, EngineFalls, outVars, vars, LockFree, DispSends, OutSends
  <2>. QED
    BY <2>1, LockKeeps
<1>. QED
  BY <1>1, <1>2, <1>3, DispatcherLocks, OutTaskLocks DEF Next

(***************************************************************************)
(* A generation is not finalized too early                                 *)
(*                                                                         *)
(* Two tasks move an utterance: the dispatcher feeds it or queues it,       *)
(* asr_out_task ends the turns and refeeds the queue.  The invariant says   *)
(* of the utterance being spoken where it is (in the dispatcher's hands, in *)
(* the active generation or in the queue) and that no end is on its way to  *)
(* the generation that has heard it.                                        *)
(***************************************************************************)
(* The sessions NotTooEarly is about. *)
Attentive == deployment.detector = "vad" /\ "eos" \notin deployment.disturb

(* An endpoint is latched for the present generation, and asr_out_task will *)
(* act on it: a drain it gives up forgets the endpoint.                    *)
Live == state.endpoint.by # "none" /\ state.endpoint.gen = state.gen
Ending == Live /\ out.pc \notin {"giveUp", "over"}
Finishing(pc) == pc \in {"fired", "preparing"}

(* The present generation has heard of utterance u. *)
Hears(u) == \E g \in Generations : g = mgr.gen /\ u \in heard[g]
Overheard == state.active /\ mic.talking /\ Hears(mic.utt)

(* Segments in the dispatcher's hands. *)
Hands == {"join", "announce", "queue", "opening", "feeding"}
Carries == disp.pc = "feeding" /\ disp.seg.kind # "end"

GenInv ==
    /\ state.gen = mgr.gen /\ out.gen <= mgr.gen /\ state.endpoint.gen <= mgr.gen
    /\ state.endpoint.by # "client_eos"
    /\ out.pc = "polled" => ~out.end

(* Nothing is known of an utterance before it is spoken, and the queue is in *)
(* the order of the utterances.                                            *)
PastInv ==
    /\ \A g \in Generations : /\ g > mgr.gen => heard[g] = {}
                              /\ \A u \in heard[g] : u <= mic.utt
    /\ \A i \in 1 .. Len(state.pending) : state.pending[i].utt <= mic.utt
    /\ \A i, j \in 1 .. Len(state.pending) : i < j => state.pending[i].utt < state.pending[j].utt
    /\ out.turn.utt <= mic.utt

(* The segment at hand is the last one spoken.  The start of an utterance    *)
(* is the first anybody hears of it, and speech that is not queued found    *)
(* the queue empty.                                                        *)
HandInv ==
    /\ disp.pc \in Hands =>
         /\ disp.seg.utt <= mic.utt
         /\ disp.seg.kind \in {"start", "speech"} => disp.seg.utt = mic.utt /\ mic.talking
         /\ disp.seg.kind \in {"end", "silence"} => ~mic.talking
    /\ disp.pc \in {"announce", "queue", "opening"} => disp.seg.kind = "start"
    /\ disp.pc \in Hands \ {"feeding"} /\ disp.seg.kind = "start" =>
         /\ \A g \in Generations : mic.utt \notin heard[g]
         /\ \A i \in 1 .. Len(state.pending) : state.pending[i].utt < mic.utt
         /\ out.turn.utt < mic.utt
    /\ disp.pc \in {"announce", "opening", "feeding"} => state.pending = <<>>

(* Where a turn is about to open, none is about to end. *)
WayInv ==
    /\ disp.pc \in {"announce", "opening"} => ~Ending
    /\ disp.pc = "announce" /\ out.pc = "fired" => sends = <<"out", "disp">>
    /\ disp.pc = "opening" => out.pc # "fired"

(* A turn that is being ended has its endpoint latched, until the session   *)
(* is closed.                                                              *)
OwnInv ==
    state.active /\ (out.pc = "fired" \/ (out.pc = "preparing" /\ out.gen = state.gen))
      => Live \/ state.closed

(* Nobody is about to end the turn in which somebody speaks. *)
Safe ==
    state.active => /\ out.pc # "fired" /\ ~Ending
                    /\ out.pc = "preparing" => out.gen # state.gen
SpeakingInv == Overheard \/ Carries => Safe

(* The utterance being spoken is in one place only, and its turn is open.   *)
PlaceInv ==
    mic.talking =>
       /\ state.pending # <<>> => ~Hears(mic.utt)
       /\ \A i \in 1 .. Len(state.pending) : state.pending[i].utt = mic.utt => ~state.pending[i].ended
       /\ out.turn.utt = mic.utt => ~out.turn.ended
       /\ out.pc = "refeeding" /\ out.turn.utt = mic.utt => ~Live

(* A turn being refed is at the head of the queue, or an abort took it off. *)
HeadInv ==
    out.pc \in {"reopening", "refeeding"} =>
       \A i \in 2 .. Len(state.pending) : out.turn.utt < state.pending[i].utt

EarlyInv == GenInv /\ PastInv /\ HandInv /\ WayInv /\ OwnInv /\ SpeakingInv /\ PlaceInv /\ HeadInv

EarlyCtx == TypeInv /\ BudgetInv /\ LockInv /\ Attentive /\ EarlyInv

LEMMA EarlyFacts ==
    ASSUME EarlyCtx
    PROVE  /\ TypeInv /\ EarlyInv /\ FrontendVad /\ ~BackendEndpoint /\ ~Disturb("eos")
           /\ state \in SessionState /\ out \in OutTask /\ disp \in DispTask
           /\ mic \in [utt : Nat, talking : BOOLEAN] /\ mgr.gen \in Nat /\ out.gen \in Nat /\ out.turn.utt \in Nat
           /\ state.pending \in Seq(Turns) /\ Len(state.pending) \in Nat
           /\ \A i \in 1 .. Len(state.pending) : state.pending[i] \in Turns /\ state.pending[i].utt \in Nat
           /\ state.endpoint.gen \in Nat /\ state.endpoint \in Markers /\ state.gen \in Nat
           /\ heard \in [Generations -> SUBSET Utterances] /\ Generations \subseteq Nat \ {0} /\ Utterances \subseteq Nat
<1>1. TypeInv /\ EarlyInv /\ FrontendVad /\ ~BackendEndpoint /\ ~Disturb("eos")
  BY DEF EarlyCtx, Attentive, BudgetInv, Disturb, Disturbances, FrontendVad, BackendEndpoint
<1>2. /\ state \in SessionState /\ out \in OutTask /\ disp \in DispTask
      /\ heard \in [Generations -> SUBSET Utterances] /\ Generations \subseteq Nat \ {0} /\ Utterances \subseteq Nat
  BY <1>1, BoundsAssumption DEF TypeInv, TypeOK, Generations, Utterances
<1>3. mic \in [utt : Nat, talking : BOOLEAN] /\ mgr.gen \in Nat
  BY <1>1, BoundsAssumption DEF TypeInv, TypeOK
<1>4. out.gen \in Nat /\ out.turn.utt \in Nat
  BY <1>2, BoundsAssumption DEF OutTask, Turns
<1>5. state.endpoint.gen \in Nat /\ state.endpoint \in Markers /\ state.gen \in Nat
  BY <1>2, BoundsAssumption DEF SessionState, Markers
<1>6. state.pending \in Seq(Turns) /\ Len(state.pending) \in Nat
  BY <1>2, LenProperties DEF SessionState
<1>7. \A i \in 1 .. Len(state.pending) : state.pending[i] \in Turns /\ state.pending[i].utt \in Nat
  <2>1. \A i \in 1 .. Len(state.pending) : state.pending[i] \in Turns
    BY <1>6, ElementOfSeq
  <2>. QED
    BY <2>1, BoundsAssumption DEF Turns
<1>. QED
  BY <1>1, <1>2, <1>3, <1>4, <1>5, <1>6, <1>7

(***************************************************************************)
(* A step after which no turn is closer to its end than before, and nothing *)
(* more is known of the utterance being spoken.                             *)
(***************************************************************************)
MicMoves ==
    \/ UNCHANGED mic
    \/ mic'.utt = mic.utt /\ ~mic'.talking
    \/ mic'.utt = mic.utt + 1
QueueShrinks ==
    /\ state.pending = <<>> => state'.pending = <<>>
    /\ \A i \in 1 .. Len(state'.pending) :
          /\ i \in 1 .. Len(state.pending) /\ state'.pending[i].utt = state.pending[i].utt
          /\ state'.pending[i].ended => state.pending[i].ended \/ ~mic'.talking
OutRests ==
    /\ out'.gen <= mgr.gen
    /\ out'.turn.utt \in {0, out.turn.utt}
    /\ mic.talking /\ out'.turn.utt = mic.utt => ~out'.turn.ended
    /\ \/ out'.pc = out.pc /\ out'.gen = out.gen /\ out'.end = out.end /\ out'.turn.utt = out.turn.utt
       \/ /\ ~Finishing(out'.pc) /\ out'.pc \notin {"reopening", "refeeding"}
          /\ out'.pc = "polled" => ~out'.end
          /\ out.pc = "giveUp" => state'.endpoint = NoEndpoint \/ out'.pc = "over"
          /\ out.pc = "over" => out'.pc = "over"
EndpointRests ==
    \/ state'.endpoint = state.endpoint
    \/ state'.endpoint = NoEndpoint /\ (state'.closed \/ ~state'.active \/ ~Finishing(out'.pc))
    \/ state'.endpoint = [by |-> "vad", gen |-> state.gen] /\ ~mic'.talking /\ disp'.pc \notin Hands
Rests ==
    /\ UNCHANGED <<deployment, heard>> /\ mgr'.gen = mgr.gen /\ state'.gen = state.gen
    /\ state'.active => state.active
    /\ state.closed => state'.closed
    /\ MicMoves /\ QueueShrinks /\ OutRests /\ EndpointRests

LEMMA RestKeeps ==
    ASSUME EarlyCtx, Rests
    PROVE  /\ GenInv' /\ PastInv' /\ OwnInv' /\ PlaceInv' /\ HeadInv'
           /\ Ending' => Ending \/ (~mic'.talking /\ disp'.pc \notin Hands)
           /\ Overheard' => Safe'
<1>1. /\ deployment' = deployment /\ heard' = heard /\ mgr'.gen = mgr.gen /\ state'.gen = state.gen
      /\ state'.active => state.active
      /\ state.closed => state'.closed
  BY DEF Rests
<1>2. mic.utt \in Nat /\ mic'.utt \in Nat /\ mic.utt <= mic'.utt
  BY EarlyFacts DEF Rests, MicMoves
<1>3. GenInv'
  BY <1>1, EarlyFacts DEF Rests, OutRests, EndpointRests, EarlyInv, GenInv, NoEndpoint
<1>4. PastInv'
  <2>1. \A g \in Generations : /\ g > mgr'.gen => heard'[g] = {}
                               /\ \A u \in heard'[g] : u <= mic'.utt
    BY <1>1, <1>2, EarlyFacts DEF EarlyInv, PastInv
  <2>2. \A i \in 1 .. Len(state'.pending) : i \in 1 .. Len(state.pending) /\ state'.pending[i].utt = state.pending[i].utt
    BY EarlyFacts DEF Rests, QueueShrinks
  <2>3. \A i \in 1 .. Len(state'.pending) : state'.pending[i].utt <= mic'.utt
    <3>1. \A i \in 1 .. Len(state.pending) : state.pending[i].utt <= mic.utt /\ state.pending[i].utt \in Nat
      BY EarlyFacts DEF EarlyInv, PastInv
    <3>. QED
      BY SMTT(30), <1>2, <2>2, <3>1
  <2>4. \A i, j \in 1 .. Len(state'.pending) : i < j => state'.pending[i].utt < state'.pending[j].utt
    <3>1. \A i, j \in 1 .. Len(state.pending) : i < j => state.pending[i].utt < state.pending[j].utt
      BY EarlyFacts DEF EarlyInv, PastInv
    <3>. QED
      BY <2>2, <3>1
  <2>5. out'.turn.utt <= mic'.utt
    BY <1>2, EarlyFacts DEF EarlyInv, PastInv, Rests, OutRests
  <2>. QED
    BY <2>1, <2>3, <2>4, <2>5 DEF PastInv
<1>6. state'.endpoint.by # "none" /\ state'.endpoint.gen = state'.gen =>
        \/ Live /\ state'.endpoint = state.endpoint
        \/ ~mic'.talking /\ disp'.pc \notin Hands
  BY <1>1 DEF Rests, EndpointRests, Live, NoEndpoint
<1>7. Ending' => Ending \/ (~mic'.talking /\ disp'.pc \notin Hands)
  BY <1>6 DEF Rests, OutRests, Ending, Live, NoEndpoint
<1>9. OwnInv'
  BY <1>1 DEF Rests, OutRests, EndpointRests, Finishing, EarlyCtx, EarlyInv, OwnInv, Live
<1>10. mic'.talking => \/ mic'.utt = mic.utt + 1
                       \/ mic'.utt = mic.utt /\ mic.talking
  BY DEF Rests, MicMoves
<1>11. mic'.talking /\ Hears(mic.utt)' => Hears(mic.utt) /\ mic.talking /\ mic'.utt = mic.utt
  <2>1. \A g \in Generations : mic.utt + 1 \notin heard[g]
    BY EarlyFacts DEF EarlyInv, PastInv
  <2>. QED
    BY <1>1, <1>10, <2>1 DEF Hears
<1>12. Overheard' => Safe'
  <2>1. Overheard' => Overheard /\ mic'.talking
    BY <1>1, <1>11 DEF Overheard
  <2>. QED
    BY <1>1, <1>7, <2>1 DEF Rests, OutRests, Finishing, EarlyCtx, EarlyInv, SpeakingInv, Safe
<1>13. PlaceInv'
  <2>. SUFFICES ASSUME mic'.talking PROVE PlaceInv'
    BY DEF PlaceInv
  <2>1. state'.pending # <<>> => ~Hears(mic.utt)'
    BY <1>11 DEF Rests, QueueShrinks, EarlyCtx, EarlyInv, PlaceInv
  <2>2. ASSUME NEW i \in 1 .. Len(state'.pending), state'.pending[i].utt = mic'.utt PROVE ~state'.pending[i].ended
    <3>1. i \in 1 .. Len(state.pending) /\ state'.pending[i].utt = state.pending[i].utt
          /\ (state'.pending[i].ended => state.pending[i].ended)
      BY EarlyFacts DEF Rests, QueueShrinks
    <3>2. state.pending[i].utt <= mic.utt /\ state.pending[i].utt \in Nat
      BY <3>1, EarlyFacts DEF EarlyInv, PastInv
    <3>3. mic'.utt = mic.utt /\ mic.talking
      BY <1>2, <1>10, <2>2, <3>1, <3>2
    <3>. QED
      BY <2>2, <3>1, <3>3 DEF EarlyCtx, EarlyInv, PlaceInv
  <2>3. out'.turn.utt = mic'.utt => mic'.utt = mic.utt /\ mic.talking
    BY <1>2, <1>10, EarlyFacts DEF Rests, OutRests, EarlyInv, PastInv
  <2>4. out'.turn.utt = mic'.utt => ~out'.turn.ended
    BY <2>3 DEF Rests, OutRests
  <2>5. ASSUME out'.pc = "refeeding", out'.turn.utt = mic'.utt PROVE ~Live'
    <3>1. out.pc = "refeeding"
      BY <2>5 DEF Rests, OutRests
    <3>2. mic'.utt = mic.utt /\ mic.talking
      BY <2>3, <2>5
    <3>3. out.turn.utt = mic.utt => ~Live
      BY <3>1, <3>2 DEF EarlyCtx, EarlyInv, PlaceInv
    <3>4. out'.turn.utt = out.turn.utt
      BY <2>5 DEF Rests, OutRests
    <3>. QED
      BY <1>6, <2>5, <3>2, <3>3, <3>4 DEF Live
  <2>. QED
    BY <2>1, <2>2, <2>4, <2>5 DEF PlaceInv
<1>14. HeadInv'
  <2>1. \A i \in 2 .. Len(state'.pending) : i \in 2 .. Len(state.pending) /\ state'.pending[i].utt = state.pending[i].utt
    <3>1. \A i \in 1 .. Len(state'.pending) : i \in 1 .. Len(state.pending) /\ state'.pending[i].utt = state.pending[i].utt
      BY DEF Rests, QueueShrinks
    <3>. QED
      BY <3>1, EarlyFacts
  <2>. QED
    <3>1. out'.pc \in {"reopening", "refeeding"} => out.pc \in {"reopening", "refeeding"} /\ out'.turn.utt = out.turn.utt
      BY DEF Rests, OutRests
    <3>2. out.pc \in {"reopening", "refeeding"} => \A i \in 2 .. Len(state.pending) : out.turn.utt < state.pending[i].utt
      BY EarlyFacts DEF EarlyInv, HeadInv
    <3>. QED
      BY <2>1, <3>1, <3>2 DEF HeadInv
<1>. QED
  BY <1>3, <1>4, <1>7, <1>9, <1>12, <1>13, <1>14

(* The dispatcher keeps what it has in its hands, or lets go of it. *)
LEMMA RestEarly ==
    ASSUME EarlyCtx, Rests,
           UNCHANGED <<disp, mic>> \/ disp'.pc \notin Hands,
           disp'.pc = "announce" /\ out'.pc = "fired" => UNCHANGED sends
    PROVE  EarlyInv'
<1>1. heard' = heard /\ state'.gen = state.gen /\ (state'.active => state.active)
  BY DEF Rests
<1>2. HandInv'
  <2>1. CASE disp'.pc \notin Hands
    BY <2>1 DEF HandInv, Hands
  <2>2. CASE UNCHANGED <<disp, mic>>
    <3>1. \A i \in 1 .. Len(state'.pending) : i \in 1 .. Len(state.pending) /\ state'.pending[i].utt = state.pending[i].utt
      BY EarlyFacts DEF Rests, QueueShrinks
    <3>2. state.pending = <<>> => state'.pending = <<>>
      BY DEF Rests, QueueShrinks
    <3>3. out.turn.utt < mic.utt => out'.turn.utt < mic.utt
      BY EarlyFacts DEF Rests, OutRests
    <3>. QED
      BY <1>1, <2>2, <3>1, <3>2, <3>3 DEF EarlyCtx, EarlyInv, HandInv
  <2>. QED
    BY <2>1, <2>2
<1>3. WayInv'
  BY RestKeeps DEF Rests, OutRests, Finishing, EarlyCtx, EarlyInv, WayInv, Hands
<1>4. Carries' => Safe'
  <2>1. Carries' => Carries /\ disp'.pc \in Hands
    BY DEF Carries, Hands
  <2>. QED
    BY <1>1, <2>1, RestKeeps DEF Rests, OutRests, Finishing, EarlyCtx, EarlyInv, SpeakingInv, Safe
<1>. QED
  BY <1>2, <1>3, <1>4, RestKeeps DEF EarlyInv, SpeakingInv

(* The dispatcher goes on with a segment, and nothing else happens. *)
LEMMA HandEarly ==
    ASSUME EarlyCtx, UNCHANGED <<deployment, heard, mgr, state, out>>, MicMoves,
           HandInv', WayInv', Carries' => Safe
    PROVE  EarlyInv'
<1>1. QueueShrinks
  BY EarlyFacts DEF QueueShrinks
<1>2. OutRests
  BY EarlyFacts DEF OutRests, EarlyInv, GenInv, PlaceInv
<1>3. Rests
  BY <1>1, <1>2, EarlyFacts DEF Rests, EndpointRests, EarlyInv, GenInv
<1>4. Safe' = Safe
  BY DEF Safe, Ending, Live
<1>. QED
  BY <1>3, <1>4, RestKeeps DEF EarlyInv, SpeakingInv

(***************************************************************************)
(* The dispatcher's steps                                                  *)
(***************************************************************************)
(* What a segment that arrives, or has waited for a cancel, says of the     *)
(* speech.                                                                 *)
Arrives(seg) ==
    /\ seg \in Segments /\ MicMoves
    /\ mic'.talking <=> seg.kind \in {"start", "speech"}
    /\ mic'.talking => seg.utt = mic'.utt
    /\ seg.utt <= mic'.utt
    /\ seg.kind = "start" =>
         /\ \A g \in Generations : mic'.utt \notin heard[g]
         /\ \A i \in 1 .. Len(state.pending) : state.pending[i].utt < mic'.utt
         /\ out.turn.utt < mic'.utt

LEMMA TurnRests ==
    ASSUME EarlyCtx
    PROVE  mic.talking /\ out.turn.utt = mic.utt => ~out.turn.ended
  BY DEF EarlyCtx, EarlyInv, PlaceInv

LEMMA QuietHands ==
    ASSUME EarlyCtx, UNCHANGED <<deployment, heard, out, sends>>, mgr'.gen = mgr.gen, state'.gen = state.gen,
           state'.active => state.active, state.closed => state'.closed,
           MicMoves, QueueShrinks, EndpointRests, disp'.pc \notin Hands
    PROVE  EarlyInv'
  BY TurnRests, EarlyFacts, RestEarly DEF Rests, OutRests, EarlyInv, GenInv, Hands

LEMMA RejectsEarly ==
    ASSUME EarlyCtx, UNCHANGED <<deployment, heard, out, mgr>>, MicMoves,
           state' = [Cleared(state) EXCEPT !.endpoint = NoEndpoint, !.finalizing = 0, !.closed = TRUE],
           disp'.pc = "notify"
    PROVE  EarlyInv'
<1>1. /\ state'.pending = <<>> /\ state'.endpoint = NoEndpoint /\ state'.closed /\ state'.active = state.active
      /\ state'.gen = state.gen
  BY EarlyFacts DEF Cleared, SessionState
<1>2. QueueShrinks
  BY <1>1 DEF QueueShrinks
<1>3. OutRests
  BY TurnRests, EarlyFacts DEF OutRests, EarlyInv, GenInv
<1>4. Rests
  BY <1>1, <1>2, <1>3 DEF Rests, EndpointRests
<1>. QED
  BY <1>4, RestEarly DEF Hands

LEMMA SegmentChoices ==
    ASSUME EarlyCtx, NEW seg \in Segments, HandleSegment(seg)
    PROVE  \/ /\ seg.kind = "start" /\ disp' = [pc |-> "queue", seg |-> seg] /\ UNCHANGED state
           \/ RejectPending
           \/ /\ TurnOpenInQueue /\ disp'.pc \in {"notify", "receive"}
              /\ state' = [state EXCEPT !.pending[Len(state.pending)].ended = seg.kind = "end"]
           \/ disp'.pc \in {"notify", "receive"} /\ UNCHANGED state
           \/ /\ seg.kind = "start" /\ ~PendingBlocked /\ ~state.closed /\ UNCHANGED state
              /\ disp' = [pc |-> "announce", seg |-> seg] /\ SendAs("disp")
           \/ /\ seg.kind # "start" /\ ~PendingBlocked /\ ~state.closed /\ UNCHANGED state
              /\ disp' = [pc |-> "feeding", seg |-> seg]
           \/ seg.kind = "end" /\ ~PendingBlocked /\ LatchEnd
<1>1. FrontendVad /\ ~OpensLazily /\ (Event(seg) = "start" <=> seg.kind = "start") /\ (Event(seg) = "end" <=> seg.kind = "end")
  BY EarlyFacts DEF OpensLazily, Event
<1>2. (Event(seg) = "end") = (seg.kind = "end")
  BY <1>1
<1>3. CASE PendingBlocked
  BY <1>1, <1>2, <1>3 DEF HandleSegment, QueueSegment, FeedSegment
<1>4. CASE ~PendingBlocked
  BY <1>1, <1>4 DEF HandleSegment, QueueSegment, FeedSegment
<1>. QED
  BY <1>3, <1>4

(* An utterance whose way is clear meets no turn that is being ended. *)
LEMMA WayClear ==
    ASSUME EarlyCtx, ~PendingBlocked, ~state.closed
    PROVE  Safe /\ ~Ending /\ state.pending = <<>> /\ (out.pc = "fired" => ~state.active)
<1>1. state.endpoint.by = "none" /\ state.pending = <<>>
  BY EarlyFacts DEF PendingBlocked
<1>. QED
  BY <1>1, EarlyFacts DEF Safe, Ending, Live, EarlyInv, OwnInv

LEMMA SegmentEarly ==
    ASSUME EarlyCtx, NEW seg \in Segments, HandleSegment(seg), Arrives(seg), ~DispSends,
           UNCHANGED <<deployment, heard, out, mgr>>
    PROVE  EarlyInv'
<1>. DEFINE k == Len(state.pending)
<1>0. MicMoves /\ seg.kind \in Kinds
  BY DEF Arrives, Segments
<1>1. CASE seg.kind = "start" /\ disp' = [pc |-> "queue", seg |-> seg] /\ UNCHANGED state
  <2>1. HandInv'
    BY <1>1 DEF HandInv, Hands, Arrives
  <2>2. WayInv' /\ ~Carries'
    BY <1>1 DEF WayInv, Carries
  <2>. QED
    BY <1>0, <1>1, <2>1, <2>2, HandEarly
<1>2. CASE RejectPending
  <2>1. disp'.pc = "notify"
    BY <1>2, EarlyFacts DEF RejectPending, DispTask
  <2>. QED
    BY <1>0, <1>2, <2>1, RejectsEarly DEF RejectPending
<1>3. CASE /\ TurnOpenInQueue /\ disp'.pc \in {"notify", "receive"}
           /\ state' = [state EXCEPT !.pending[Len(state.pending)].ended = seg.kind = "end"]
  <2>1. /\ state'.pending = [state.pending EXCEPT ![k].ended = seg.kind = "end"]
        /\ state'.endpoint = state.endpoint /\ state'.gen = state.gen /\ state'.active = state.active
        /\ state'.closed = state.closed
    BY <1>3, EarlyFacts DEF SessionState
  <2>2. k \in 1 .. k /\ state.pending # <<>>
    BY <1>3, EarlyFacts, EmptySeq DEF TurnOpenInQueue
  <2>3. Len(state'.pending) = k
    BY <2>1, EarlyFacts, ExceptSeq
  <2>4. \A i \in 1 .. k : /\ state'.pending[i].utt = state.pending[i].utt
                          /\ state'.pending[i].ended => state.pending[i].ended \/ ~mic'.talking
    BY <2>1, <2>2, EarlyFacts DEF Arrives, Turns
  <2>5. QueueShrinks
    BY <2>2, <2>3, <2>4 DEF QueueShrinks
  <2>6. OutRests
    BY TurnRests, EarlyFacts DEF OutRests, EarlyInv, GenInv
  <2>7. Rests
    BY <1>0, <2>1, <2>5, <2>6 DEF Rests, EndpointRests
  <2>. QED
    BY <1>3, <2>7, RestEarly DEF Hands
<1>4. CASE disp'.pc \in {"notify", "receive"} /\ UNCHANGED state
  <2>1. HandInv' /\ WayInv' /\ ~Carries'
    BY <1>4 DEF HandInv, WayInv, Carries, Hands
  <2>. QED
    BY <1>0, <1>4, <2>1, HandEarly
<1>5. CASE /\ seg.kind = "start" /\ ~PendingBlocked /\ ~state.closed /\ UNCHANGED state
           /\ disp' = [pc |-> "announce", seg |-> seg] /\ SendAs("disp")
  <2>1. Safe /\ ~Ending /\ state.pending = <<>>
    BY <1>5, WayClear
  <2>2. HandInv'
    BY <1>5, <2>1 DEF HandInv, Hands, Arrives
  <2>3. out.pc = "fired" => sends' = <<"out", "disp">>
    <3>1. out.pc = "fired" => sends = <<"out">>
      BY DEF EarlyCtx, LockInv, OutSends
    <3>. QED
      BY <1>5, <3>1, SendFacts DEF SendAs
  <2>4. WayInv' /\ ~Carries'
    <3>1. Ending' = Ending
      BY <1>5 DEF Ending, Live
    <3>. QED
      BY <1>5, <2>1, <2>3, <3>1 DEF WayInv, Carries
  <2>. QED
    BY <1>0, <1>5, <2>2, <2>4, HandEarly
<1>6. CASE /\ seg.kind # "start" /\ ~PendingBlocked /\ ~state.closed /\ UNCHANGED state
           /\ disp' = [pc |-> "feeding", seg |-> seg]
  <2>1. Safe /\ ~Ending /\ state.pending = <<>>
    BY <1>6, WayClear
  <2>2. HandInv'
    BY <1>0, <1>6, <2>1 DEF HandInv, Hands, Arrives, Kinds
  <2>3. WayInv'
    BY <1>6 DEF WayInv
  <2>. QED
    BY <1>0, <1>6, <2>1, <2>2, <2>3, HandEarly
<1>7. CASE seg.kind = "end" /\ ~PendingBlocked /\ LatchEnd
  <2>1. /\ state' = [state EXCEPT !.endpoint = [by |-> "vad", gen |-> state.gen], !.closed = @ \/ ~Multi]
        /\ disp' = [disp EXCEPT !.pc = "notify"]
    BY <1>7, EarlyFacts DEF LatchEnd
  <2>2. /\ state'.endpoint = [by |-> "vad", gen |-> state.gen] /\ (state.closed => state'.closed)
        /\ state'.gen = state.gen /\ state'.active = state.active /\ state'.pending = state.pending
        /\ disp'.pc = "notify"
    BY <2>1, EarlyFacts DEF SessionState, DispTask
  <2>3. ~mic'.talking
    BY <1>7 DEF Arrives
  <2>4. QueueShrinks
    BY <2>2 DEF QueueShrinks
  <2>5. OutRests
    BY TurnRests, EarlyFacts DEF OutRests, EarlyInv, GenInv
  <2>6. Rests
    BY <1>0, <2>2, <2>3, <2>4, <2>5 DEF Rests, EndpointRests, Hands
  <2>. QED
    BY <2>2, <2>6, RestEarly DEF Hands
<1>. QED
  BY <1>1, <1>2, <1>3, <1>4, <1>5, <1>6, <1>7, SegmentChoices

LEMMA AudioArrives ==
    ASSUME EarlyCtx, NEW seg \in Segments, Spoken(seg)
    PROVE  Arrives(seg)
<1>1. mic \in [utt : 0 .. MaxUtterances, talking : BOOLEAN] /\ mic.utt \in Nat /\ seg.kind \in Kinds /\ seg.utt \in Nat
  BY EarlyFacts, BoundsAssumption DEF Segments, TypeInv, TypeOK
<1>2. CASE seg.kind = "start" /\ seg.utt = mic.utt + 1 /\ mic' = [utt |-> seg.utt, talking |-> TRUE]
  <2>1. \A g \in Generations : mic.utt + 1 \notin heard[g]
    BY EarlyFacts DEF EarlyInv, PastInv
  <2>2. \A i \in 1 .. Len(state.pending) : state.pending[i].utt < mic.utt + 1
    <3>1. \A i \in 1 .. Len(state.pending) : state.pending[i].utt <= mic.utt /\ state.pending[i].utt \in Nat
      BY EarlyFacts DEF EarlyInv, PastInv
    <3>. QED
      BY <1>1, <3>1
  <2>3. out.turn.utt < mic.utt + 1
    BY <1>1, EarlyFacts DEF EarlyInv, PastInv
  <2>. QED
    BY <1>1, <1>2, <2>1, <2>2, <2>3 DEF Arrives, MicMoves
<1>3. CASE seg.kind \in {"speech", "end"} /\ seg.utt = mic.utt /\ mic.talking /\ mic' = [mic EXCEPT !.talking = seg.kind = "speech"]
  <2>1. mic'.utt = mic.utt /\ (mic'.talking <=> seg.kind = "speech")
    BY <1>1, <1>3
  <2>2. seg.kind = "speech" => mic' = mic
    <3>1. seg.kind = "speech" => (seg.kind = "speech") = TRUE
      OBVIOUS
    <3>. QED
      BY <1>1, <1>3, <3>1
  <2>. QED
    BY <1>1, <1>3, <2>1, <2>2 DEF Arrives, MicMoves
<1>4. CASE seg = NoSegment /\ ~mic.talking /\ UNCHANGED mic
  BY <1>1, <1>4 DEF Arrives, MicMoves, NoSegment
<1>. QED
  BY <1>2, <1>3, <1>4 DEF Spoken

LEMMA AudioEarly ==
    ASSUME EarlyCtx, NEW seg \in Segments, ReceiveAudio(seg)
    PROVE  EarlyInv'
<1>1. /\ Arrives(seg) /\ disp.pc = "receive" /\ ~DispSends
      /\ UNCHANGED <<deployment, heard, out, mgr>>
  BY AudioArrives DEF ReceiveAudio, outVars, asrVars, DispSends
<1>2. CASE HandleSegment(seg)
  BY <1>1, <1>2, SegmentEarly
<1>3. CASE disp' = [pc |-> "join", seg |-> seg] /\ UNCHANGED state
  <2>1. HandInv'
    BY <1>1, <1>3 DEF HandInv, Hands, Arrives, Segments, Kinds
  <2>2. WayInv' /\ ~Carries'
    BY <1>3 DEF WayInv, Carries
  <2>. QED
    BY <1>1, <1>3, <2>1, <2>2, HandEarly DEF Arrives
<1>. QED
  BY <1>2, <1>3 DEF ReceiveAudio

LEMMA JoinedEarly ==
    ASSUME EarlyCtx, Joined
    PROVE  EarlyInv'
<1>1. disp.pc = "join" /\ HandleSegment(disp.seg) /\ UNCHANGED <<deployment, mic, heard, out, mgr>>
  BY DEF Joined, world, outVars, asrVars
<1>2. disp.seg \in Segments /\ disp.seg.kind \in Kinds
  BY EarlyFacts DEF DispTask, Segments
<1>3. HandInv
  BY EarlyFacts DEF EarlyInv
<1>4. Arrives(disp.seg)
  BY <1>1, <1>2, <1>3 DEF Arrives, MicMoves, HandInv, Hands, Kinds
<1>. QED
  BY <1>1, <1>2, <1>4, SegmentEarly DEF DispSends

(* The oldest news of the utterance being spoken is the turn queued for it. *)
LEMMA QueueTurnEarly ==
    ASSUME EarlyCtx, QueueTurn
    PROVE  EarlyInv'
<1>1. disp.pc = "queue" /\ UNCHANGED <<deployment, mic, heard, out, mgr>>
  BY DEF QueueTurn, world, outVars, asrVars
<1>2. CASE /\ state' = [Cleared(state) EXCEPT !.endpoint = NoEndpoint, !.finalizing = 0, !.closed = TRUE]
           /\ disp' = [disp EXCEPT !.pc = "notify"]
  BY <1>1, <1>2, RejectsEarly, EarlyFacts DEF MicMoves, DispTask
<1>3. CASE /\ state' = [state EXCEPT !.pending = Append(@, [utt |-> disp.seg.utt, ended |-> FALSE])]
           /\ disp' = [disp EXCEPT !.pc = "receive"]
  <2>. DEFINE k == Len(state.pending)
              turn == [utt |-> disp.seg.utt, ended |-> FALSE]
  <2>1. /\ disp.seg.kind = "start" /\ disp.seg.utt = mic.utt /\ mic.talking
        /\ \A g \in Generations : mic.utt \notin heard[g]
        /\ \A i \in 1 .. k : state.pending[i].utt < mic.utt
        /\ out.turn.utt < mic.utt
    BY <1>1, EarlyFacts DEF EarlyInv, HandInv, Hands
  <2>2. turn \in Turns
    BY EarlyFacts DEF DispTask, Segments, Turns
  <2>3. /\ state'.pending = Append(state.pending, turn) /\ state'.endpoint = state.endpoint
        /\ state'.gen = state.gen /\ state'.active = state.active /\ state'.closed = state.closed
        /\ disp'.pc = "receive"
    BY <1>3, EarlyFacts DEF SessionState, DispTask
  <2>4. Len(state'.pending) = k + 1 /\ state'.pending[k + 1] = turn
        /\ \A i \in 1 .. k : state'.pending[i] = state.pending[i]
    BY <2>2, <2>3, EarlyFacts, AppendProperties
  <2>5. \A i \in 1 .. k + 1 : state'.pending[i].utt = (IF i = k + 1 THEN mic.utt ELSE state.pending[i].utt)
                              /\ (i # k + 1 => i \in 1 .. k)
    BY <2>1, <2>4, EarlyFacts
  <2>6. GenInv'
    BY <1>1, <2>3, EarlyFacts DEF EarlyInv, GenInv
  <2>7. PastInv'
    <3>1. \A i \in 1 .. k : state.pending[i].utt <= mic.utt /\ state.pending[i].utt \in Nat
      BY EarlyFacts DEF EarlyInv, PastInv
    <3>2. \A i, j \in 1 .. k : i < j => state.pending[i].utt < state.pending[j].utt
      BY EarlyFacts DEF EarlyInv, PastInv
    <3>3. mic.utt \in Nat /\ k \in Nat
      BY EarlyFacts
    <3>4. \A i \in 1 .. k + 1 : state'.pending[i].utt <= mic.utt
      BY <2>5, <3>1, <3>3
    <3>5. \A i, j \in 1 .. k + 1 : i < j => state'.pending[i].utt < state'.pending[j].utt
      BY <2>1, <2>5, <3>2, <3>3
    <3>. QED
      BY <1>1, <2>4, <3>4, <3>5, EarlyFacts DEF EarlyInv, PastInv
  <2>8. HandInv' /\ WayInv'
    BY <2>3 DEF HandInv, WayInv, Hands
  <2>9. OwnInv' /\ SpeakingInv'
    BY <1>1, <2>3, EarlyFacts
    DEF EarlyInv, OwnInv, SpeakingInv, Overheard, Hears, Carries, Safe, Ending, Live
  <2>10. PlaceInv'
    <3>1. ~Hears(mic.utt)'
      BY <1>1, <2>1 DEF Hears
    <3>2. \A i \in 1 .. k + 1 : state'.pending[i].utt = mic.utt => ~state'.pending[i].ended
      <4>1. state'.pending[k + 1].ended = FALSE
        BY <2>4
      <4>2. \A i \in 1 .. k : state.pending[i].utt # mic.utt
        BY <2>1, EarlyFacts
      <4>. QED
        BY <2>5, <4>1, <4>2
    <3>3. out.turn.utt # mic.utt
      BY <2>1, EarlyFacts
    <3>. QED
      BY <1>1, <2>4, <3>1, <3>2, <3>3 DEF PlaceInv
  <2>11. HeadInv'
    <3>1. \A i \in 2 .. k + 1 : i # k + 1 => i \in 2 .. k
      BY EarlyFacts
    <3>2. \A i \in 2 .. k + 1 : i \in 1 .. k + 1
      BY EarlyFacts
    <3>3. out.pc \in {"reopening", "refeeding"} => \A i \in 2 .. k : out.turn.utt < state.pending[i].utt
      BY EarlyFacts DEF EarlyInv, HeadInv
    <3>. QED
      BY <1>1, <2>1, <2>4, <2>5, <3>1, <3>2, <3>3 DEF HeadInv
  <2>. QED
    BY <2>6, <2>7, <2>8, <2>9, <2>10, <2>11 DEF EarlyInv
<1>. QED
  BY <1>2, <1>3 DEF QueueTurn

LEMMA StartTurnEarly ==
    ASSUME EarlyCtx, StartTurn
    PROVE  EarlyInv'
<1>1. /\ disp.pc = "announce" /\ Sent("disp") /\ disp' = [disp EXCEPT !.pc = disp'.pc]
      /\ disp'.pc \in {"receive", "opening"} /\ UNCHANGED <<deployment, mic, state, heard, out, mgr>>
  BY EarlyFacts DEF StartTurn, DispTask, world, outVars, asrVars
<1>2. disp'.seg = disp.seg
  BY <1>1, EarlyFacts DEF DispTask
<1>3. HandInv'
  BY <1>1, <1>2, EarlyFacts DEF EarlyInv, HandInv, Hands
<1>4. out.pc # "fired"
  BY <1>1, SendFacts, EarlyFacts DEF EarlyInv, WayInv, Sent
<1>5. WayInv' /\ ~Carries'
  <2>1. Ending' = Ending /\ ~Ending
    BY <1>1, EarlyFacts DEF Ending, Live, EarlyInv, WayInv
  <2>. QED
    BY <1>1, <1>4, <2>1 DEF WayInv, Carries
<1>. QED
  BY <1>1, <1>3, <1>5, HandEarly DEF MicMoves

(* A fresh generation has heard nothing, and no endpoint is latched for it. *)
LEMMA OpenTurnEarly ==
    ASSUME EarlyCtx, OpenTurn
    PROVE  EarlyInv'
<1>1. /\ disp.pc = "opening" /\ disp'.pc = "feeding" /\ disp'.seg = disp.seg
      /\ mgr'.gen = mgr.gen + 1 /\ UNCHANGED <<deployment, mic, out, heard>>
  BY EarlyFacts DEF OpenTurn, OnSpeechStart, DispTask, world, outVars
<1>2. /\ state'.endpoint = NoEndpoint /\ state'.gen = mgr.gen + 1
      /\ state'.pending = state.pending
  BY EarlyFacts DEF OpenTurn, SessionState
<1>3. ~Live' /\ ~Ending'
  BY <1>2 DEF Live, Ending, NoEndpoint
<1>4. GenInv'
  BY <1>1, <1>2, EarlyFacts DEF EarlyInv, GenInv, NoEndpoint
<1>5. PastInv'
  <2>1. \A g \in Generations : g \in Nat /\ (g > mgr.gen + 1 => g > mgr.gen)
    BY EarlyFacts
  <2>2. PastInv
    BY EarlyFacts DEF EarlyInv
  <2>. QED
    BY <1>1, <1>2, <2>1, <2>2 DEF PastInv
<1>6. HandInv'
  BY <1>1, <1>2, EarlyFacts DEF EarlyInv, HandInv, Hands
<1>7. WayInv' /\ HeadInv'
  BY <1>1, <1>2, EarlyFacts DEF WayInv, EarlyInv, HeadInv
<1>8. Safe' /\ OwnInv'
  BY <1>1, <1>2, <1>3, EarlyFacts DEF Safe, OwnInv, EarlyInv, GenInv, WayInv
<1>9. PlaceInv'
  BY <1>1, <1>2, <1>3, EarlyFacts DEF EarlyInv, PlaceInv, HandInv, Hands
<1>. QED
  BY <1>4, <1>5, <1>6, <1>7, <1>8, <1>9 DEF EarlyInv, SpeakingInv

LEMMA FedFacts ==
    ASSUME EarlyCtx, NEW u \in 0 .. MaxUtterances, heard' = FedWith(u)
    PROVE  \A g \in Generations : /\ heard'[g] \subseteq heard[g] \cup {u}
                                  /\ g # mgr.gen => heard'[g] = heard[g]
  BY EarlyFacts DEF FedWith

LEMMA FeedTurnEarly ==
    ASSUME EarlyCtx, FeedTurn
    PROVE  EarlyInv'
<1>1. /\ disp.pc = "feeding" /\ heard' = FedWith(disp.seg.utt) /\ UNCHANGED <<deployment, mic, out, mgr>>
  BY DEF FeedTurn, world, outVars
<1>2. state.pending = <<>> /\ disp.seg.utt <= mic.utt /\ disp.seg.utt \in 0 .. MaxUtterances
  BY <1>1, EarlyFacts DEF EarlyInv, HandInv, Hands, DispTask, Segments
<1>3. \A g \in Generations : /\ heard'[g] \subseteq heard[g] \cup {disp.seg.utt}
                             /\ g # mgr.gen => heard'[g] = heard[g]
  BY <1>1, <1>2, FedFacts
<1>4. (Event(disp.seg) = "end" <=> disp.seg.kind = "end") /\ disp'.pc \in {"receive", "notify"}
      /\ state'.pending = <<>>
  BY <1>1, <1>2, EarlyFacts DEF Event, FeedTurn, LatchEnd, DispTask, SessionState
<1>5. HandInv' /\ WayInv' /\ ~Carries' /\ HeadInv'
  <2>1. ~(\E i \in 2 .. Len(state'.pending) : TRUE)
    BY <1>4
  <2>. QED
    BY <1>4, <2>1 DEF HandInv, WayInv, Carries, Hands, HeadInv
<1>6. PastInv'
  BY <1>1, <1>2, <1>3, <1>4, EarlyFacts DEF EarlyInv, PastInv, GenInv
<1>7. CASE disp.seg.kind = "end"
  <2>1. ~mic.talking
    BY <1>1, <1>7, EarlyFacts DEF EarlyInv, HandInv, Hands
  <2>2. /\ state'.endpoint = [by |-> "vad", gen |-> state.gen] /\ state'.gen = state.gen
    BY <1>4, <1>7, EarlyFacts DEF FeedTurn, LatchEnd, SessionState
  <2>3. Live' /\ GenInv'
    BY <1>1, <2>2, EarlyFacts DEF Live, EarlyInv, GenInv
  <2>4. OwnInv' /\ PlaceInv' /\ ~Overheard'
    BY <1>1, <2>1, <2>3 DEF OwnInv, PlaceInv, Overheard
  <2>. QED
    BY <1>5, <1>6, <2>3, <2>4 DEF EarlyInv, SpeakingInv
<1>8. CASE disp.seg.kind # "end"
  <2>1. state' = state
    BY <1>4, <1>8 DEF FeedTurn
  <2>2. GenInv' /\ OwnInv'
    BY <1>1, <2>1, EarlyFacts DEF EarlyInv, GenInv, OwnInv, Live
  <2>3. Safe'
    BY <1>1, <1>8, <2>1, EarlyFacts DEF EarlyInv, SpeakingInv, Carries, Safe, Ending, Live
  <2>4. PlaceInv'
    <3>1. ~(\E i \in 1 .. Len(state'.pending) : TRUE)
      BY <1>4
    <3>. QED
      BY <1>1, <1>4, <2>1, <3>1, EarlyFacts DEF EarlyInv, PlaceInv, Live
  <2>. QED
    BY <1>5, <1>6, <2>2, <2>3, <2>4 DEF EarlyInv, SpeakingInv
<1>. QED
  BY <1>7, <1>8

(* The other ways the dispatcher lets go of a segment. *)
LEMMA DropsEarly ==
    ASSUME EarlyCtx, \/ JoinTimesOut \/ JamReported \/ OpenTurnFails \/ RefusalReported \/ Notified
    PROVE  EarlyInv'
<1>1. /\ disp'.pc \notin Hands /\ UNCHANGED <<deployment, mic, out, heard, mgr>>
      /\ state'.gen = state.gen /\ state'.pending = state.pending /\ (state'.active => state.active)
      /\ state.closed => state'.closed
      /\ state'.endpoint = state.endpoint \/ (state'.endpoint = NoEndpoint /\ ~state'.active)
  BY EarlyFacts DEF JoinTimesOut, JamReported, OpenTurnFails, RefusalReported, Notified, DispTask, Hands, SessionState,
     world, outVars, asrVars
<1>2. QueueShrinks /\ EndpointRests
  BY <1>1 DEF QueueShrinks, EndpointRests
<1>3. OutRests
  BY <1>1, TurnRests, EarlyFacts DEF OutRests, EarlyInv, GenInv
<1>4. Rests
  BY <1>1, <1>2, <1>3 DEF Rests, MicMoves
<1>. QED
  BY <1>1, <1>4, RestEarly DEF Hands

LEMMA DetachedFacts ==
    ASSUME EarlyCtx
    PROVE  /\ DetachedTurn \in Turns /\ DetachedTurn.utt = out.turn.utt
           /\ mic.talking /\ out.turn.utt = mic.utt => ~DetachedTurn.ended
<1>1. CASE state.pending # <<>> /\ out.turn.utt = Head(state.pending).utt
  <2>1. Head(state.pending) = state.pending[1] /\ 1 \in 1 .. Len(state.pending)
    BY <1>1, EarlyFacts, EmptySeq
  <2>. QED
    BY <1>1, <2>1, EarlyFacts DEF DetachedTurn, EarlyInv, PlaceInv
<1>2. CASE ~(state.pending # <<>> /\ out.turn.utt = Head(state.pending).utt)
  BY <1>2, TurnRests, EarlyFacts DEF DetachedTurn, OutTask
<1>. QED
  BY <1>1, <1>2

LEMMA ControlEarly ==
    ASSUME EarlyCtx, ClientPrepare \/ KeepingAbort \/ Abort \/ Leave
    PROVE  EarlyInv'
<1>1. CASE ClientPrepare \/ KeepingAbort
  BY <1>1, QuietHands, EarlyFacts
  DEF ClientPrepare, KeepingAbort, Control, Hands, MicMoves, QueueShrinks, EndpointRests, world, outVars, asrVars
<1>2. CASE Abort
  <2>1. /\ UNCHANGED <<deployment, mic, disp, heard, mgr>> /\ disp.pc = "receive"
        /\ state'.gen = state.gen /\ state'.pending = <<>> /\ ~state'.active /\ state'.closed = state.closed
        /\ state'.endpoint = NoEndpoint
    BY <1>2, EarlyFacts DEF Abort, Cleared, SessionState, Control, world, asrVars
  <2>2. out'.pc = out.pc /\ out'.gen = out.gen /\ out'.end = out.end /\ out'.turn = DetachedTurn
    BY <1>2, EarlyFacts DEF Abort, OutTask
  <2>3. OutRests
    BY <2>1, <2>2, DetachedFacts, EarlyFacts DEF OutRests, EarlyInv, GenInv
  <2>4. Rests
    BY <2>1, <2>3 DEF Rests, MicMoves, QueueShrinks, EndpointRests
  <2>. QED
    BY <2>1, <2>4, RestEarly DEF Hands
<1>3. CASE Leave
  <2>1. /\ UNCHANGED <<deployment, mic, heard, mgr>> /\ disp'.pc = "over"
        /\ state'.gen = state.gen /\ state'.pending = state.pending /\ state'.active = state.active
        /\ state'.closed = state.closed /\ state'.endpoint = state.endpoint
    BY <1>3, EarlyFacts DEF Leave, SessionState, DispTask, world, asrVars
  <2>2. out'.pc = "over" /\ out'.gen = out.gen /\ out'.turn = out.turn
    BY <1>3, EarlyFacts DEF Leave, OutTask
  <2>3. OutRests
    BY <2>1, <2>2, TurnRests, EarlyFacts DEF OutRests, EarlyInv, GenInv, Finishing
  <2>4. Rests
    BY <2>1, <2>3 DEF Rests, MicMoves, QueueShrinks, EndpointRests
  <2>. QED
    BY <2>1, <2>4, RestEarly DEF Hands
<1>. QED
  BY <1>1, <1>2, <1>3

LEMMA EngineEarly ==
    ASSUME EarlyCtx, FinalizeEnds \/ PrepareEnds \/ AbortCancelEnds \/ EngineFalls \/ UNCHANGED vars
    PROVE  EarlyInv'
<1>1. UNCHANGED <<deployment, mic, state, disp, out, sends, heard>> /\ mgr'.gen = mgr.gen
  BY DEF FinalizeEnds, PrepareEnds, AbortCancelEnds, EngineFalls, CancelStream, TypeInv, TypeOK, EarlyCtx,
     vars, world, outVars, asrVars
<1>2. OutRests
  BY <1>1, TurnRests, EarlyFacts DEF OutRests, EarlyInv, GenInv
<1>3. Rests
  BY <1>1, <1>2 DEF Rests, MicMoves, QueueShrinks, EndpointRests
<1>. QED
  BY <1>1, <1>3, RestEarly

(***************************************************************************)
(* asr_out_task's steps                                                    *)
(***************************************************************************)
(* A step of asr_out_task to anything but the end or the taking up of a turn. *)
LEMMA OutEarly ==
    ASSUME EarlyCtx, UNCHANGED <<deployment, mic, disp, heard>>, mgr'.gen = mgr.gen,
           state'.gen = state.gen, state'.active => state.active, state'.closed = state.closed,
           state'.pending \in {state.pending, <<>>}, state'.endpoint \in {state.endpoint, NoEndpoint},
           out'.pc \notin {"fired", "preparing", "reopening", "refeeding"},
           out'.gen \in {0, out.gen, state.gen}, out'.turn \in {out.turn, NoTurn},
           out'.pc = "polled" => ~out'.end,
           out.pc = "giveUp" => state'.endpoint = NoEndpoint, out.pc # "over"
    PROVE  EarlyInv'
<1>1. OutRests
  BY TurnRests, EarlyFacts DEF OutRests, EarlyInv, GenInv, Finishing, NoTurn
<1>2. Rests
  BY <1>1 DEF Rests, MicMoves, QueueShrinks, EndpointRests, Finishing
<1>. QED
  BY <1>2, RestEarly

LEMMA PlainOutEarly ==
    ASSUME EarlyCtx,
           \/ Poll \/ DeadlineExpires \/ DropExpiredTurn \/ ExpiryReported \/ FinalTimesOut
           \/ FailureReported \/ ReopenFails \/ GiveUpTurn \/ FinalAccepted
    PROVE  EarlyInv'
<1>1. /\ UNCHANGED <<deployment, mic, disp, heard>> /\ mgr'.gen = mgr.gen
  BY DEF Poll, DeadlineExpires, DropExpiredTurn, ExpiryReported, FinalTimesOut, FailureReported, ReopenFails, GiveUpTurn,
     FinalAccepted, CancelStream, TypeInv, TypeOK, EarlyCtx, world, asrVars
<1>2. CASE Poll \/ DeadlineExpires \/ ExpiryReported \/ FinalTimesOut \/ FailureReported \/ ReopenFails
  <2>1. UNCHANGED state
    BY <1>2 DEF Poll, DeadlineExpires, ExpiryReported, FinalTimesOut, FailureReported, ReopenFails
  <2>2. /\ out'.pc \in {"polled", "deadline", "loop", "over", "cancelling", "giveUp"}
        /\ out'.gen = out.gen /\ out'.turn = out.turn /\ (out'.pc = "polled" => ~out'.end)
        /\ out.pc \notin {"giveUp", "over"}
    BY <1>2, EarlyFacts
    DEF Poll, DeadlineExpires, ExpiryReported, FinalTimesOut, FailureReported, ReopenFails, OutGoes, OutTask
  <2>. QED
    BY <1>1, <2>1, <2>2, OutEarly
<1>3. CASE DropExpiredTurn \/ GiveUpTurn \/ FinalAccepted
  <2>1. /\ state'.gen = state.gen /\ (state'.active => state.active) /\ state'.closed = state.closed
        /\ state'.pending \in {state.pending, <<>>} /\ state'.endpoint = NoEndpoint
    BY <1>3, EarlyFacts DEF DropExpiredTurn, GiveUpTurn, FinalAccepted, Cleared, SessionState
  <2>2. /\ out'.pc \in {"expired", "failing", "emitting"}
        /\ out'.gen = out.gen /\ out'.turn \in {out.turn, NoTurn} /\ out.pc # "over"
    BY <1>3, EarlyFacts DEF DropExpiredTurn, GiveUpTurn, FinalAccepted, OutGoes, OutTask
  <2>. QED
    BY <1>1, <2>1, <2>2, OutEarly
<1>. QED
  BY <1>2, <1>3

LEMMA FailedEarly ==
    ASSUME EarlyCtx, FinalRejected \/ FinalAborted \/ TimedOutCancelled
    PROVE  EarlyInv'
<1>1. PICK pc \in {"failing", "loop"} : FinalDropped(pc)
  BY DEF FinalRejected, FinalAborted, TimedOutCancelled
<1>2. /\ UNCHANGED <<deployment, mic, disp, heard>> /\ mgr'.gen = mgr.gen /\ out.pc \in {"finalizing", "cancelling"}
  BY DEF FinalRejected, FinalAborted, TimedOutCancelled, CancelStream, TypeInv, TypeOK, EarlyCtx, world, asrVars
<1>3. /\ state'.gen = state.gen /\ (state'.active => state.active) /\ state'.closed = state.closed
      /\ state'.pending = <<>> /\ state'.endpoint \in {state.endpoint, NoEndpoint}
  BY <1>1, EarlyFacts DEF FinalDropped, Cleared, SessionState
<1>4. out'.pc = pc /\ out'.gen = out.gen /\ out'.turn = out.turn
  BY <1>1, EarlyFacts DEF FinalDropped, OutGoes, OutTask
<1>. QED
  BY <1>2, <1>3, <1>4, OutEarly

LEMMA PrepareEarly ==
    ASSUME EarlyCtx, PrepareAwaited
    PROVE  EarlyInv'
<1>1. /\ UNCHANGED <<deployment, mic, disp, heard>> /\ mgr'.gen = mgr.gen /\ out.pc = "preparing"
  BY DEF PrepareAwaited, TypeInv, TypeOK, EarlyCtx, world
<1>2. /\ state'.gen = state.gen /\ state'.active = state.active /\ state'.closed = state.closed
      /\ state'.pending = state.pending /\ state'.endpoint \in {state.endpoint, NoEndpoint}
  BY EarlyFacts DEF PrepareAwaited, SessionState
<1>3. out'.pc \in {"loop", "finalizing"} /\ out'.gen = out.gen /\ out'.turn = out.turn
  BY EarlyFacts DEF PrepareAwaited, OutGoes, OutTask
<1>. QED
  BY <1>1, <1>2, <1>3, OutEarly

(* The turn at its end is the one its endpoint was latched for: nobody can   *)
(* be speaking in it.                                                      *)
LEMMA JudgeEarly ==
    ASSUME EarlyCtx, JudgeIdle \/ JudgePolled
    PROVE  EarlyInv'
<1>1. /\ UNCHANGED <<deployment, mic, disp, heard>> /\ out.pc \in {"loop", "polled"} /\ Judge(FALSE)
  BY EarlyFacts DEF JudgeIdle, JudgePolled, Judge, EarlyInv, GenInv, OutTask, world
<1>2. Reason # "client_eos" /\ (Reason # "none" => Live /\ LiveEndpoint(state) = state)
  BY EarlyFacts DEF Reason, StaleEndpoint, EarlyInv, GenInv, Live, LiveEndpoint
<1>3. CASE Reason = "none"
  <2>1. state' = LiveEndpoint(state) /\ out' = [out EXCEPT !.pc = LoopOrReturn(state')] /\ UNCHANGED mgr
    BY <1>1, <1>3 DEF Judge, OutGoes
  <2>2. /\ state'.gen = state.gen /\ state'.active = state.active /\ state'.closed = state.closed
        /\ state'.pending = state.pending /\ state'.endpoint \in {state.endpoint, NoEndpoint}
    BY <2>1, EarlyFacts DEF LiveEndpoint, SessionState
  <2>3. out'.pc \in {"loop", "over"} /\ out'.gen = out.gen /\ out'.turn = out.turn
    BY <2>1, EarlyFacts DEF LoopOrReturn, OutTask
  <2>. QED
    BY <1>1, <2>1, <2>2, <2>3, OutEarly
<1>4. CASE Reason # "none"
  <2>1. /\ state' = [state EXCEPT !.closed = @ \/ ~Multi]
        /\ out' = [out EXCEPT !.pc = "fired", !.by = Reason, !.end = FALSE] /\ UNCHANGED mgr
    BY <1>1, <1>2, <1>4 DEF Judge
  <2>2. /\ state'.gen = state.gen /\ state'.active = state.active /\ state'.pending = state.pending
        /\ state'.endpoint = state.endpoint
    BY <2>1, EarlyFacts DEF SessionState
  <2>3. out'.pc = "fired" /\ out'.gen = out.gen /\ out'.turn = out.turn
    BY <2>1, EarlyFacts DEF OutTask
  <2>4. Live /\ Ending /\ Live'
    BY <1>1, <1>2, <1>4, <2>2 DEF Ending, Live
  <2>5. GenInv' /\ PastInv' /\ HandInv' /\ HeadInv'
    BY <1>1, <2>1, <2>2, <2>3, EarlyFacts DEF EarlyInv, GenInv, PastInv, HandInv, HeadInv
  <2>6. WayInv' /\ OwnInv'
    BY <1>1, <2>4, EarlyFacts DEF EarlyInv, WayInv, OwnInv
  <2>7. SpeakingInv'
    BY <1>1, <2>1, <2>2, <2>4, EarlyFacts DEF EarlyInv, SpeakingInv, Safe, Overheard, Hears, Carries
  <2>8. PlaceInv'
    BY <1>1, <2>1, <2>2, <2>3, EarlyFacts DEF EarlyInv, PlaceInv, Hears
  <2>. QED
    BY <2>5, <2>6, <2>7, <2>8 DEF EarlyInv
<1>. QED
  BY <1>3, <1>4

LEMMA EndpointEarly ==
    ASSUME EarlyCtx, EndpointSent
    PROVE  EarlyInv'
<1>1. /\ UNCHANGED <<deployment, mic, disp, heard>> /\ out.pc = "fired" /\ FinalizeOrEmpty(state)
  BY DEF EndpointSent, world
<1>2. /\ state'.gen = state.gen /\ state'.active = state.active /\ state'.closed = state.closed
      /\ state'.pending = state.pending /\ state'.endpoint = state.endpoint /\ mgr'.gen = mgr.gen
  BY <1>1, EarlyFacts DEF FinalizeOrEmpty, SessionState, TypeInv, TypeOK
<1>3. out'.pc \in {"emitting", "preparing", "finalizing"} /\ out'.turn = out.turn /\ ~out'.end
      /\ out'.gen \in {0, state.gen}
  BY ZenonT(60), <1>1, EarlyFacts DEF FinalizeOrEmpty, OutTask
<1>4. CASE out'.pc # "preparing"
  BY <1>1, <1>2, <1>3, <1>4, OutEarly
<1>5. CASE out'.pc = "preparing"
  <2>1. state.active
    BY <1>1, <1>5, EarlyFacts DEF FinalizeOrEmpty, OutTask
  <2>2. GenInv' /\ PastInv' /\ HandInv' /\ HeadInv'
    BY <1>1, <1>2, <1>3, <1>5, EarlyFacts DEF EarlyInv, GenInv, PastInv, HandInv, HeadInv
  <2>3. Live' = Live /\ Ending' = Ending
    BY <1>1, <1>2, <1>5 DEF Live, Ending
  <2>4. WayInv' /\ OwnInv'
    BY <1>1, <1>2, <1>5, <2>1, <2>3, EarlyFacts DEF EarlyInv, WayInv, OwnInv
  <2>5. SpeakingInv'
    BY <1>1, <1>2, <2>1, EarlyFacts DEF EarlyInv, SpeakingInv, Safe, Overheard, Hears, Carries
  <2>6. PlaceInv'
    BY <1>1, <1>2, <1>3, <1>5, EarlyFacts DEF EarlyInv, PlaceInv, Hears
  <2>. QED
    BY <2>2, <2>4, <2>5, <2>6 DEF EarlyInv
<1>. QED
  BY <1>4, <1>5

(* The oldest queued turn is taken up. *)
LEMMA FinalSentEarly ==
    ASSUME EarlyCtx, FinalSent
    PROVE  EarlyInv'
<1>1. /\ UNCHANGED <<deployment, mic, disp, heard, mgr>> /\ out.pc = "emitting"
      /\ state'.gen = state.gen /\ state'.active = state.active /\ state'.closed = state.closed
      /\ state'.pending = state.pending /\ state'.endpoint = state.endpoint
  BY EarlyFacts DEF FinalSent, SessionState, world, asrVars
<1>2. CASE out' = [out EXCEPT !.pc = out'.pc] /\ out'.pc \in {"over", "loop"}
  <2>1. out'.gen = out.gen /\ out'.turn = out.turn
    BY <1>2, EarlyFacts DEF OutTask
  <2>. QED
    BY <1>1, <1>2, <2>1, OutEarly
<1>3. CASE state.pending # <<>> /\ out' = [out EXCEPT !.pc = "reopening", !.turn = Head(state.pending)]
  <2>1. Head(state.pending) = state.pending[1] /\ 1 \in 1 .. Len(state.pending)
    BY <1>3, EarlyFacts, EmptySeq
  <2>2. out'.pc = "reopening" /\ out'.gen = out.gen /\ out'.turn = state.pending[1]
    BY <1>3, <2>1, EarlyFacts DEF OutTask
  <2>3. GenInv' /\ PastInv' /\ OwnInv'
    BY <1>1, <2>1, <2>2, EarlyFacts DEF EarlyInv, GenInv, PastInv, OwnInv
  <2>4. Live' = Live /\ Ending' = Ending
    BY <1>1, <2>2 DEF Live, Ending
  <2>5. HandInv'
    BY <1>1, <2>1, <2>2, EarlyFacts DEF EarlyInv, HandInv
  <2>6. WayInv'
    BY <1>1, <2>2, <2>4, EarlyFacts DEF EarlyInv, WayInv
  <2>7. SpeakingInv'
    BY <1>1, <2>2, <2>4, EarlyFacts DEF EarlyInv, SpeakingInv, Safe, Overheard, Hears, Carries
  <2>8. PlaceInv'
    BY <1>1, <2>1, <2>2, EarlyFacts DEF EarlyInv, PlaceInv, Hears
  <2>9. HeadInv'
    <3>1. \A i, j \in 1 .. Len(state.pending) : i < j => state.pending[i].utt < state.pending[j].utt
      BY EarlyFacts DEF EarlyInv, PastInv
    <3>2. \A i \in 2 .. Len(state.pending) : i \in 1 .. Len(state.pending) /\ 1 < i
      BY EarlyFacts
    <3>. QED
      BY <1>1, <2>1, <2>2, <3>1, <3>2 DEF HeadInv
  <2>. QED
    BY <2>3, <2>5, <2>6, <2>7, <2>8, <2>9 DEF EarlyInv
<1>. QED
  BY <1>2, <1>3, EarlyFacts DEF FinalSent, OutGoes, LoopOrReturn, OutTask

LEMMA ReopenEarly ==
    ASSUME EarlyCtx, ReopenTurn
    PROVE  EarlyInv'
<1>1. /\ UNCHANGED <<deployment, mic, disp, heard>> /\ out.pc = "reopening" /\ mgr'.gen = mgr.gen + 1
      /\ state'.gen = mgr.gen + 1 /\ state'.pending = state.pending /\ state'.endpoint = state.endpoint
      /\ out'.pc = "refeeding" /\ out'.gen = mgr.gen + 1 /\ out'.turn = out.turn
  BY EarlyFacts DEF ReopenTurn, OnSpeechStart, SessionState, OutTask, world
<1>2. ~Live' /\ ~Ending'
  BY <1>1, EarlyFacts DEF Live, Ending, EarlyInv, GenInv
<1>3. GenInv'
  BY <1>1, EarlyFacts DEF EarlyInv, GenInv
<1>4. \A g \in Generations : g > mgr.gen => heard[g] = {}
  BY EarlyFacts DEF EarlyInv, PastInv
<1>5. PastInv'
  <2>1. \A g \in Generations : g \in Nat /\ (g > mgr.gen + 1 => g > mgr.gen)
    BY EarlyFacts
  <2>2. PastInv
    BY EarlyFacts DEF EarlyInv
  <2>. QED
    BY <1>1, <2>1, <2>2 DEF PastInv
<1>6. HandInv' /\ HeadInv' /\ OwnInv'
  BY <1>1, EarlyFacts DEF EarlyInv, HandInv, HeadInv, OwnInv
<1>7. WayInv' /\ Safe'
  BY <1>1, <1>2 DEF WayInv, Safe
<1>8. PlaceInv'
  <2>1. \A g \in Generations : g = mgr.gen + 1 => heard[g] = {}
    BY <1>4, EarlyFacts
  <2>2. ~Hears(mic.utt)'
    BY <1>1, <2>1 DEF Hears
  <2>. QED
    BY <1>1, <1>2, <2>2, EarlyFacts DEF EarlyInv, PlaceInv
<1>. QED
  BY <1>3, <1>5, <1>6, <1>7, <1>8 DEF EarlyInv, SpeakingInv

(* The refed turn is older than any other in the queue; if it is the one     *)
(* still being spoken, its end is not latched.                             *)
LEMMA RefeedEarly ==
    ASSUME EarlyCtx, RefeedTurn
    PROVE  EarlyInv'
<1>. DEFINE k == Len(state.pending)
            u == out.turn.utt
<1>1. /\ UNCHANGED <<deployment, mic, disp, mgr>> /\ out.pc = "refeeding" /\ heard' = FedWith(u)
  BY DEF RefeedTurn, world
<1>2. u \in Nat /\ u \in 0 .. MaxUtterances /\ u <= mic.utt /\ mic.utt \in Nat /\ k \in Nat
  BY EarlyFacts DEF OutTask, Turns, EarlyInv, PastInv
<1>3. \A g \in Generations : /\ heard'[g] \subseteq heard[g] \cup {u}
                             /\ g # mgr.gen => heard'[g] = heard[g]
  BY <1>1, <1>2, FedFacts
<1>4. /\ state'.gen = state.gen /\ state'.active = state.active /\ state'.closed = state.closed
      /\ state'.endpoint = IF DetachedTurn.ended THEN [by |-> "vad", gen |-> out.gen] ELSE state.endpoint
      /\ state'.pending = IF state.pending = <<>> THEN <<>> ELSE Tail(state.pending)
  <2>. DEFINE latched == IF DetachedTurn.ended THEN [state EXCEPT !.endpoint = [by |-> "vad", gen |-> out.gen]]
                                               ELSE state
  <2>1. /\ latched.endpoint = IF DetachedTurn.ended THEN [by |-> "vad", gen |-> out.gen] ELSE state.endpoint
        /\ latched.gen = state.gen /\ latched.active = state.active /\ latched.closed = state.closed
        /\ latched.pending = state.pending
        /\ latched = [latched EXCEPT !.pending = latched.pending] /\ DOMAIN latched = DOMAIN state
    BY EarlyFacts DEF SessionState
  <2>2. CASE state.pending = <<>>
    <3>1. state' = latched
      BY <2>2 DEF RefeedTurn
    <3>. QED
      BY <2>1, <2>2, <3>1
  <2>3. CASE state.pending # <<>>
    <3>1. state' = [latched EXCEPT !.pending = Tail(@), !.draining = FALSE]
      BY <2>3 DEF RefeedTurn
    <3>. HIDE DEF latched
    <3>2. /\ state'.endpoint = latched.endpoint /\ state'.gen = latched.gen /\ state'.active = latched.active
          /\ state'.closed = latched.closed /\ state'.pending = Tail(latched.pending)
      BY <2>1, <3>1, EarlyFacts DEF SessionState
    <3>. QED
      BY <2>1, <2>3, <3>2
  <2>. QED
    BY <2>2, <2>3
<1>5. /\ out'.gen = out.gen /\ out'.turn = NoTurn
      /\ out'.pc \in (IF state.pending = <<>> THEN {"giveUp"} ELSE {"loop", "over"})
  BY EarlyFacts DEF RefeedTurn, OutTask, LoopOrReturn
<1>6. /\ Len(state'.pending) = (IF state.pending = <<>> THEN 0 ELSE k - 1)
      /\ \A i \in 1 .. Len(state'.pending) : /\ state'.pending[i] = state.pending[i + 1]
                                             /\ i + 1 \in 2 .. k /\ i + 1 \in 1 .. k
  <2>1. CASE state.pending = <<>>
    BY <1>4, <2>1
  <2>2. CASE state.pending # <<>>
    BY <1>2, <1>4, <2>2, EarlyFacts, HeadTailProperties
  <2>. QED
    BY <2>1, <2>2
<1>7. \A i \in 1 .. Len(state'.pending) : u < state'.pending[i].utt
  <2>1. \A i \in 2 .. k : u < state.pending[i].utt
    BY <1>1, EarlyFacts DEF EarlyInv, HeadInv
  <2>. QED
    BY <1>6, <2>1
<1>8. mic.talking /\ u = mic.utt => ~Live'
  BY <1>1, <1>4, DetachedFacts, EarlyFacts DEF Live, EarlyInv, PlaceInv
<1>9. GenInv'
  <2>1. out'.pc # "polled"
    BY <1>5
  <2>2. GenInv
    BY EarlyFacts DEF EarlyInv
  <2>3. state'.endpoint.gen \in {out.gen, state.endpoint.gen} /\ state'.endpoint.by \in {"vad", state.endpoint.by}
    BY <1>4
  <2>. QED
    BY <1>1, <1>4, <1>5, <2>1, <2>2, <2>3 DEF GenInv
<1>10. PastInv'
  <2>1. \A g \in Generations : /\ g > mgr.gen => heard'[g] = {}
                               /\ \A v \in heard'[g] : v <= mic.utt
    BY <1>2, <1>3, EarlyFacts DEF EarlyInv, PastInv
  <2>2. \A i \in 1 .. k : state.pending[i].utt <= mic.utt
    BY EarlyFacts DEF EarlyInv, PastInv
  <2>3. \A i \in 1 .. Len(state'.pending) : state'.pending[i].utt <= mic.utt
    BY <1>6, <2>2
  <2>4. \A i, j \in 1 .. k : i < j => state.pending[i].utt < state.pending[j].utt
    BY EarlyFacts DEF EarlyInv, PastInv
  <2>5. \A i, j \in 1 .. Len(state'.pending) : i < j => state'.pending[i].utt < state'.pending[j].utt
    <3>1. \A i, j \in 1 .. Len(state'.pending) : i < j => i + 1 < j + 1
      OBVIOUS
    <3>. QED
      BY <1>6, <2>4, <3>1
  <2>. QED
    BY <1>1, <1>2, <1>5, <2>1, <2>3, <2>5 DEF PastInv, NoTurn
<1>11. HandInv'
  <2>1. HandInv
    BY EarlyFacts DEF EarlyInv
  <2>2. ASSUME \A i \in 1 .. k : state.pending[i].utt < mic.utt
        PROVE  \A i \in 1 .. Len(state'.pending) : state'.pending[i].utt < mic.utt
    BY <1>6, <2>2
  <2>3. ASSUME u < mic.utt, \A g \in Generations : mic.utt \notin heard[g]
        PROVE  0 < mic.utt /\ \A g \in Generations : mic.utt \notin heard'[g]
    BY <1>2, <1>3, <2>3
  <2>4. state.pending = <<>> => state'.pending = <<>>
    BY <1>4
  <2>. QED
    BY <1>1, <1>5, <2>1, <2>2, <2>3, <2>4 DEF HandInv, NoTurn
<1>12. WayInv' /\ (Carries' => Safe')
  <2>1. disp.pc \in {"announce", "opening", "feeding"} => state.pending = <<>>
    BY EarlyFacts DEF EarlyInv, HandInv
  <2>2. state.pending = <<>> => ~Ending' /\ out'.pc = "giveUp"
    BY <1>5 DEF Ending
  <2>. QED
    BY <1>1, <1>5, <2>1, <2>2 DEF WayInv, Carries, Safe
<1>13. OwnInv' /\ HeadInv'
  BY <1>5 DEF OwnInv, HeadInv
<1>14. Hears(mic.utt)' => Hears(mic.utt) \/ u = mic.utt
  BY <1>1, <1>3 DEF Hears
<1>15. Overheard' => Safe'
  <2>1. CASE state.pending = <<>>
    BY <1>5, <2>1 DEF Safe, Ending
  <2>2. CASE state.pending # <<>>
    <3>1. mic.talking => ~Hears(mic.utt)
      BY <2>2, EarlyFacts DEF EarlyInv, PlaceInv
    <3>2. Overheard' => ~Live'
      BY <1>1, <1>8, <1>14, <3>1 DEF Overheard
    <3>. QED
      BY <1>5, <3>2 DEF Safe, Ending
  <2>. QED
    BY <2>1, <2>2
<1>16. PlaceInv'
  <2>. SUFFICES ASSUME mic.talking PROVE PlaceInv'
    BY <1>1 DEF PlaceInv
  <2>1. state'.pending # <<>> => ~Hears(mic.utt)'
    <3>. SUFFICES ASSUME state'.pending # <<>> PROVE ~Hears(mic.utt)'
      OBVIOUS
    <3>1. state.pending # <<>>
      BY <1>4
    <3>2. 1 \in 1 .. Len(state'.pending)
      <4>1. state'.pending \in Seq(Turns)
        BY <1>4, <3>1, EarlyFacts, HeadTailProperties
      <4>. QED
        BY <4>1, EmptySeq, LenProperties
    <3>3. u < mic.utt
      <4>1. u < state'.pending[1].utt /\ state'.pending[1].utt = state.pending[2].utt /\ 2 \in 1 .. k
        BY <1>6, <1>7, <3>2
      <4>2. state.pending[2].utt <= mic.utt /\ state.pending[2].utt \in Nat
        BY <4>1, EarlyFacts DEF EarlyInv, PastInv
      <4>. QED
        BY <1>2, <4>1, <4>2
    <3>4. ~Hears(mic.utt)
      BY <3>1, EarlyFacts DEF EarlyInv, PlaceInv
    <3>. QED
      BY <1>2, <1>14, <3>3, <3>4
  <2>2. \A i \in 1 .. Len(state'.pending) : state'.pending[i].utt = mic.utt => ~state'.pending[i].ended
    <3>1. \A i \in 1 .. k : state.pending[i].utt = mic.utt => ~state.pending[i].ended
      BY EarlyFacts DEF EarlyInv, PlaceInv
    <3>. QED
      BY <1>6, <3>1
  <2>. QED
    BY <1>1, <1>5, <2>1, <2>2 DEF PlaceInv, NoTurn
<1>. QED
  BY <1>9, <1>10, <1>11, <1>12, <1>13, <1>15, <1>16 DEF EarlyInv, SpeakingInv

LEMMA EarlyStep ==
    ASSUME TypeInv, BudgetInv, LockInv, Attentive => EarlyInv, [Next]_vars
    PROVE  (Attentive => EarlyInv)'
<1>. SUFFICES ASSUME Attentive' PROVE EarlyInv'
  OBVIOUS
<1>1. deployment' = deployment
  BY Storm
<1>2. EarlyCtx
  BY <1>1 DEF EarlyCtx, Attentive
<1>3. ~ClientEos
  BY <1>2, EarlyFacts DEF ClientEos
<1>. QED
  BY <1>2, <1>3, AudioEarly, JoinedEarly, QueueTurnEarly, StartTurnEarly, OpenTurnEarly, FeedTurnEarly, DropsEarly,
     ControlEarly, EngineEarly, PlainOutEarly, FailedEarly, PrepareEarly, JudgeEarly, EndpointEarly, FinalSentEarly,
     ReopenEarly, RefeedEarly
  DEF Next, Dispatch, AsrOut

LEMMA EarlyInit ==
    ASSUME Init
    PROVE  BudgetInv /\ LockInv /\ EarlyInv
<1>1. BudgetInv
  BY DEF Init, BudgetInv
<1>2. LockInv
  BY DEF Init, LockInv, DispSends, OutSends
<1>3. EarlyInv
  BY DEF Init, EarlyInv, GenInv, PastInv, HandInv, Hands, WayInv, OwnInv, SpeakingInv, Overheard, Carries, PlaceInv, HeadInv,
     NoEndpoint, NoSegment, NoTurn, Generations
<1>. QED
  BY <1>1, <1>2, <1>3

(* A finalize starts either once the endpoint has been sent, or once a       *)
(* prepare of the active generation is over.                               *)
LEMMA FinalizeSparesSpeech ==
    ASSUME TypeInv, BudgetInv, LockInv, Attentive => EarlyInv, [Next]_vars,
           NEW g \in Generations, mgr.st = "ACTIVE", mgr'.st = "FINALIZING", mgr.gen = g,
           deployment.detector = "vad", "eos" \notin deployment.disturb
    PROVE  ~(mic.talking /\ mic.utt \in heard[g])
<1>1. EarlyCtx
  BY DEF EarlyCtx, Attentive
<1>2. EndpointSent \/ PrepareAwaited \/ JudgeIdle \/ JudgePolled
  <2>1. mgr' # mgr /\ mgr' # [mgr EXCEPT !.st = "IDLE"] /\ mgr' # [st |-> "ACTIVE", gen |-> mgr.gen + 1]
    BY DEF TypeInv, TypeOK
  <2>2. \A seg \in Segments : ~ReceiveAudio(seg)
    BY <2>1 DEF ReceiveAudio, asrVars
  <2>3. ~Dispatch /\ ~JoinTimesOut /\ ~OpenTurnFails
    BY <2>1 DEF Dispatch, Joined, QueueTurn, StartTurn, OpenTurn, OnSpeechStart, FeedTurn, Notified, JamReported,
       RefusalReported, JoinTimesOut, OpenTurnFails, asrVars
  <2>4. ~ClientEos /\ ~ClientPrepare /\ ~KeepingAbort /\ ~Abort /\ ~Leave
    BY <2>1 DEF ClientEos, ClientPrepare, KeepingAbort, Abort, Leave, asrVars
  <2>5. ~FinalizeEnds /\ ~PrepareEnds /\ ~AbortCancelEnds /\ ~EngineFalls /\ ~UNCHANGED vars
    BY <2>1 DEF FinalizeEnds, PrepareEnds, AbortCancelEnds, EngineFalls, CancelStream, asrVars, vars
  <2>6. ~DeadlineExpires /\ ~FinalTimesOut /\ ~ReopenFails
    BY <2>1 DEF DeadlineExpires, FinalTimesOut, ReopenFails, asrVars
  <2>7. AsrOut => EndpointSent \/ PrepareAwaited \/ JudgeIdle \/ JudgePolled
    BY <2>1 DEF AsrOut, Poll, FinalAccepted, FinalRejected, FinalAborted, TimedOutCancelled, FailureReported, FinalSent,
       DropExpiredTurn, ExpiryReported, ReopenTurn, RefeedTurn, GiveUpTurn, CancelStream, OnSpeechStart, asrVars
  <2>. QED
    BY <2>2, <2>3, <2>4, <2>5, <2>6, <2>7 DEF Next
<1>3. ~JudgeIdle /\ ~JudgePolled
  <2>1. Reason # "client_eos" /\ mgr' # mgr
    BY <1>1, EarlyFacts DEF Reason, EarlyInv, GenInv
  <2>2. \A end : ~Judge(end)
    BY <2>1 DEF Judge
  <2>. QED
    BY <2>2 DEF JudgeIdle, JudgePolled
<1>4. state.active /\ (out.pc = "fired" \/ (out.pc = "preparing" /\ out.gen = state.gen))
  <2>1. mgr' # mgr
    OBVIOUS
  <2>. QED
    BY <1>2, <1>3, <2>1 DEF EndpointSent, FinalizeOrEmpty, PrepareAwaited
<1>5. ~Overheard
  BY <1>1, <1>4, EarlyFacts DEF EarlyInv, SpeakingInv, Safe
<1>. QED
  BY <1>4, <1>5 DEF Overheard, Hears

(* While the frontend detector ends the turns and no client forces an end,  *)
(* an utterance still being spoken is never finalized: neither a stale       *)
(* endpoint, nor a prepare that ends late, nor the drain of an older turn    *)
(* takes the stream it is fed to away from it.                             *)
THEOREM FinalizedWhenOver == Spec => NotTooEarly
<1>1. Init => TypeInv /\ BudgetInv /\ LockInv /\ (Attentive => EarlyInv)
  BY TypeInit, EarlyInit
<1>2. TypeInv /\ BudgetInv /\ LockInv /\ (Attentive => EarlyInv) /\ [Next]_vars
        => (TypeInv /\ BudgetInv /\ LockInv /\ (Attentive => EarlyInv))'
  BY TypeStep, BudgetStep, LockStep, EarlyStep
<1>3. TypeInv /\ BudgetInv /\ LockInv /\ (Attentive => EarlyInv) /\ [Next]_vars
        => [\A g \in Generations :
              /\ mgr.st = "ACTIVE" /\ mgr'.st = "FINALIZING" /\ mgr.gen = g
              /\ deployment.detector = "vad" /\ "eos" \notin deployment.disturb
              => ~(mic.talking /\ mic.utt \in heard[g])]_vars
  BY FinalizeSparesSpeech
<1>. QED
  BY <1>1, <1>2, <1>3, PTL DEF Spec, NotTooEarly
=============================================================================
