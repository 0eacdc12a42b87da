-------------------------- MODULE MCSpeechOutput --------------------------
(* Sessions of /v2v/stream that speak, one kind per initial state.          *)
EXTENDS SpeechOutput

Session(multi, spawns, serial, disturb, sentences, flushes) ==
    [multi |-> multi, spawns |-> spawns, serial |-> serial, disturb |-> disturb,
     sentences |-> sentences, flushes |-> flushes]

MCDeployments ==
    {Session(TRUE, FALSE, TRUE, {}, 2, 2),
     Session(TRUE, FALSE, TRUE, {"abort", "hang"}, 2, 1),
     Session(TRUE, FALSE, FALSE, {"hang"}, 2, 1),
     Session(TRUE, FALSE, TRUE, {"cancel"}, 1, 2),
     Session(TRUE, TRUE, TRUE, {"leave", "hang"}, 1, 1),
     Session(TRUE, FALSE, TRUE, {"reset", "barge"}, 1, 1),
     Session(TRUE, TRUE, TRUE, {"abort", "reset"}, 2, 1),
     Session(FALSE, TRUE, TRUE, {"mute", "close", "error"}, 2, 1),
     Session(FALSE, FALSE, TRUE, {"asrFails", "abort"}, 1, 1)}

(* Sessions in which the code breaks what its text says. *)
FailingSession == {Session(TRUE, FALSE, TRUE, {"asrFails"}, 1, 1)}
InterruptedSession == {Session(TRUE, FALSE, TRUE, {"barge"}, 2, 1)}

(***************************************************************************)
(* Properties                                                              *)
(***************************************************************************)
(* A flush is honoured: the turn gets its tts_done, or the session is over,  *)
(* though sentences hang, fail or are aborted.                             *)
FlushIsAnswered ==
    state.flush ~> (~state.flush \/ out.pc = "over" \/ asr = "failed")

(* A client that leaves gives its slot back, though a sentence hangs.        *)
LeaveReleases == client.closed ~> handler = "released"

(***************************************************************************)
(* Claims the code breaks                                                  *)
(***************************************************************************)
(* Speech start has the same effect on speech as abort.                     *)
BargeInSilences ==
    [][\A s \in Sentences :
          drain[s].pc = "started" /\ drain'[s].pc = "speaking"
             => s > history.aborted /\ s > history.barged]_vars

(* Whatever ends the session, the handler's finally releases its slot.       *)
TeardownReleases == handler = "closing" ~> handler = "released"

=============================================================================
