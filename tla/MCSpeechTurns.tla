--------------------------- MODULE MCSpeechTurns ---------------------------
(* Sessions of /v2v/stream, one kind per initial state.                     *)
EXTENDS SpeechTurns

Session(multi, detector, disturb, utterances) ==
    [multi |-> multi, detector |-> detector, disturb |-> disturb,
     utterances |-> utterances]

MCDeployments ==
    {Session(TRUE, "vad", {"keep", "prepare"}, 3),
     Session(TRUE, "vad", {"abort"}, 3),
     Session(TRUE, "vad", {"eos", "leave", "overflow"}, 2),
     Session(TRUE, "vad", {"deadline"}, 2),
     Session(TRUE, "vad", {"timeout"}, 2),
     Session(TRUE, "vad", {"unavailable"}, 2),
     Session(TRUE, "backend", {"abort"}, 1),
     Session(TRUE, "backend", {"crash"}, 1),
     Session(TRUE, "none", {"eos", "abort", "jam"}, 1),
     Session(FALSE, "vad", {"eos", "abort"}, 2),
     Session(FALSE, "backend", {"timeout"}, 2)}

(* Sessions in which the code breaks what its text says. *)
AbortedSession == {Session(TRUE, "vad", {"abort"}, 1)}
ExpiringSession == {Session(TRUE, "vad", {"deadline"}, 2)}
=============================================================================
