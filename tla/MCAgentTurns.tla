---------------------------- MODULE MCAgentTurns ----------------------------
(* Deployments of AgentTurns for TLC: whether the client VAD drives the      *)
(* endpoint, turns, segments and disturbances.                               *)
EXTENDS AgentTurns

D(drive, turns, segments, disturb) ==
    [drive |-> drive, contended |-> FALSE, patient |-> TRUE, turns |-> turns, segments |-> segments,
     disturb |-> disturb]
ServerVad(turns, disturb) == D(FALSE, turns, 0, disturb)
ClientVad(turns, segments, disturb) == D(TRUE, turns, segments, disturb)

(* A reply is superseded and the server stops speaking. *)
Superseded == ServerVad(2, {"wedge"})

MCDeployments ==
    {ServerVad(2, {"fail"}), ServerVad(2, {"loss"}), ServerVad(2, {"stop"}), Superseded,
     ServerVad(1, {"sleep", "wedge"}), ServerVad(1, {"wedge", "loss"}),
     [ServerVad(1, {}) EXCEPT !.contended = TRUE],
     ClientVad(1, 2, {}), ClientVad(2, 1, {}), ClientVad(1, 1, {"loss"}),
     [ClientVad(1, 1, {"wedge"}) EXCEPT !.patient = FALSE]}

SleepingAgent == {ServerVad(1, {"sleep"})}
EagerUser == {ServerVad(2, {})}
=============================================================================
