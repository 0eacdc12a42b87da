------------------------- MODULE MCSessionAdmission -------------------------
(* Servers that admit v2v sessions, one kind per initial state.             *)
EXTENDS SessionAdmission

Server(limit, realtime, engine) ==
    [limit |-> limit, realtime |-> realtime, engine |-> engine]

\* One slot, where newcomers evict, on both paths; the legacy path with two
\* slots, hence no eviction, and Realtime clients.
MCDeployments ==
    {Server(1, FALSE, TRUE), Server(1, FALSE, FALSE), Server(2, TRUE, FALSE)}

(* Servers in which the code breaks what its text says. *)
RealtimeServer == {Server(1, TRUE, TRUE)}
LegacyServer == {Server(1, FALSE, FALSE)}

=============================================================================
