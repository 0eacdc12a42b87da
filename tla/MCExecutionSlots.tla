-------------------------- MODULE MCExecutionSlots --------------------------
(* Servers in the three modes of the coordinator, one per initial state.    *)
EXTENDS ExecutionSlots

CONSTANTS s1, s2, s3, d1, k1, c1

Server(mode, maxSessions, parallel, tasks, cancelled, may) ==
    [mode |-> mode, maxSessions |-> maxSessions, parallel |-> parallel,
     tasks |-> tasks, cancelled |-> cancelled, insistent |-> {}, reloads |-> may,
     unloads |-> Kinds]

\* One resident backend: a connection, a decode, a Kokoro synthesis and a clone
\* evict each other, as far as their backends can be unloaded.
ExclusiveServer(tasks, unloads) ==
    [Server("exclusive", 2, FALSE, tasks, {k1}, 0) EXCEPT !.unloads = unloads]

MCDeployments ==
    { \* An uncapped serial runtime behind the gate.
      Server("serialized", Uncapped, FALSE, {s1, s2, s3, d1, k1}, {s1, s2, k1}, 1),
      ExclusiveServer({s1, s2, d1, k1, c1}, Kinds),
      \* The synthesis backend stays when it is told to go, or neither goes.
      ExclusiveServer({s1, d1, k1}, {"asr"}), ExclusiveServer({s1, k1, c1}, {}),
      \* No lock at all: three sessions, utterances in flight, and reloads.
      Server("concurrent", 3, TRUE, {s1, s2, s3, d1, k1}, {s1, s2, s3}, 1) }

(* Servers in which the code breaks what its text says. *)
LeftBehind == {Server("serialized", Uncapped, TRUE, {s1, k1}, {s1}, 0)}
CancelledClone == {Server("serialized", Uncapped, FALSE, {c1, k1}, {c1}, 0)}

=============================================================================
