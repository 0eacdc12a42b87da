----------------------------- MODULE MCWorkerIO -----------------------------
(* Values for model checking WorkerIO. *)
EXTENDS WorkerIO, TLC

=============================================================================
