---------------------------- MODULE MCTtsStream ----------------------------
(* TtsStream on a small instance: three sentences, a window of one. *)
EXTENDS TtsStream
=============================================================================
