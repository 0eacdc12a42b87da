--------------------------- MODULE MCBackendManager ---------------------------
(* Instances of BackendManager for TLC. *)
EXTENDS BackendManager

=============================================================================
