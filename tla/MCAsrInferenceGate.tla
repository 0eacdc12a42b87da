-------------------------- MODULE MCAsrInferenceGate --------------------------
(* Instances of AsrInferenceGate for TLC. *)
EXTENDS AsrInferenceGate, TLC

Symmetry == Permutations(Tasks)

=============================================================================
