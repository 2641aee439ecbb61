--------------------------- MODULE MCRuntimeBroker ---------------------------
(* Instances of RuntimeBroker for TLC. *)
EXTENDS RuntimeBroker, TLC

Symmetry == Permutations(Callers) \cup Permutations(Requests)
=============================================================================
