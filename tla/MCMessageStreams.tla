-------------------------- MODULE MCMessageStreams --------------------------
(* Instances of MessageStreams for TLC. *)
EXTENDS MessageStreams, TLC

Namespaces == Permutations(Namespace)
=============================================================================
