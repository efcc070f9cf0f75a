-------------------------- MODULE MCInProcessRuns --------------------------
(* Instances of InProcessRuns for TLC. *)
EXTENDS InProcessRuns, TLC

RequestSymmetry == Permutations(Request)
=============================================================================
