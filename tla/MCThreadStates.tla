-------------------------- MODULE MCThreadStates --------------------------
(* Instances of ThreadStates for TLC. *)
EXTENDS ThreadStates, TLC

ActorSymmetry == Permutations(Actor) \cup Permutations(Process)
=============================================================================
