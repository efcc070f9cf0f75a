---------------------------- MODULE MCAssistants ----------------------------
(* Instances of Assistants for TLC. *)
EXTENDS Assistants, TLC

ActorSymmetry == Permutations(Actor) \cup Permutations(Process)
=============================================================================
