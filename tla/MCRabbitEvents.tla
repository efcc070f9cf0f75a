--------------------------- MODULE MCRabbitEvents ---------------------------
(* Instances of RabbitEvents for TLC. *)
EXTENDS RabbitEvents, TLC

Tasks == Permutations(Appender)
=============================================================================
