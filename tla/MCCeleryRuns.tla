---------------------------- MODULE MCCeleryRuns ----------------------------
EXTENDS CeleryRuns, TLC

CONSTANTS q1, q2, q3, p1, p2, w1, w2

Symmetry == Permutations({w1, w2})
OneReplica == [q \in Request |-> p1]
TwoReplicas == [q \in Request |-> IF q = q1 THEN p1 ELSE p2]
=============================================================================
