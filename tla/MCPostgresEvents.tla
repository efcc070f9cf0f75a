-------------------------- MODULE MCPostgresEvents --------------------------
EXTENDS PostgresEvents, TLC

CONSTANTS a1, a2, a3, p1, p2, r1

\* Two tasks of one process and one of another.
TwoProcesses == [a \in Appender |-> IF a = a3 THEN p2 ELSE p1]
=============================================================================
