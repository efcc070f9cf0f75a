------------------------------ MODULE EventLog ------------------------------
(***************************************************************************)
(* What the event log of one thread promises to those who append to it and *)
(* to those who read it by sequence number: events are only added at the   *)
(* end, numbered 1, 2, 3, ... without gaps, and a number that an appender  *)
(* is given is the place of an event of its own that it was not given      *)
(* before.  An event is represented by the appender that wrote it.         *)
(***************************************************************************)
EXTENDS Naturals, Sequences

CONSTANT Appender

VARIABLES
    log,    \* the events, in order
    told    \* appender -> the sequence numbers its calls returned

vars == <<log, told>>

Init ==
    /\ log = <<>>
    /\ told = [a \in Appender |-> {}]

Put(a) ==
    /\ log' = Append(log, a)
    /\ UNCHANGED told

Tell(a) ==
    /\ \E s \in DOMAIN log \ told[a] :
         /\ log[s] = a
         /\ told' = [told EXCEPT ![a] = @ \cup {s}]
    /\ UNCHANGED log

Next == \E a \in Appender : Put(a) \/ Tell(a)

Spec == Init /\ [][Next]_vars
=============================================================================
