----------------------------- MODULE EventFeed -----------------------------
(***************************************************************************)
(* What is promised to those who follow the events of a thread by number,  *)
(* whichever log or broker the events come from: a new event has a number  *)
(* above all that are there, and a follower is given the events behind the *)
(* one it began with, each once, in order, and none is left out.           *)
(***************************************************************************)
EXTENDS Integers

CONSTANTS
    Follower,
    Before      \* a number below those of all events

VARIABLES
    events,     \* the numbers of the events there are
    last,       \* follower -> the number it goes on behind
    given       \* follower -> the events it was given

vars == <<events, last, given>>

Init ==
    /\ events = {}
    /\ last = [f \in Follower |-> Before]
    /\ given = [f \in Follower |-> {}]

Publish ==
    /\ events \subseteq events'
    /\ \A n \in events' \ events : n > Before /\ \A e \in events : n > e
    /\ UNCHANGED <<last, given>>

\* A follower that was given nothing comes with the number of an event it knows.
Come(f) ==
    /\ last[f] = Before /\ given[f] = {}
    /\ \E n \in events : last' = [last EXCEPT ![f] = n]
    /\ UNCHANGED <<events, given>>

\* All events behind the last one, up to some event.
Give(f) ==
    \E n \in events :
      /\ n > last[f]
      /\ last' = [last EXCEPT ![f] = n]
      /\ given' = [given EXCEPT ![f] = @ \cup {e \in events : last[f] < e /\ e <= n}]
      /\ UNCHANGED events

Next == Publish \/ \E f \in Follower : Come(f) \/ Give(f)

Spec == Init /\ [][Next]_vars
=============================================================================
