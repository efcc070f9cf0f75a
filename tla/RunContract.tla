---------------------------- MODULE RunContract ----------------------------
(***************************************************************************)
(* What a run of the stream backend promises to its clients, whichever     *)
(* process executes it (docs/architecture/state-machines.md, sections 1    *)
(* and 2): it is created pending, may run, ends once and for all, and its  *)
(* end is announced in the event log only after the record shows it, so a  *)
(* client that is told of the end and reads the record finds an end there. *)
(***************************************************************************)
CONSTANT RunId

VARIABLES
    status,     \* run -> the status of its record
    announced   \* runs with a terminal lifecycle event

vars == <<status, announced>>

Active == {"pending", "running"}
Terminal == {"success", "error", "interrupted"}

Init ==
    /\ status = [r \in RunId |-> "absent"]
    /\ announced = {}

Create(r) ==
    /\ status[r] = "absent"
    /\ status' = [status EXCEPT ![r] = "pending"]
    /\ UNCHANGED announced

Start(r) ==
    /\ status[r] = "pending"
    /\ status' = [status EXCEPT ![r] = "running"]
    /\ UNCHANGED announced

Finish(r) ==
    /\ status[r] \in Active
    /\ \E outcome \in Terminal : status' = [status EXCEPT ![r] = outcome]
    /\ UNCHANGED announced

Announce(r) ==
    /\ status[r] \in Terminal
    /\ announced' = announced \cup {r}
    /\ UNCHANGED status

Next == \E r \in RunId : Create(r) \/ Start(r) \/ Finish(r) \/ Announce(r)

Spec == Init /\ [][Next]_vars
=============================================================================
