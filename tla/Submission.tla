------------------------------ MODULE Submission ------------------------------
(***************************************************************************)
(* What the bus promises about the change requests it submits, seen from   *)
(* FireFlow: for one Jira issue at most one create is ever sent, only      *)
(* after it is on record that it may be, and it counts as finished only    *)
(* once FireFlow answered it.                                              *)
(***************************************************************************)
EXTENDS Naturals

CONSTANT Issue

VARIABLES phase,   \* "unsent", "begun" (on record before the send), "finished"
          sends    \* creates sent to FireFlow for the issue

vars == <<phase, sends>>

Init == /\ phase = [i \in Issue |-> "unsent"]
        /\ sends = [i \in Issue |-> 0]

Begin(i) == /\ phase[i] = "unsent"
            /\ phase' = [phase EXCEPT ![i] = "begun"]
            /\ UNCHANGED sends

Send(i) == /\ phase[i] = "begun"
           /\ sends[i] = 0
           /\ sends' = [sends EXCEPT ![i] = 1]
           /\ UNCHANGED phase

Finish(i) == /\ phase[i] = "begun"
             /\ sends[i] = 1
             /\ phase' = [phase EXCEPT ![i] = "finished"]
             /\ UNCHANGED sends

Next == \E i \in Issue : Begin(i) \/ Send(i) \/ Finish(i)

Spec == Init /\ [][Next]_vars
=============================================================================
