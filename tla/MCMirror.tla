------------------------------- MODULE MCMirror -------------------------------
(* A request that is implemented, then resolved by another owner, with or  *)
(* without evidence; a board of three places.                              *)
EXTENDS Mirror

Seen(s, w, e) == [status |-> s, owner |-> w, evidence |-> e]

MCStatus == {"implement", "resolved"}
MCPlace == {"Submitted", "Progress", "Done"}

MCObservation == {Seen("implement", "ann", "no"), Seen("resolved", "bob", "no"),
                  Seen("resolved", "bob", "yes")}

(* Every other place can be reached, none by a transition to itself. *)
MCOffered == {m \in MCPlace \X MCPlace : m[1] # m[2]}

MCTransitions == [s \in MCStatus |-> IF s = "implement" THEN "Progress" ELSE None]

MCRules == {[status |-> "resolved", evidence |-> "yes", target |-> "Done"]}

MCStatusMap == [p \in MCPlace |-> IF p = "Done" THEN "resolved" ELSE None]
=============================================================================
