---------------------------- MODULE MCJiraUpdates ----------------------------
(* The events of each stream, for TLC. *)
EXTENDS JiraUpdates

TwoComments == [comments |-> 2, statuses |-> 1]
OneEach == [comments |-> 1, statuses |-> 1]
=============================================================================
