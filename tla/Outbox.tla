-------------------------------- MODULE Outbox --------------------------------
(***************************************************************************)
(* What the mirror promises to those who look at the Jira issue.  Whatever *)
(* Jira is to be given, result fields and a place on the board, is owed: it *)
(* is on file before it is sent, stays there while Jira refuses it or its  *)
(* answer is lost, and is struck off only after Jira has it.  A status is  *)
(* reported, in a comment, only when nothing is owed; and the card is      *)
(* given only the place of the status that was reported last.              *)
(*                                                                         *)
(* People may move the card too.  Once the file is marked with their move  *)
(* the card is owed no new place before the next status is reported.       *)
(*                                                                         *)
(* Mirror.tla implements this.                                             *)
(***************************************************************************)
CONSTANTS None,   \* nothing owed
          Goal    \* the place on the board of each status, or None

VARIABLES
  \* Jira
  board,   \* where the card is
  shown,   \* the result fields
  told,    \* what the last comment reports
  \* on file
  seen,    \* the last report that is recorded
  fields,  \* the result fields that are owed
  card,    \* the place that is owed
  marked,  \* people have moved the card since
  \* in hand
  done     \* what Jira has just done and the file does not say yet:
           \* "none", "fields", "card" or "comment"

jira == <<board, shown, told>>
file == <<seen, fields, card, marked>>
vars == <<jira, file, done>>

(* A linked issue may come with what its create, or an older version of    *)
(* the bus, has left to be done.                                           *)
Init == told = seen /\ ~marked /\ done = "none"

NothingOwed == fields = None /\ card = None

-----------------------------------------------------------------------------
ByHand == /\ board' # board
          /\ UNCHANGED <<shown, told, file, done>>

Mark == /\ done = "none"
        /\ marked' = TRUE
        /\ UNCHANGED <<jira, seen, fields, card, done>>

Unmark == /\ done = "none"
          /\ NothingOwed
          /\ marked' = FALSE
          /\ UNCHANGED <<jira, seen, fields, card, done>>

OweFields == /\ done = "none"
             /\ NothingOwed
             /\ fields' # None
             /\ UNCHANGED <<jira, seen, card, marked, done>>

(* Jira does it, and the mirror knows, or never hears of it.               *)
PutFields == /\ done = "none"
             /\ fields # None
             /\ shown' = fields
             /\ done' \in {"none", "fields"}
             /\ UNCHANGED <<board, told, file>>

StrikeFields == /\ done = "fields"
                /\ shown = fields
                /\ fields' = None
                /\ done' = "none"
                /\ UNCHANGED <<jira, seen, card, marked>>

OweCard == /\ done = "none"
           /\ NothingOwed
           /\ ~marked
           /\ card' # None
           /\ card' = Goal[seen]
           /\ UNCHANGED <<jira, seen, fields, marked, done>>

MoveCard == /\ done = "none"
            /\ fields = None
            /\ card # None
            /\ board' = card
            /\ done' \in {"none", "card"}
            /\ UNCHANGED <<shown, told, file>>

StrikeCard == /\ done = "card"
              /\ card' = None
              /\ done' = "none"
              /\ UNCHANGED <<jira, seen, fields, marked>>

Report == /\ done = "none"
          /\ NothingOwed
          /\ told' # seen
          /\ done' \in {"none", "comment"}
          /\ UNCHANGED <<board, shown, file>>

(* The report is recorded together with the place it makes owed, if any.   *)
RecordReport == /\ done = "comment"
                /\ NothingOwed
                /\ seen' = told
                /\ \/ card' = None
                   \/ ~marked /\ card' = Goal[told]
                /\ marked' = FALSE
                /\ done' = "none"
                /\ UNCHANGED <<jira, fields>>

(* What was done is forgotten before it is on file: it stays owed. *)
Forget == /\ done # "none"
          /\ done' = "none"
          /\ UNCHANGED <<jira, file>>

Next == \/ ByHand \/ Mark \/ Unmark
        \/ OweFields \/ PutFields \/ StrikeFields
        \/ OweCard \/ MoveCard \/ StrikeCard
        \/ Report \/ RecordReport
        \/ Forget

Spec == Init /\ [][Next]_vars
=============================================================================
