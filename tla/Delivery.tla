------------------------------ MODULE Delivery ------------------------------
(***************************************************************************)
(* What the bus promises about one stream of events of a Jira issue, its   *)
(* comments or its status changes: from a point on, each event that is     *)
(* meant for FireFlow gets there once, in Jira's order, whatever stops the *)
(* bus on the way.  A delivery is opened on record before anything is      *)
(* sent, stays open until FireFlow is known to have the event, and only    *)
(* then the mark moves past it; while one is open no other is begun.       *)
(*                                                                         *)
(* How it is known what FireFlow has, with receipts, parked deliveries and *)
(* a person's word, is in JiraUpdates.tla, which implements this.          *)
(***************************************************************************)
EXTENDS Integers, Sequences

VARIABLES
  \* Jira
  live,    \* the events one can read now
  meant,   \* those meant for FireFlow
  last,    \* the number of the last event
  \* on record
  begun,   \* whether the stream is delivered at all yet
  mark,    \* the number up to which it is done with
  open,    \* the event whose delivery is open, or 0
  \* FireFlow
  done,    \* the events it has
  log      \* those it was sent, in their order

jira == <<live, meant, last>>
record == <<begun, mark, open>>
fireflow == <<done, log>>
vars == <<jira, record, fireflow>>

Init == /\ live = {} /\ meant = {} /\ last = 0
        /\ ~begun /\ mark = 0 /\ open = 0
        /\ done = {} /\ log = <<>>

-----------------------------------------------------------------------------
Happen == /\ last' = last + 1
          /\ live' = live \union {last'}
          /\ meant' \in {meant, meant \union {last'}}
          /\ UNCHANGED <<record, fireflow>>

Withdraw == /\ \E e \in live : live' = live \ {e}
            /\ UNCHANGED <<meant, last, record, fireflow>>

(* What there was before stays undelivered. *)
Begin == /\ ~begun
         /\ begun' = TRUE
         /\ mark' \in 0..last
         /\ UNCHANGED <<jira, open, fireflow>>

(* The next to deliver can be read and is meant for FireFlow, and so is    *)
(* none before it.                                                         *)
NoneBefore(e) == \A x \in live \intersect meant : mark < x => e <= x

Open == /\ begun
        /\ open = 0
        /\ open' \in meant
        /\ mark < open'
        /\ NoneBefore(open')
        /\ UNCHANGED <<jira, begun, mark, fireflow>>

(* FireFlow gets it, or has had it already without the bus. *)
Settle == /\ open # 0
          /\ open \notin done
          /\ done' = done \union {open}
          /\ log' \in {log, Append(log, open)}
          /\ UNCHANGED <<jira, record>>

Close == /\ open \in done
         /\ mark' = open
         /\ open' = 0
         /\ UNCHANGED <<jira, begun, fireflow>>

(* Events that are not for FireFlow are passed. *)
Pass == /\ begun
        /\ open = 0
        /\ mark < mark' /\ mark' <= last
        /\ NoneBefore(mark' + 1)
        /\ UNCHANGED <<jira, begun, open, fireflow>>

Next == Happen \/ Withdraw \/ Begin \/ Open \/ Settle \/ Close \/ Pass

Spec == Init /\ [][Next]_vars
=============================================================================
