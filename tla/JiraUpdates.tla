------------------------------ MODULE JiraUpdates ------------------------------
(***************************************************************************)
(* Jira comments and status changes of one linked issue are delivered to   *)
(* its FireFlow request (jira_updates.sync_updates), through the adapter's *)
(* legacy RT mutation with its receipts (fireflow._rt_replay, _rt_mutate,  *)
(* add_comment, set_status), with the operator's two ways out of an        *)
(* ambiguous delivery (bus.acknowledge_jira_update, bus.retry_jira_update).*)
(*                                                                         *)
(* Issues do not share a cursor, a ticket or a receipt, so one is enough.  *)
(* A pass holds the state lock (StateFile.tla) and saves its copy of the   *)
(* cursor after every change, so the saved cursor is modelled in place; it *)
(* may be killed between any two steps.                                    *)
(*                                                                         *)
(* An event is its numeric Jira id.  The operation id is made from stream, *)
(* event and the number of operator retries, so a receipt is per those.    *)
(***************************************************************************)
EXTENDS Integers, FiniteSets, Sequences

CONSTANTS MaxEvents,    \* bound: the events each stream ever has
          MaxRetries,   \* operator retries allowed for one event (10 in bus.py)
          Tears,        \* whether writing a result receipt may stop half way
          MaxCrashes    \* bound: how often the process is killed

(* The order in which a pass works through the streams. *)
Stream == {"comments", "statuses"}
After == [comments |-> "statuses", statuses |-> "end"]

ASSUME BoundAssumption == /\ MaxEvents \in [Stream -> Nat]
                          /\ MaxRetries \in Nat
                          /\ MaxCrashes \in Nat

ASSUME TearsAssumption == Tears \in BOOLEAN

Event == UNION {1..MaxEvents[s] : s \in Stream}
Operation == Stream \X Event \X (0..MaxRetries)

VARIABLES
  live,       \* Jira: the events one can read now, of each stream
  top,        \* Jira: the last id given in each stream
  wanted,     \* Jira: those meant for FireFlow: neither made by the bus, nor
              \* restricted, nor a status the status_map leaves out
  cursor,     \* state file: jira_sync of the linked entry
  receipt,    \* the adapter's receipt of each operation
  applied,    \* FireFlow: the events applied to the ticket, in order
  pc, at,     \* the pass: its place, and its stream
  rows,       \* the pass: what it read of each stream
  base,       \* history: the baseline of each stream
  settled,    \* history: events applied, found in place, or acknowledged
  crashes     \* history: how often the process was killed

jira == <<live, top, wanted>>
vars == <<jira, cursor, receipt, applied, pc, at, rows, base, settled, crashes>>

(* No cursor yet; pending = 0 stands for no pending delivery, seen = 0 for *)
(* an empty `seen`.                                                        *)
NoCursor == [known |-> FALSE, seen |-> 0, pending |-> 0, try |-> 0, parked |-> FALSE]

Init == /\ live = [s \in Stream |-> {}]
        /\ top = [s \in Stream |-> 0]
        /\ wanted = [s \in Stream |-> {}]
        /\ cursor = [s \in Stream |-> NoCursor]
        /\ receipt = [o \in Operation |-> "none"]
        /\ applied = [s \in Stream |-> <<>>]
        /\ pc = "idle"
        /\ at = "end"
        /\ rows = [s \in Stream |-> {}]
        /\ base = [s \in Stream |-> 0]
        /\ settled = [s \in Stream |-> {}]
        /\ crashes = 0

-----------------------------------------------------------------------------
(* People and the bus itself add events in Jira, and people delete comments.*)
Happen(s) == /\ top[s] < MaxEvents[s]
             /\ top' = [top EXCEPT ![s] = @ + 1]
             /\ live' = [live EXCEPT ![s] = @ \union {top'[s]}]
             /\ wanted' \in {wanted, [wanted EXCEPT ![s] = @ \union {top'[s]}]}
             /\ UNCHANGED <<cursor, receipt, applied, pc, at, rows, base, settled, crashes>>

Delete(e) == /\ e \in live["comments"]
             /\ live' = [live EXCEPT !["comments"] = @ \ {e}]
             /\ UNCHANGED <<top, wanted, cursor, receipt, applied, pc, at, rows, base,
                            settled, crashes>>

-----------------------------------------------------------------------------
Parked == \E s \in Stream : cursor[s].pending # 0 /\ cursor[s].parked

(* The pass over this issue is over; the exception of a failed one is      *)
(* caught, and the cursor keeps what was saved.                            *)
Over == pc' = "idle" /\ at' = "end" /\ rows' = [s \in Stream |-> {}]

(* A parked issue is not even read. *)
ReadComments == /\ pc = "idle"
                /\ ~Parked
                /\ rows' = [rows EXCEPT !["comments"] = live["comments"]]
                /\ pc' = "read"
                /\ at' = "comments"
                /\ UNCHANGED <<jira, cursor, receipt, applied, base, settled, crashes>>

(* Both streams are read before anything is saved. *)
ReadStatuses == /\ pc = "read"
                /\ rows' = [rows EXCEPT !["statuses"] = live["statuses"]]
                /\ pc' = "stream"
                /\ UNCHANGED <<jira, cursor, receipt, applied, at, base, settled, crashes>>

ReadFails == /\ pc = "read"
             /\ Over
             /\ UNCHANGED <<jira, cursor, receipt, applied, base, settled, crashes>>

(* _watermark *)
Highest(S) == IF S = {} THEN 0 ELSE CHOOSE e \in S : \A x \in S : x <= e

NextStream == IF After[at] = "end" THEN Over
              ELSE pc' = "stream" /\ at' = After[at] /\ UNCHANGED rows

(* A fault, for the mutants: the baseline is remembered as empty. *)
BootstrapEmpty == /\ pc = "stream"
                  /\ ~cursor[at].known
                  /\ cursor' = [cursor EXCEPT ![at].known = TRUE]
                  /\ base' = [base EXCEPT ![at] = Highest(rows[at])]
                  /\ NextStream
                  /\ UNCHANGED <<jira, receipt, applied, settled, crashes>>

(* A stream without a cursor: all it has now is the baseline. *)
Bootstrap == /\ pc = "stream"
             /\ ~cursor[at].known
             /\ cursor' = [cursor EXCEPT ![at].known = TRUE, ![at].seen = Highest(rows[at])]
             /\ base' = [base EXCEPT ![at] = Highest(rows[at])]
             /\ NextStream
             /\ UNCHANGED <<jira, receipt, applied, settled, crashes>>

(* Two faults: a pending delivery is passed over; it is delivered under a *)
(* new operation id.                                                       *)
RedeliverLater == /\ pc = "stream"
                  /\ cursor[at].known
                  /\ cursor[at].pending # 0
                  /\ NextStream
                  /\ UNCHANGED <<jira, cursor, receipt, applied, base, settled, crashes>>

RedeliverAfresh == /\ pc = "stream"
                   /\ cursor[at].known
                   /\ cursor[at].pending # 0
                   /\ cursor[at].try < MaxRetries
                   /\ cursor' = [cursor EXCEPT ![at].try = @ + 1]
                   /\ pc' = "deliver"
                   /\ UNCHANGED <<jira, receipt, applied, at, rows, base, settled, crashes>>

(* A delivery left pending by an earlier pass comes first. *)
Redeliver == /\ pc = "stream"
             /\ cursor[at].known
             /\ cursor[at].pending # 0
             /\ pc' = "deliver"
             /\ UNCHANGED <<jira, cursor, receipt, applied, at, rows, base, settled, crashes>>

New == {e \in rows[at] : e > cursor[at].seen}

(* A fault: the newest row comes first. *)
IsNewestRow(e) == e \in New /\ \A x \in New : x <= e

IsNextRow(e) == e \in New /\ \A x \in New : e <= x

InRows == pc = "stream" /\ cursor[at].known /\ cursor[at].pending = 0

(* A row that is not for FireFlow only moves the cursor. *)
SkipRow == /\ InRows
           /\ \E e \in New : /\ IsNextRow(e)
                             /\ e \notin wanted[at]
                             /\ cursor' = [cursor EXCEPT ![at].seen = e]
           /\ UNCHANGED <<jira, receipt, applied, pc, at, rows, base, settled, crashes>>

(* The intent is saved before the adapter is called. *)
SavePending == /\ InRows
               /\ \E e \in New : /\ IsNextRow(e)
                                 /\ e \in wanted[at]
                                 /\ cursor' = [cursor EXCEPT ![at].pending = e,
                                                             ![at].try = 0]
               /\ pc' = "deliver"
               /\ UNCHANGED <<jira, receipt, applied, at, rows, base, settled, crashes>>

EndStream == /\ InRows
             /\ New = {}
             /\ NextStream
             /\ UNCHANGED <<jira, cursor, receipt, applied, base, settled, crashes>>

-----------------------------------------------------------------------------
(* The adapter.                                                            *)
Current == <<at, cursor[at].pending, cursor[at].try>>

(* An exception that says the outcome is unknown parks whatever is pending *)
(* in either stream.                                                       *)
ParkPending == cursor' = [s \in Stream |->
                            [cursor[s] EXCEPT !.parked = @ \/ cursor[s].pending # 0]]

Unknown == /\ ParkPending
           /\ Over
           /\ UNCHANGED <<jira, receipt, applied, base, settled, crashes>>

(* _rt_replay: a result is the answer. *)
Replay == /\ pc = "deliver"
          /\ receipt[Current] = "result"
          /\ pc' = "delivered"
          /\ UNCHANGED <<jira, cursor, receipt, applied, at, rows, base, settled, crashes>>

(* _rt_replay: a result that is half written cannot be read, which is not  *)
(* an unknown outcome but an ordinary failure of this pass.                *)
ReplayUnreadable == /\ pc = "deliver"
                    /\ receipt[Current] = "torn"
                    /\ Over
                    /\ UNCHANGED <<jira, cursor, receipt, applied, base, settled, crashes>>

(* _rt_replay: only a started receipt. *)
ReplayUnknown == /\ pc = "deliver"
                 /\ receipt[Current] = "started"
                 /\ Unknown

(* rt_get, the history before or an audit record fails: nothing was sent,  *)
(* the delivery stays pending for the next pass.                           *)
CheckFails == /\ pc = "deliver"
              /\ receipt[Current] = "none"
              /\ Over
              /\ UNCHANGED <<jira, cursor, receipt, applied, base, settled, crashes>>

(* set_status: the ticket is there already; only a result is written.      *)
NothingToChange == /\ pc = "deliver"
                   /\ at = "statuses"
                   /\ receipt[Current] = "none"
                   /\ receipt' = [receipt EXCEPT ![Current] = "result"]
                   /\ settled' = [settled EXCEPT ![at] = @ \union {cursor[at].pending}]
                   /\ pc' = "delivered"
                   /\ UNCHANGED <<jira, cursor, applied, at, rows, base, crashes>>

(* A fault: the started receipt does not reach the disk. *)
ClaimUnwritten == /\ pc = "deliver"
                  /\ receipt[Current] = "none"
                  /\ pc' = "post"
                  /\ UNCHANGED <<jira, cursor, receipt, applied, at, rows, base, settled,
                                 crashes>>

(* The started receipt is on disk before the POST. *)
Claim == /\ pc = "deliver"
         /\ receipt[Current] = "none"
         /\ receipt' = [receipt EXCEPT ![Current] = "started"]
         /\ pc' = "post"
         /\ UNCHANGED <<jira, cursor, applied, at, rows, base, settled, crashes>>

(* The started receipt is created but not completed: an ordinary error.    *)
ClaimTorn == /\ pc = "deliver"
             /\ receipt[Current] = "none"
             /\ receipt' = [receipt EXCEPT ![Current] = "started"]
             /\ Over
             /\ UNCHANGED <<jira, cursor, applied, base, settled, crashes>>

Apply == /\ applied' = [applied EXCEPT ![at] = Append(@, cursor[at].pending)]
         /\ settled' = [settled EXCEPT ![at] = @ \union {cursor[at].pending}]

(* The POST, answered; what it did is looked up in the history next. *)
Post == /\ pc = "post"
        /\ Apply
        /\ pc' = "verify"
        /\ UNCHANGED <<jira, cursor, receipt, at, rows, base, crashes>>

(* The POST, its answer lost or bad, applied or not. *)
PostFails == /\ pc = "post"
             /\ Apply \/ UNCHANGED <<applied, settled>>
             /\ ParkPending
             /\ Over
             /\ UNCHANGED <<jira, receipt, base, crashes>>

(* verify finds the new history record and the result receipt is written.  *)
Verified == /\ pc = "verify"
            /\ receipt' = [receipt EXCEPT ![Current] = "result"]
            /\ pc' = "delivered"
            /\ UNCHANGED <<jira, cursor, applied, at, rows, base, settled, crashes>>

VerifyFails == /\ pc = "verify"
               /\ Unknown

(* The result receipt is written, an audit record after it is not.         *)
VerifiedUnknown == /\ pc = "verify"
                   /\ receipt' = [receipt EXCEPT ![Current] = "result"]
                   /\ ParkPending
                   /\ Over
                   /\ UNCHANGED <<jira, applied, base, settled, crashes>>

(* Killed, or out of disk space, while the result receipt is written: of a *)
(* status that needed no change, or after a verified POST.                 *)
ResultTorn == /\ Tears
              /\ \/ pc = "deliver" /\ at = "statuses" /\ receipt[Current] = "none"
                 \/ pc = "verify" /\ crashes < MaxCrashes
              /\ receipt' = [receipt EXCEPT ![Current] = "torn"]
              /\ crashes' = IF pc = "verify" THEN crashes + 1 ELSE crashes
              /\ Over
              /\ UNCHANGED <<jira, cursor, applied, base, settled>>

(* Back in sync_updates: pending goes and the cursor moves, in one save.   *)
Consumed(c) == [c EXCEPT !.seen = IF c.pending > @ THEN c.pending ELSE @,
                         !.pending = 0, !.try = 0, !.parked = FALSE]

Consume == /\ pc = "delivered"
           /\ cursor' = [cursor EXCEPT ![at] = Consumed(@)]
           /\ pc' = "stream"
           /\ UNCHANGED <<jira, receipt, applied, at, rows, base, settled, crashes>>

-----------------------------------------------------------------------------
(* ack-jira-update: a person has seen the event in FireFlow's history.     *)
Acknowledge(s) == /\ pc = "idle"
                  /\ cursor[s].parked
                  /\ cursor[s].pending \in settled[s]
                  /\ cursor' = [cursor EXCEPT ![s] = Consumed(@)]
                  /\ UNCHANGED <<jira, receipt, applied, pc, at, rows, base, settled,
                                 crashes>>

(* retry-jira-update: a person has seen that it is not there.              *)
Retry(s) == /\ pc = "idle"
            /\ cursor[s].parked
            /\ cursor[s].pending \notin settled[s]
            /\ cursor[s].try < MaxRetries
            /\ cursor' = [cursor EXCEPT ![s].try = @ + 1, ![s].parked = FALSE]
            /\ UNCHANGED <<jira, receipt, applied, pc, at, rows, base, settled, crashes>>

Crash == /\ pc # "idle"
         /\ crashes < MaxCrashes
         /\ crashes' = crashes + 1
         /\ Over
         /\ UNCHANGED <<jira, cursor, receipt, applied, base, settled>>

PassStep == \/ ReadStatuses \/ ReadFails
            \/ Bootstrap \/ Redeliver \/ SkipRow \/ SavePending \/ EndStream
            \/ Replay \/ ReplayUnreadable \/ ReplayUnknown \/ CheckFails \/ NothingToChange
            \/ Claim \/ ClaimTorn \/ Post \/ PostFails
            \/ Verified \/ VerifyFails \/ VerifiedUnknown \/ Consume
            \/ ResultTorn

Next == \/ \E s \in Stream : Happen(s) \/ Acknowledge(s) \/ Retry(s)
        \/ \E e \in Event : Delete(e)
        \/ ReadComments \/ PassStep
        \/ Crash

Spec == Init /\ [][Next]_vars

(* The scheduler starts passes for ever and a pass runs on; Jira and       *)
(* FireFlow answer again and again.                                        *)
FairSpec == /\ Spec
            /\ WF_vars(ReadComments)
            /\ WF_vars(PassStep)
            /\ SF_vars(ReadStatuses)
            /\ SF_vars(Claim)
-----------------------------------------------------------------------------
(* The shape of every variable of the update streams. *)
TypeOK == /\ live \in [Stream -> SUBSET Event]
          /\ top \in [Stream -> ({0} \union Event)]
          /\ wanted \in [Stream -> SUBSET Event]
          /\ cursor \in [Stream -> [known : BOOLEAN, seen : {0} \union Event,
                                    pending : {0} \union Event, try : 0..MaxRetries,
                                    parked : BOOLEAN]]
          /\ receipt \in [Operation -> {"none", "started", "torn", "result"}]
          /\ applied \in [Stream -> Seq(Event)]
          /\ pc \in {"idle", "read", "stream", "deliver", "post", "verify", "delivered"}
          /\ at \in Stream \union {"end"}
          /\ rows \in [Stream -> SUBSET Event]
          /\ base \in [Stream -> ({0} \union Event)]
          /\ settled \in [Stream -> SUBSET Event]
          /\ crashes \in Nat

-----------------------------------------------------------------------------
(* Safety.                                                                 *)

(* No event is applied to the ticket twice, and events are applied in the  *)
(* order Jira numbered them, across kills, retries by a person and         *)
(* redeliveries (jira_updates.py:3-5).                                     *)
AppliedInOrder == \A s \in Stream : \A m, n \in DOMAIN applied[s] :
                     m < n => applied[s][m] < applied[s][n]

(* What was there when the stream was first read is never sent             *)
(* (jira_updates.py:3, README.md:201-202).                                 *)
BaselineNotReplayed == \A s \in Stream : \A n \in DOMAIN applied[s] :
                          applied[s][n] > base[s]

(* Nothing is passed over: an event below the cursor that is meant for     *)
(* FireFlow and can still be read was applied or found in place there      *)
(* (jira_updates.py:143).                                                  *)
NothingSkipped == \A s \in Stream : \A e \in live[s] \intersect wanted[s] :
                     base[s] < e /\ e <= cursor[s].seen => e \in settled[s]

(* What FireFlow has and the cursor is not past yet is the one pending     *)
(* event, and the receipt of its current operation says that it was begun: *)
(* no later pass takes it for new (jira_updates.py:4-5).                   *)
WritesAreOnRecord == \A s \in Stream : \A e \in settled[s] :
  e > cursor[s].seen => /\ e = cursor[s].pending
                        /\ receipt[<<s, e, cursor[s].try>>] # "none"

(* Not a single send for an event while an earlier send of it may still    *)
(* have had an effect: a second operation exists only when the first one   *)
(* is known absent.                                                        *)
SentOnlyIfAbsent == [][pc = "post" => cursor[at].pending \notin settled[at]]_vars

(* Each stream is a Delivery: an event that is meant for FireFlow is on    *)
(* record before it is sent, gets there once and in Jira's order, and the  *)
(* cursor moves past it only when FireFlow has it (jira_updates.py:3-5,    *)
(* jira_updates.py:192-252).                                               *)
Promise(s) == INSTANCE Delivery WITH
                live <- live[s], meant <- wanted[s], last <- top[s],
                begun <- cursor[s].known, mark <- cursor[s].seen,
                open <- cursor[s].pending,
                done <- settled[s], log <- applied[s]
DeliverySpec == /\ \A s \in Stream : Promise(s)!Init
                /\ [][\A s \in Stream : [Promise(s)!Next]_(Promise(s)!vars)]_vars

-----------------------------------------------------------------------------
(* Liveness.                                                               *)

(* A result receipt that a kill has torn stops the issue: every later pass *)
(* fails to read it, and nobody is asked (fireflow.py:427-470).            *)
Torn == \E o \in Operation : receipt[o] = "torn"

(* Meant for FireFlow, in Jira, and newer than the baseline; or sent.      *)
Due(s, e) == \/ e \in settled[s]
             \/ cursor[s].known /\ e > base[s] /\ e \in live[s] \intersect wanted[s]

Arrived(s, e) == IF e \in settled[s] THEN cursor[s].seen >= e ELSE e \notin live[s]

(* An event that is due gets to FireFlow, and the cursor gets past it, also *)
(* when the process stopped before it was saved (jira_updates.py:4-5);     *)
(* unless a person is asked, or a receipt is torn.                         *)
EventsArrive == \A s \in Stream : \A e \in 1..MaxEvents[s] :
                   Due(s, e) ~> (Arrived(s, e) \/ Parked \/ Torn)

(* What the code says of a write that succeeded: a person is asked of      *)
(* every one that the cursor does not get past (jira_updates.py:4-5).      *)
WritesAreReconciled == \A s \in Stream : \A e \in 1..MaxEvents[s] :
                          e \in settled[s] ~> (cursor[s].seen >= e \/ Parked)
=============================================================================
