-------------------------------- MODULE Mirror --------------------------------
(***************************************************************************)
(* FireFlow's progress goes back to Jira (sync.mirror, deliver_fields,     *)
(* move_pending, workflow_transition): one linked issue, its result        *)
(* fields, its comments and its place on the board.  Issues share nothing  *)
(* here, so one is enough.                                                 *)
(*                                                                         *)
(* A pass holds the state lock (StateFile.tla) and saves each change, so   *)
(* the entry is written in place, and the process may be killed, or a save *)
(* may end it, between any two steps.                                      *)
(*                                                                         *)
(* People also move the card.  jira_updates.sync_updates takes such a move *)
(* to FireFlow (JiraUpdates.tla has how) and marks the entry, so that the  *)
(* mirror does not transition the card back.                               *)
(***************************************************************************)
EXTENDS Failures, Integers, Sequences

CONSTANTS Status,        \* FireFlow's workflow statuses
          Observation,   \* what a read of the request may show: its status,
                         \* its owner, and the evidence outcome rules look at
          Place,         \* the statuses of the Jira board
          Offered,       \* the moves <<from, to>> for which Jira has a transition
          Transitions,   \* mirror.transitions: the place of a status, or None
          Rules,         \* mirror.outcome_rules
          StatusMap,     \* jira_to_fireflow.status_map: the status of a place
          Submitted,     \* mirror.submitted_transition, or None
          IdOnly,        \* the result fields a create leaves to deliver
          None,
          MaxByHand,     \* bound: how often people move the card
          MaxCrashes     \* bound: how often the process is killed

ASSUME ObservationAssumption ==
  \A o \in Observation : DOMAIN o = {"status", "owner", "evidence"} /\ o.status \in Status
ASSUME ConfigurationAssumption ==
  /\ Offered \subseteq Place \X Place
  /\ Transitions \in [Status -> Place \union {None}]
  /\ \A r \in Rules : r.status \in Status /\ r.target \in Place
  /\ StatusMap \in [Place -> Status \union {None}]
  /\ Submitted \in Place \union {None}
  /\ None \notin Place /\ None \notin Status
ASSUME NumberAssumption == MaxByHand \in Nat /\ MaxCrashes \in Nat

VARIABLES
  now,       \* FireFlow: what a read of the request shows
  board,     \* Jira: where the card is
  shown,     \* Jira: the result fields
  told,      \* Jira: the observation its last comment is about
  byHand,    \* Jira: moves by people that sync_updates has not delivered
  entry,     \* state file: the entry of the issue
  failure,   \* state file: its entry in the failure queue
  pc,        \* the running pass
  obs,       \* the pass: what it has read, if anything
  retried,   \* the pass: retried_transition
  handled,   \* history: moves by people
  doubled,   \* history: comments that said what the one before had said
  crashes    \* history: how often the process was killed

jira == <<board, shown, told>>
people == <<byHand, handled>>
vars == <<now, jira, people, entry, failure, pc, obs, retried, doubled, crashes>>

Nothing == [status |-> None, owner |-> None, evidence |-> None]

(* workflow_transition: outcome rules of the status go before the map, and *)
(* count only if the evidence decides for one target.                      *)
Target(o) ==
  LET rules == {r \in Rules : r.status = o.status}
      found == {r.target : r \in {x \in rules : x.evidence = o.evidence}}
  IN IF rules = {} THEN Transitions[o.status]
     ELSE IF \E t \in found : found = {t} THEN CHOOSE t \in found : TRUE
     ELSE None

(* result_fields, of id, status and owner. *)
ResultFields(o) == [status |-> o.status, owner |-> o.owner]

ASSUME FieldsAssumption == None \notin {ResultFields(o) : o \in Observation} \union {IdOnly}

(* A create leaves the first entry, reconciliation the second.  The third  *)
(* was written before targets were saved.                                  *)
Created == [seen |-> Nothing, target |-> Submitted, pendingTransition |-> Submitted,
            pendingFields |-> IdOnly, delivered |-> None, suppression |-> FALSE]

Restored == [Created EXCEPT !.target = None, !.pendingTransition = None,
                            !.pendingFields = None]

Inherited(o) == [Restored EXCEPT !.seen = o]

(* Before details were saved too, only the status was seen. *)
StatusOnly == {[Nothing EXCEPT !.status = s] : s \in Status}

Init == /\ now \in Observation
        /\ board \in Place
        /\ shown = None
        /\ \/ /\ entry \in {Created, Restored}
              /\ failure = NoFailure
           \/ /\ entry \in {Inherited(o) : o \in Observation}
              /\ failure = NoFailure
           \/ /\ entry \in {Inherited(o) : o \in StatusOnly}
              /\ failure = Failed(NoFailure, "transition", TRUE)
        /\ told = entry.seen
        /\ byHand = <<>>
        /\ pc = "idle"
        /\ obs = Nothing
        /\ retried = FALSE
        /\ handled = 0
        /\ doubled = 0
        /\ crashes = 0

-----------------------------------------------------------------------------
(* The request goes on in FireFlow. *)
Progress == /\ now' \in Observation \ {now}
            /\ UNCHANGED <<jira, people, entry, failure, pc, obs, retried, doubled, crashes>>

(* A person moves the card. *)
MoveByHand == /\ handled < MaxByHand
              /\ handled' = handled + 1
              /\ board' \in Place \ {board}
              /\ byHand' = Append(byHand, board')
              /\ UNCHANGED <<now, shown, told, entry, failure, pc, obs, retried,
                             doubled, crashes>>

(* sync_updates delivers the move, if its status is mapped: FireFlow has    *)
(* that status next, and the entry is marked.                              *)
Delivered(p) == /\ StatusMap[p] # None
                /\ now' \in {o \in Observation : o.status = StatusMap[p]}
                /\ entry' = [entry EXCEPT !.suppression = TRUE]

Sync == /\ pc = "idle"
        /\ byHand # <<>>
        /\ \/ Delivered(Head(byHand))
           \/ StatusMap[Head(byHand)] = None /\ UNCHANGED <<now, entry>>
        /\ byHand' = Tail(byHand)
        /\ UNCHANGED <<jira, handled, failure, pc, obs, retried, doubled, crashes>>

Elapse == /\ failure.hold = "waiting"
          /\ failure' = [failure EXCEPT !.hold = "due"]
          /\ UNCHANGED <<now, jira, people, entry, pc, obs, retried, doubled, crashes>>

Release == /\ pc = "idle"
           /\ failure.hold = "exhausted"
           /\ failure' = Released(failure)
           /\ UNCHANGED <<now, jira, people, entry, pc, obs, retried, doubled, crashes>>

-----------------------------------------------------------------------------
Idle == pc' = "idle" /\ obs' = Nothing /\ retried' = FALSE

(* The pass gives this issue up with a failure. *)
Fails(stage, retryable) == /\ failure' = Failed(failure, stage, retryable)
                           /\ Idle
                           /\ UNCHANGED <<now, people, entry, crashes>>

Begin == /\ pc = "idle"
         /\ ~IsBlocked(failure)
         /\ pc' = IF entry.pendingFields = None THEN "owed" ELSE "fields"
         /\ UNCHANGED <<now, jira, people, entry, failure, obs, retried, doubled, crashes>>

(* deliver_fields: a PUT, which may be repeated. *)
PutFields == /\ pc = "fields"
             /\ shown' = entry.pendingFields
             /\ pc' = "put"
             /\ UNCHANGED <<now, board, told, people, entry, failure, obs, retried,
                            doubled, crashes>>

(* Fault: fields that could not be delivered count as delivered. *)
PutSwallowed == /\ pc = "fields"
                /\ entry' = [entry EXCEPT !.pendingFields = None,
                                          !.delivered = entry.pendingFields]
                /\ failure' = Failed(failure, "fields", TRUE)
                /\ Idle
                /\ UNCHANGED <<now, jira, people, doubled, crashes>>

PutFails == /\ pc = "fields"
            /\ shown' \in {shown, entry.pendingFields}
            /\ Fails("fields", TRUE)
            /\ UNCHANGED <<board, told, doubled>>

RecordFields == /\ pc = "put"
                /\ entry' = [entry EXCEPT !.pendingFields = None,
                                          !.delivered = entry.pendingFields]
                /\ failure' = NoFailure
                /\ pc' = IF obs = Nothing THEN "owed" ELSE "compare"
                /\ UNCHANGED <<now, jira, people, obs, retried, doubled, crashes>>

(* The transition owed: the saved one, or, in an entry from before, that   *)
(* of the status whose transition failed.                                  *)
Owed == IF entry.pendingTransition # None THEN entry.pendingTransition
        ELSE IF failure.stage = "transition" /\ entry.seen.status # None
        THEN Transitions[entry.seen.status] ELSE None

RetryMove == /\ pc = "owed"
             /\ Owed # None
             /\ retried' = TRUE
             /\ pc' = "move"
             /\ UNCHANGED <<now, jira, people, entry, failure, obs, doubled, crashes>>

(* Owed by an entry from before, and no longer mapped: the issue stays     *)
(* where it is until somebody restores the mapping.                        *)
Unmapped == /\ pc = "owed"
            /\ Owed = None
            /\ failure.stage = "transition"
            /\ Idle
            /\ UNCHANGED <<now, jira, people, entry, failure, doubled, crashes>>

(* Fault: what is owed waits while the next status is read. *)
OwesForLater == /\ pc = "owed"
                /\ pc' = "read"
                /\ UNCHANGED <<now, jira, people, entry, failure, obs, retried,
                               doubled, crashes>>

OwesNothing == /\ pc = "owed"
               /\ Owed = None
               /\ failure.stage # "transition"
               /\ pc' = "read"
               /\ UNCHANGED <<now, jira, people, entry, failure, obs, retried,
                              doubled, crashes>>

-----------------------------------------------------------------------------
(* move_pending: Jira makes a transition it offers; it may refuse any; the *)
(* answer to a POST may be lost.                                           *)
CanMove == <<board, Owed>> \in Offered

Transition == /\ pc = "move"
              /\ CanMove
              /\ board' = Owed
              /\ pc' = "moved"
              /\ UNCHANGED <<now, shown, told, people, entry, failure, obs, retried,
                             doubled, crashes>>

TransitionRefused == /\ pc = "move"
                     /\ Fails("transition", TRUE)
                     /\ UNCHANGED <<jira, doubled>>

TransitionUnknown == /\ pc = "move"
                     /\ CanMove
                     /\ board' \in {board, Owed}
                     /\ Fails("transition", FALSE)
                     /\ UNCHANGED <<shown, told, doubled>>

(* The status is read after a retried transition; otherwise it was before. *)
RecordTransition ==
  /\ pc = "moved"
  /\ entry' = [entry EXCEPT !.pendingTransition = None]
  /\ failure' = NoFailure
  /\ \/ obs = Nothing /\ pc' = "read" /\ UNCHANGED <<obs, retried>>
     \/ obs # Nothing /\ Idle
  /\ UNCHANGED <<now, jira, people, doubled, crashes>>

-----------------------------------------------------------------------------
Read == /\ pc = "read"
        /\ obs' = now
        /\ pc' = "compare"
        /\ UNCHANGED <<now, jira, people, entry, failure, retried, doubled, crashes>>

ReadFails == /\ pc = "read"
             /\ Fails("read", TRUE)
             /\ UNCHANGED <<jira, doubled>>

(* New result fields are saved before they are sent. *)
SaveFields == /\ pc = "compare"
              /\ ResultFields(obs) # entry.delivered
              /\ entry' = [entry EXCEPT !.pendingFields = ResultFields(obs)]
              /\ pc' = "fields"
              /\ UNCHANGED <<now, jira, people, failure, obs, retried, doubled, crashes>>

Compared == pc = "compare" /\ ResultFields(obs) = entry.delivered

(* Nothing new after a move by hand: FireFlow was there already. *)
Unsuppress == /\ Compared
              /\ obs = entry.seen
              /\ entry.suppression
              /\ entry' = [entry EXCEPT !.suppression = FALSE, !.target = Target(obs),
                                        !.pendingTransition = None]
              /\ Idle
              /\ UNCHANGED <<now, jira, people, failure, doubled, crashes>>

TargetIsNew == Target(obs) # None /\ Target(obs) # entry.target /\ ~retried

(* Nothing new, but the entry has another target than the configuration.  *)
Retarget == /\ Compared
            /\ obs = entry.seen
            /\ ~entry.suppression
            /\ TargetIsNew
            /\ entry' = [entry EXCEPT !.target = Target(obs),
                                      !.pendingTransition = Target(obs)]
            /\ pc' = "move"
            /\ UNCHANGED <<now, jira, people, failure, obs, retried, doubled, crashes>>

NothingNew == /\ Compared
              /\ obs = entry.seen
              /\ ~entry.suppression
              /\ ~TargetIsNew
              /\ failure' = IF failure.stage = "read" THEN NoFailure ELSE failure
              /\ Idle
              /\ UNCHANGED <<now, jira, people, entry, doubled, crashes>>

Tell == told' = obs /\ doubled' = IF told = obs THEN doubled + 1 ELSE doubled

Comment == /\ Compared
           /\ obs # entry.seen
           /\ Tell
           /\ pc' = "commented"
           /\ UNCHANGED <<now, board, shown, people, entry, failure, obs, retried, crashes>>

CommentRefused == /\ Compared
                  /\ obs # entry.seen
                  /\ Fails("comment", TRUE)
                  /\ UNCHANGED <<jira, doubled>>

(* Fault: a comment whose answer was lost is tried again. *)
CommentRetried == /\ Compared
                  /\ obs # entry.seen
                  /\ Tell
                  /\ Fails("comment", TRUE)
                  /\ UNCHANGED <<board, shown>>

CommentUnknown == /\ Compared
                  /\ obs # entry.seen
                  /\ Tell \/ UNCHANGED <<told, doubled>>
                  /\ Fails("comment", FALSE)
                  /\ UNCHANGED <<board, shown>>

(* Fault: the transition is owed in memory only. *)
TransitionUnsaved ==
  /\ pc = "commented"
  /\ entry' = [entry EXCEPT !.seen = obs, !.target = Target(obs)]
  /\ failure' = NoFailure
  /\ Idle
  /\ UNCHANGED <<now, jira, people, doubled, crashes>>

(* One save for what Jira was told and for the transition that follows:   *)
(* none if the target is that of before, or the status came from Jira.     *)
RecordComment ==
  LET owes == IF entry.suppression \/ Target(obs) = entry.target THEN None
              ELSE Target(obs) IN
  /\ pc = "commented"
  /\ entry' = [entry EXCEPT !.seen = obs, !.target = Target(obs),
                            !.pendingTransition = owes, !.suppression = FALSE]
  /\ failure' = NoFailure
  /\ \/ owes # None /\ pc' = "move" /\ UNCHANGED <<obs, retried>>
     \/ owes = None /\ Idle
  /\ UNCHANGED <<now, jira, people, doubled, crashes>>

Crash == /\ pc # "idle"
         /\ crashes < MaxCrashes
         /\ crashes' = crashes + 1
         /\ Idle
         /\ UNCHANGED <<now, jira, people, entry, failure, doubled>>

-----------------------------------------------------------------------------
PassStep == \/ PutFields \/ PutFails \/ RecordFields
            \/ RetryMove \/ Unmapped \/ OwesNothing
            \/ Transition \/ TransitionRefused \/ TransitionUnknown \/ RecordTransition
            \/ Read \/ ReadFails \/ SaveFields
            \/ Unsuppress \/ Retarget \/ NothingNew
            \/ Comment \/ CommentRefused \/ CommentUnknown \/ RecordComment

Next == \/ Progress \/ MoveByHand \/ Sync
        \/ Elapse \/ Release
        \/ Begin \/ PassStep
        \/ Crash

Spec == Init /\ [][Next]_vars

(* Passes are started for ever and run on, and time passes.  Neither Jira  *)
(* nor FireFlow need ever answer.                                          *)
FairSpec == Spec /\ WF_vars(Begin) /\ WF_vars(PassStep) /\ WF_vars(Elapse)
-----------------------------------------------------------------------------
Observed == Observation \union {Nothing} \union StatusOnly

Fields == {ResultFields(o) : o \in Observation} \union {IdOnly, None}

(* The shape of every variable of the mirror. *)
TypeOK == /\ now \in Observation
          /\ board \in Place
          /\ shown \in Fields
          /\ told \in Observed
          /\ byHand \in Seq(Place)
          /\ entry \in [seen : Observed, target : Place \union {None},
                        pendingTransition : Place \union {None},
                        pendingFields : Fields, delivered : Fields,
                        suppression : BOOLEAN]
          /\ failure \in FailureOf({"fields", "transition", "read", "comment"})
          /\ pc \in {"idle", "fields", "put", "owed", "move", "moved", "read",
                     "compare", "commented"}
          /\ obs \in Observed
          /\ retried \in BOOLEAN
          /\ handled \in Nat
          /\ doubled \in Nat
          /\ crashes \in Nat

-----------------------------------------------------------------------------
(* Safety.                                                                 *)

(* Jira is told each status once: only a kill between a comment and its    *)
(* record can make the mirror say the same twice (sync.py:776-781).        *)
CommentedOnce == doubled <= crashes

(* What the entry says Jira has, Jira has: fields that are not owed are    *)
(* shown, and a card that nobody moved by hand is at its target unless     *)
(* that is owed.  What is recorded is not sent again (sync.py:819-880), so *)
(* a false record would never be put right.                                *)
RecordsAreTrue ==
  /\ entry.pendingFields = None /\ entry.delivered # None => shown = entry.delivered
  /\ entry.pendingTransition = None /\ entry.target # None /\ handled = 0 =>
       board = entry.target

(* A pending transition is finished before another status is reported      *)
(* (sync.py:779): the card follows the statuses in their order.            *)
FinishedBeforeNext ==
  [][entry'.seen # entry.seen => entry.pendingTransition = None]_vars

(* To Jira the mirror is an Outbox: what it owes is on file before it is   *)
(* sent and struck off only after Jira has it, and nothing is reported     *)
(* over what is owed (sync.py:776-781, sync.py:800-950).                   *)
Done == CASE pc = "put" -> "fields"
          [] pc = "moved" -> "card"
          [] pc = "commented" -> "comment"
          [] OTHER -> "none"

Promise == INSTANCE Outbox WITH
             seen <- entry.seen, fields <- entry.pendingFields, card <- Owed,
             marked <- entry.suppression, done <- Done,
             Goal <- [o \in Observation |-> Target(o)]
OutboxSpec == Promise!Spec

(* To the failure queue the mirror is one of those who try the work of an  *)
(* entry (queue.py:105-165): it makes no step but those of a RetryQueue.   *)
(* Here all waits are one unit.                                            *)
Queue == INSTANCE RetryQueue WITH
           Base <- 1, Factor <- 1, Cap <- 1,
           Stages <- {"fields", "transition", "read", "comment"},
           SlowStages <- {"fields", "transition", "read", "comment"},
           Creates <- {},
           state <- IF failure.hold = "due" THEN "waiting" ELSE failure.hold,
           stage <- failure.stage,
           attempts <- failure.attempts,
           wait <- IF failure.hold = "waiting" THEN 1 ELSE 0,
           tries <- failure.attempts
QueueKept == [][Queue!QueueNext]_(Queue!queue)

-----------------------------------------------------------------------------
(* Liveness.                                                               *)

(* The bus waits for a person: the issue is parked, or owes a transition   *)
(* that is no longer mapped.                                               *)
NeedsPerson == IsParked(failure) \/ (failure.stage = "transition" /\ Owed = None)

(* When FireFlow stays where it is and nobody moves the card by hand, the  *)
(* card gets to the place of that status, and, without a kill, the last    *)
(* comment is about it; or a person is asked.                              *)
CardFollows ==
  \A o \in Observation : <>[](now = o /\ handled = 0) =>
    []<>(\/ NeedsPerson
         \/ Target(o) \in {board, None} /\ (told = o \/ crashes > 0))

(* ... and the result fields say what FireFlow says. *)
FieldsFollow ==
  \A o \in Observation : <>[](now = o) => []<>(NeedsPerson \/ shown = ResultFields(o))

-----------------------------------------------------------------------------
(* What a comment of the code says and the code does not do.               *)

(* jira_updates.py:124: the mirror does not transition back a status that  *)
(* came from Jira.                                                         *)
NotMovedBack == [][pc = "move" /\ board' # board => ~entry.suppression]_vars
=============================================================================
