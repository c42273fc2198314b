----------------------------- MODULE MirrorProofs -----------------------------
(***************************************************************************)
(* What Mirror.tla says of the safety of sync.mirror, for any board,       *)
(* configuration and observations, any number of kills and moves by hand.  *)
(*                                                                         *)
(* A comment that Jira has and the entry does not is either about to be    *)
(* recorded, or parked with an unknown outcome, or the debt of one kill    *)
(* (Told): only a debt can be told again, and telling it again pays it.    *)
(***************************************************************************)
EXTENDS Mirror, SequenceTheorems, TLAPS

Entry == [seen : Observed, target : Place \union {None},
          pendingTransition : Place \union {None},
          pendingFields : Fields, delivered : Fields,
          suppression : BOOLEAN]

Stage == {"fields", "transition", "read", "comment"}

(* What the pass has in hand. *)
Placed == /\ pc = "idle" => obs = Nothing
          /\ pc \in {"compare", "commented"} => obs \in Observation
          /\ pc = "commented" => told = obs
          /\ pc \in {"read", "compare", "commented"} => entry.pendingTransition = None
          /\ pc \in {"fields", "put"} /\ obs # Nothing =>
               obs \in Observation /\ entry.pendingTransition = None
          /\ pc # "idle" => ~IsBlocked(failure)

(* The comment that was told and not recorded. *)
Debt == told # entry.seen /\ pc # "commented" /\ failure.hold # "unknown"

Told == doubled <= crashes /\ (Debt => doubled < crashes)

IInv == TypeOK /\ Placed /\ Told

-----------------------------------------------------------------------------
(* Types.                                                                  *)

(* An observation is of some status, so it is not Nothing. *)
LEMMA Observations ==
  /\ \A o \in Observation : o # Nothing /\ o \in Observed /\ ResultFields(o) \in Fields
  /\ Nothing \in Observed /\ IdOnly \in Fields /\ None \in Fields
BY ObservationAssumption, ConfigurationAssumption DEF Nothing, Observed, Fields

(* A transition is to a place. *)
LEMMA Targets ==
  ASSUME NEW o \in Observed
  PROVE  o.status \in Status => Target(o) \in Place \union {None}
<1>1. \A r \in Rules : r.target \in Place
  BY ConfigurationAssumption
<1>2. o.status \in Status => Transitions[o.status] \in Place \union {None}
  BY ConfigurationAssumption
<1>3. ASSUME NEW F \in SUBSET Place, NEW t \in F, F = {t} PROVE (CHOOSE x \in F : TRUE) \in Place
  OBVIOUS
<1>. QED BY <1>1, <1>2, <1>3 DEF Target

(* The failure queue's entry keeps its shape. *)
LEMMA FailureShapes ==
  ASSUME NEW f \in FailureOf(Stage), NEW stage \in Stage, NEW retryable \in BOOLEAN
  PROVE  /\ Failed(f, stage, retryable) \in FailureOf(Stage)
         /\ Released(f) \in FailureOf(Stage)
         /\ [f EXCEPT !.hold = "due"] \in FailureOf(Stage)
         /\ NoFailure \in FailureOf(Stage)
<1>1. f.attempts + 1 \in Nat
  BY DEF FailureOf
<1>2. (IF ~retryable THEN "unknown"
       ELSE IF f.attempts + 1 >= Attempts THEN "exhausted" ELSE "waiting")
      \in {"none", "waiting", "due", "exhausted", "unknown"}
  OBVIOUS
<1>3. Failed(f, stage, retryable) \in FailureOf(Stage)
  BY <1>1, <1>2 DEF Failed, FailureOf
<1>. QED BY <1>3 DEF Released, NoFailure, FailureOf

(* The transition that is owed is to a place. *)
LEMMA OwedPlaces ==
  ASSUME TypeOK
  PROVE  Owed \in Place \union {None}
<1>1. entry.pendingTransition \in Place \union {None} /\ entry.seen \in Observed
  BY DEF TypeOK
<1>2. entry.seen.status # None => entry.seen.status \in Status
  BY <1>1, ObservationAssumption DEF Observed, StatusOnly, Nothing
<1>3. entry.seen.status # None => Transitions[entry.seen.status] \in Place \union {None}
  BY <1>2, ConfigurationAssumption
<1>. QED BY <1>1, <1>3 DEF Owed

(* The entry of the state file keeps its shape. *)
LEMMA EntryShapes ==
  ASSUME NEW e \in Entry, NEW o \in Observation, NEW p \in Place \union {None},
         NEW b \in BOOLEAN
  PROVE  /\ [e EXCEPT !.suppression = b] \in Entry
         /\ [e EXCEPT !.pendingFields = None, !.delivered = e.pendingFields] \in Entry
         /\ [e EXCEPT !.pendingTransition = None] \in Entry
         /\ [e EXCEPT !.pendingFields = ResultFields(o)] \in Entry
         /\ [e EXCEPT !.suppression = FALSE, !.target = Target(o),
                      !.pendingTransition = None] \in Entry
         /\ [e EXCEPT !.target = Target(o), !.pendingTransition = Target(o)] \in Entry
         /\ p \in {Target(o), None} =>
              [e EXCEPT !.seen = o, !.target = Target(o), !.pendingTransition = p,
                        !.suppression = FALSE] \in Entry
<1>1. Target(o) \in Place \union {None}
  BY Targets, Observations, ObservationAssumption
<1>2. o \in Observed /\ ResultFields(o) \in Fields /\ None \in Fields
  BY Observations
<1>3. [e EXCEPT !.pendingFields = None, !.delivered = e.pendingFields] \in Entry
  BY <1>2 DEF Entry
<1>4. [e EXCEPT !.suppression = FALSE, !.target = Target(o),
                      !.pendingTransition = None] \in Entry
  BY <1>1 DEF Entry
<1>5. [e EXCEPT !.target = Target(o), !.pendingTransition = Target(o)] \in Entry
  BY <1>1 DEF Entry
<1>6. [e EXCEPT !.seen = o, !.target = Target(o), !.pendingTransition = p,
                        !.suppression = FALSE] \in Entry
  BY <1>1, <1>2 DEF Entry
<1>. QED BY <1>2, <1>3, <1>4, <1>5, <1>6 DEF Entry

-----------------------------------------------------------------------------
(* What a step changes.                                                    *)

(* What can come of the entry in the failure queue, and that only a pass  *)
(* makes or drops one.                                                     *)
LEMMA WhatFails ==
  ASSUME TypeOK, [Next]_vars
  PROVE  \/ failure' = failure
         \/ pc # "idle" /\ failure' = NoFailure
         \/ /\ pc # "idle"
            /\ \E stage \in Stage, retryable \in BOOLEAN :
                 failure' = Failed(failure, stage, retryable)
         \/ Elapse \/ Release
<1>1. "fields" \in Stage /\ "transition" \in Stage /\ "read" \in Stage /\ "comment" \in Stage
  BY DEF Stage
<1>. QED
  BY <1>1 DEF Next, vars, jira, people, PassStep, Progress, MoveByHand, Sync, Delivered, Begin,
     PutFields, PutFails, RecordFields, RetryMove, Unmapped, OwesNothing, Transition,
     TransitionRefused, TransitionUnknown, RecordTransition, Read, ReadFails, SaveFields,
     Unsuppress, Retarget, NothingNew, Comment, CommentRefused, CommentUnknown,
     RecordComment, Crash, Fails, Idle, Compared

(* Who writes the entry of the issue. *)
LEMMA WhoWrites ==
  ASSUME [Next]_vars
  PROVE  \/ UNCHANGED entry
         \/ Sync \/ RecordFields \/ RecordTransition \/ SaveFields
         \/ Unsuppress \/ Retarget \/ RecordComment
BY DEF Next, vars, jira, people, PassStep, Progress, MoveByHand, Elapse, Release, Begin,
   PutFields, PutFails, RetryMove, Unmapped, OwesNothing, Transition,
   TransitionRefused, TransitionUnknown, Read, ReadFails, NothingNew, Comment,
   CommentRefused, CommentUnknown, Crash, Fails, Idle

(* Who changes the board, the fields and the last comment of Jira, and how *)
(* many comments there were too many.                                      *)
LEMMA WhoWritesJira ==
  ASSUME [Next]_vars
  PROVE  /\ \/ UNCHANGED board
            \/ MoveByHand
            \/ CanMove /\ board' \in {board, Owed}
         /\ shown' \in {shown, entry.pendingFields}
         /\ \/ UNCHANGED <<told, doubled>>
            \/ Tell /\ (Comment \/ CommentUnknown)
BY DEF Next, vars, jira, people, PassStep, Progress, MoveByHand, Sync, Delivered, Elapse, Release, Begin,
     PutFields, PutFails, RecordFields, RetryMove, Unmapped, OwesNothing, Transition,
     TransitionRefused, TransitionUnknown, RecordTransition, Read, ReadFails, SaveFields,
     Unsuppress, Retarget, NothingNew, Comment, CommentRefused, CommentUnknown,
     RecordComment, Crash, Fails, Idle

(* The people's moves are taken in their order. *)
LEMMA WhoMoves ==
  ASSUME [Next]_vars
  PROVE  UNCHANGED people \/ MoveByHand \/ Sync
BY DEF Next, vars, jira, people, PassStep, Progress, Elapse, Release, Begin,
     PutFields, PutFails, RecordFields, RetryMove, Unmapped, OwesNothing, Transition,
     TransitionRefused, TransitionUnknown, RecordTransition, Read, ReadFails, SaveFields,
     Unsuppress, Retarget, NothingNew, Comment, CommentRefused, CommentUnknown,
     RecordComment, Crash, Fails, Idle

(* What FireFlow shows, and where the pass is. *)
LEMMA StepPass ==
  ASSUME TypeOK, [Next]_vars
  PROVE  /\ now' \in Observation
         /\ pc' \in {"idle", "fields", "put", "owed", "move", "moved", "read",
                    "compare", "commented"}
         /\ obs' \in {obs, now, Nothing}
         /\ retried' \in BOOLEAN
         /\ crashes' \in {crashes, crashes + 1}
<1>1. /\ now \in Observation /\ retried \in BOOLEAN
      /\ pc \in {"idle", "fields", "put", "owed", "move", "moved", "read",
                    "compare", "commented"}
  BY DEF TypeOK
<1>2. now' \in Observation
  BY <1>1 DEF Next, vars, jira, people, PassStep, Progress, MoveByHand, Sync, Delivered, Elapse, Release, Begin,
     PutFields, PutFails, RecordFields, RetryMove, Unmapped, OwesNothing, Transition,
     TransitionRefused, TransitionUnknown, RecordTransition, Read, ReadFails, SaveFields,
     Unsuppress, Retarget, NothingNew, Comment, CommentRefused, CommentUnknown,
     RecordComment, Crash, Fails, Idle
<1>3. pc' \in {"idle", "fields", "put", "owed", "move", "moved", "read",
                    "compare", "commented"}
  BY <1>1 DEF Next, vars, jira, people, PassStep, Progress, MoveByHand, Sync, Delivered, Elapse, Release, Begin,
     PutFields, PutFails, RecordFields, RetryMove, Unmapped, OwesNothing, Transition,
     TransitionRefused, TransitionUnknown, RecordTransition, Read, ReadFails, SaveFields,
     Unsuppress, Retarget, NothingNew, Comment, CommentRefused, CommentUnknown,
     RecordComment, Crash, Fails, Idle
<1>4. obs' \in {obs, now, Nothing} /\ crashes' \in {crashes, crashes + 1}
  BY DEF Next, vars, jira, people, PassStep, Progress, MoveByHand, Sync, Delivered, Elapse, Release, Begin,
     PutFields, PutFails, RecordFields, RetryMove, Unmapped, OwesNothing, Transition,
     TransitionRefused, TransitionUnknown, RecordTransition, Read, ReadFails, SaveFields,
     Unsuppress, Retarget, NothingNew, Comment, CommentRefused, CommentUnknown,
     RecordComment, Crash, Fails, Idle
<1>5. retried' \in BOOLEAN
  BY <1>1 DEF Next, vars, jira, people, PassStep, Progress, MoveByHand, Sync, Delivered, Elapse, Release, Begin,
     PutFields, PutFails, RecordFields, RetryMove, Unmapped, OwesNothing, Transition,
     TransitionRefused, TransitionUnknown, RecordTransition, Read, ReadFails, SaveFields,
     Unsuppress, Retarget, NothingNew, Comment, CommentRefused, CommentUnknown,
     RecordComment, Crash, Fails, Idle
<1>. QED BY <1>2, <1>3, <1>4, <1>5

(* Every variable of the mirror keeps its shape. *)
LEMMA StepTypes ==
  ASSUME TypeOK, Placed, [Next]_vars
  PROVE  TypeOK'
<1>1. /\ entry \in Entry /\ failure \in FailureOf(Stage) /\ obs \in Observed
      /\ now \in Observation /\ byHand \in Seq(Place)
      /\ board \in Place /\ shown \in Fields /\ told \in Observed
      /\ handled \in Nat /\ doubled \in Nat /\ crashes \in Nat
  BY DEF TypeOK, Entry, Stage
<1>2. entry' \in Entry
  <2>1. CASE Sync
    BY <1>1, <2>1, EntryShapes DEF Sync, Delivered
  <2>2. CASE RecordFields
    BY <1>1, <2>2, EntryShapes DEF RecordFields
  <2>3. CASE RecordTransition
    BY <1>1, <2>3, EntryShapes DEF RecordTransition
  <2>4. CASE SaveFields
    BY <1>1, <2>4, EntryShapes DEF SaveFields, Placed
  <2>5. CASE Unsuppress
    BY <1>1, <2>5, EntryShapes DEF Unsuppress, Compared, Placed
  <2>6. CASE Retarget
    BY <1>1, <2>6, EntryShapes DEF Retarget, Compared, Placed
  <2>7. CASE RecordComment
    <3>1. obs \in Observation
      BY <2>7 DEF RecordComment, Placed
    <3>2. Target(obs) \in Place \union {None}
      BY <3>1, Targets, Observations, ObservationAssumption
    <3>3. PICK p \in {Target(obs), None} :
            entry' = [entry EXCEPT !.seen = obs, !.target = Target(obs),
                        !.pendingTransition = p, !.suppression = FALSE]
      BY <1>1, <2>7 DEF RecordComment
    <3>4. p \in Place \union {None}
      BY <3>2
    <3>5. [entry EXCEPT !.seen = obs, !.target = Target(obs),
                        !.pendingTransition = p, !.suppression = FALSE] \in Entry
      BY <1>1, <3>1, <3>4, EntryShapes
    <3>. QED BY <3>3, <3>5
  <2>. QED BY <1>1, <2>1, <2>2, <2>3, <2>4, <2>5, <2>6, <2>7, WhoWrites
<1>3. failure' \in FailureOf(Stage)
  <2>1. CASE Elapse
    BY <1>1, <2>1, FailureShapes DEF Elapse, Stage
  <2>2. CASE Release
    BY <1>1, <2>2, FailureShapes DEF Release, Stage
  <2>3. CASE failure' = NoFailure
    BY <1>1, <2>3, FailureShapes DEF Stage
  <2>4. ASSUME NEW stage \in Stage, NEW retryable \in BOOLEAN,
               failure' = Failed(failure, stage, retryable)
        PROVE  failure' \in FailureOf(Stage)
    BY <1>1, <2>4, FailureShapes
  <2>. QED BY <1>1, <2>1, <2>2, <2>3, <2>4, WhatFails
<1>4. board' \in Place
  <2>1. CASE MoveByHand
    BY <2>1 DEF MoveByHand
  <2>2. CASE CanMove /\ board' \in {board, Owed}
    BY <1>1, <2>2, ConfigurationAssumption DEF CanMove
  <2>. QED BY <1>1, <2>1, <2>2, WhoWritesJira
<1>5. shown' \in Fields
  BY <1>1, WhoWritesJira DEF Entry
<1>6. told' \in Observed /\ doubled' \in Nat
  BY <1>1, WhoWritesJira DEF Tell
<1>7. byHand' \in Seq(Place) /\ handled' \in Nat
  <2>1. CASE UNCHANGED people
    BY <1>1, <2>1 DEF people
  <2>2. CASE MoveByHand
    <3>1. board' \in Place /\ byHand' = Append(byHand, board') /\ handled' = handled + 1
      BY <2>2, <1>4 DEF MoveByHand
    <3>. QED BY <1>1, <3>1, AppendProperties
  <2>3. CASE Sync
    BY <1>1, <2>3, HeadTailProperties DEF Sync
  <2>. QED BY <2>1, <2>2, <2>3, WhoMoves
<1>8. obs' \in Observed /\ crashes' \in Nat
  BY <1>1, StepPass, Observations
<1>9. entry' \in [seen : Observed, target : Place \union {None},
                 pendingTransition : Place \union {None},
                 pendingFields : Fields, delivered : Fields,
                 suppression : BOOLEAN]
      /\ failure' \in FailureOf({"fields", "transition", "read", "comment"})
  BY <1>2, <1>3 DEF Entry, Stage
<1>. QED BY <1>4, <1>5, <1>6, <1>7, <1>8, <1>9, StepPass DEF TypeOK

-----------------------------------------------------------------------------
(* The invariant.                                                          *)

(* A step that ends the pass leaves nothing in hand. *)
LEMMA IdlePlaced ==
  ASSUME Idle
  PROVE  Placed'
BY DEF Idle, Placed

(* No step of a pass that goes on holds the issue back. *)
LEMMA GoesOnUnblocked ==
  ASSUME TypeOK, Placed, [Next]_vars, pc' # "idle"
  PROVE  ~IsBlocked(failure')
<1>1. failure \in FailureOf(Stage)
  BY DEF TypeOK, Stage
<1>2. pc # "idle" => ~IsBlocked(failure)
  BY DEF Placed
<1>3. CASE Begin
  BY <1>3 DEF Begin
<1>4. CASE Elapse
  <2>1. failure'.hold = "due"
    BY <1>1, <1>4 DEF Elapse, FailureOf
  <2>. QED BY <2>1 DEF IsBlocked, IsParked
<1>5. CASE failure' = NoFailure
  BY <1>5 DEF NoFailure, IsBlocked, IsParked
<1>6. CASE pc # "idle" /\ UNCHANGED failure
  BY <1>2, <1>6
<1>7. CASE UNCHANGED <<failure, pc>>
  BY <1>2, <1>7
<1>8. CASE PassStep
  BY <1>5, <1>6, <1>8 DEF PassStep, PutFields, PutFails, RecordFields, RetryMove, Unmapped,
     OwesNothing, Transition, TransitionRefused, TransitionUnknown, RecordTransition, Read,
     ReadFails, SaveFields, Unsuppress, Retarget, NothingNew, Compared, Comment,
     CommentRefused, CommentUnknown, RecordComment, Fails, Idle
<1>9. CASE Progress \/ MoveByHand \/ Sync \/ UNCHANGED vars
  BY <1>7, <1>9 DEF vars, Progress, MoveByHand, Sync
<1>10. CASE Crash \/ Release
  BY <1>10 DEF Crash, Release, Idle
<1>. QED BY <1>3, <1>4, <1>8, <1>9, <1>10 DEF Next

(* What is unknown is not touched but by a person. *)
LEMMA UnknownStays ==
  ASSUME TypeOK, Placed, [Next]_vars, failure.hold = "unknown"
  PROVE  failure' = failure
<1>1. pc = "idle"
  BY DEF Placed, IsBlocked, IsParked
<1>2. ~Begin /\ ~Elapse /\ ~Release
  BY DEF Begin, IsBlocked, IsParked, Elapse, Release
<1>. QED
  BY <1>1, <1>2 DEF Next, vars, PassStep, Progress, MoveByHand, Sync,
     PutFields, PutFails, RecordFields, RetryMove, Unmapped, OwesNothing,
     Transition, TransitionRefused, TransitionUnknown, RecordTransition, Read, ReadFails,
     SaveFields, Unsuppress, Retarget, NothingNew, Comment, CommentRefused,
     CommentUnknown, RecordComment, Crash, Compared

(* What the pass has in hand, after any step. *)
LEMMA StepPlaced ==
  ASSUME TypeOK, Placed, [Next]_vars
  PROVE  Placed'
<1>1. entry \in Entry /\ now \in Observation
  BY DEF TypeOK, Entry
<1>2. pc' # "idle" => ~IsBlocked(failure')
  BY GoesOnUnblocked
<1>3. CASE Idle
  BY <1>3, IdlePlaced
<1>4. CASE pc' = pc /\ obs' = obs /\ told' = told /\ (pc = "idle" \/ entry' = entry)
  BY <1>2, <1>4 DEF Placed
<1>5. CASE Begin
  BY <1>2, <1>5 DEF Begin, Placed
<1>6. CASE PutFields
  BY <1>2, <1>6 DEF PutFields, Placed
<1>7. CASE RecordFields
  <2>1. entry'.pendingTransition = entry.pendingTransition
    BY <1>1, <1>7 DEF RecordFields, Entry
  <2>. QED BY <1>2, <1>7, <2>1 DEF RecordFields, Placed
<1>8. CASE pc' \in {"owed", "move", "moved"}
  BY <1>2, <1>8 DEF Placed
<1>9. CASE OwesNothing
  <2>1. entry.pendingTransition = None
    BY <1>9 DEF OwesNothing, Owed
  <2>. QED BY <1>2, <1>9, <2>1 DEF OwesNothing, Placed
<1>10. CASE RecordTransition
  <2>1. entry'.pendingTransition = None
    BY <1>1, <1>10 DEF RecordTransition, Entry
  <2>2. pc' = "read" \/ Idle
    BY <1>10 DEF RecordTransition
  <2>3. CASE pc' = "read"
    BY <1>2, <2>1, <2>3 DEF Placed
  <2>. QED BY <2>2, <2>3, IdlePlaced
<1>11. CASE Read
  BY <1>1, <1>2, <1>11 DEF Read, Placed
<1>12. CASE SaveFields
  <2>1. entry'.pendingTransition = entry.pendingTransition
    BY <1>1, <1>12 DEF SaveFields, Entry
  <2>. QED BY <1>2, <1>12, <2>1 DEF SaveFields, Placed
<1>13. CASE Comment
  BY <1>2, <1>13 DEF Comment, Compared, Tell, Placed
<1>. QED
  BY <1>3, <1>4, <1>5, <1>6, <1>7, <1>8, <1>9, <1>10, <1>11, <1>12, <1>13
  DEF Next, vars, jira, people, PassStep, Progress, MoveByHand, Sync, Elapse, Release,
     PutFails, RetryMove, Unmapped, Transition, TransitionRefused, TransitionUnknown,
     ReadFails, Unsuppress, Retarget, NothingNew, CommentRefused, CommentUnknown,
     RecordComment, Crash, Fails

(* Only a debt is told again, and a kill makes one debt at most. *)
LEMMA StepTold ==
  ASSUME IInv, [Next]_vars
  PROVE  Told'
<1>1. TypeOK /\ Placed /\ Told
  BY DEF IInv
<1>2. /\ doubled \in Nat /\ crashes \in Nat /\ crashes' \in {crashes, crashes + 1}
      /\ entry \in Entry
  BY <1>1, StepPass DEF TypeOK, Entry
<1>3. CASE Tell /\ (Comment \/ CommentUnknown)
  <2>1. pc = "compare" /\ obs # entry.seen
    BY <1>3 DEF Comment, CommentUnknown, Compared
  <2>2. told = obs => Debt
    BY <1>1, <2>1 DEF Debt, Placed, IsBlocked, IsParked
  <2>3. doubled' <= crashes
    BY <1>1, <1>2, <1>3, <2>2 DEF Tell, Told
  <2>4. Comment => pc' = "commented"
    BY DEF Comment
  <2>5. CommentUnknown => failure'.hold = "unknown"
    BY DEF CommentUnknown, Fails, Failed
  <2>6. ~Debt' /\ doubled' \in Nat
    BY <1>2, <1>3, <2>4, <2>5 DEF Debt, Tell
  <2>. QED BY <1>2, <2>3, <2>6 DEF Told
<1>4. CASE UNCHANGED <<told, doubled>>
  <2>1. CASE Crash
    <3>1. crashes' = crashes + 1
      BY <2>1 DEF Crash
    <3>. QED BY <1>1, <1>2, <1>4, <3>1 DEF Told
  <2>2. CASE RecordComment
    <3>1. entry'.seen = obs /\ told = obs
      BY <1>1, <1>2, <2>2 DEF RecordComment, Entry, Placed
    <3>. QED BY <1>1, <1>2, <1>4, <3>1 DEF Told, Debt
  <2>3. CASE ~Crash /\ ~RecordComment
    <3>1. entry'.seen = entry.seen
      BY <1>2, <2>3, WhoWrites DEF Sync, Delivered, RecordFields, RecordTransition, SaveFields,
         Unsuppress, Retarget, Entry
    <3>2. pc = "commented" => pc' = pc
      BY <2>3 DEF Next, vars, jira, people, PassStep, Progress, MoveByHand, Sync, Elapse, Release,
         Begin, PutFields, PutFails, RecordFields, RetryMove, Unmapped, OwesNothing,
         Transition, TransitionRefused, TransitionUnknown, RecordTransition, Read, ReadFails,
         SaveFields, Unsuppress, Retarget, NothingNew, Comment, CommentRefused,
         CommentUnknown, Compared
    <3>3. failure.hold = "unknown" => failure'.hold = "unknown"
      BY <1>1, UnknownStays
    <3>4. Debt' => Debt
      BY <1>4, <3>1, <3>2, <3>3 DEF Debt
    <3>. QED BY <1>1, <1>2, <1>4, <3>4 DEF Told
  <2>. QED BY <2>1, <2>2, <2>3
<1>. QED BY <1>3, <1>4, WhoWritesJira

(* It holds at the start, for each entry there may be. *)
LEMMA InitIInv == Init => IInv
<1> SUFFICES ASSUME Init PROVE IInv
  OBVIOUS
<1>1. Created \in Entry /\ Restored \in Entry
  BY Observations, ConfigurationAssumption DEF Created, Restored, Entry
<1>2. ASSUME NEW o \in Observation \union StatusOnly
      PROVE  Inherited(o) \in Entry
  <2>1. o \in Observed
    BY DEF Observed
  <2>. QED BY <1>1, <2>1 DEF Inherited, Entry
<1>3. entry \in Entry
  BY <1>1, <1>2 DEF Init
<1>4. /\ NoFailure \in FailureOf(Stage)
      /\ Failed(NoFailure, "transition", TRUE) \in FailureOf(Stage)
      /\ NoFailure.hold # "unknown" /\ Failed(NoFailure, "transition", TRUE).hold # "unknown"
  <2>1. NoFailure \in FailureOf(Stage)
    BY DEF NoFailure, FailureOf
  <2>2. "transition" \in Stage
    BY DEF Stage
  <2>3. Failed(NoFailure, "transition", TRUE) \in FailureOf(Stage)
    BY <2>1, <2>2, FailureShapes
  <2>4. Failed(NoFailure, "transition", TRUE).hold # "unknown"
    BY DEF Failed
  <2>. QED BY <2>1, <2>3, <2>4 DEF NoFailure
<1>5. failure \in FailureOf(Stage) /\ told = entry.seen
  BY <1>4 DEF Init
<1>6. byHand \in Seq(Place)
  BY EmptySeq DEF Init
<1>7. TypeOK
  <2>1. told \in Observed
    BY <1>3, <1>5 DEF Entry
  <2>2. shown \in Fields /\ obs \in Observed
    BY Observations DEF Init
  <2>. QED BY <1>3, <1>5, <1>6, <2>1, <2>2 DEF Init, TypeOK, Entry, Stage
<1>8. Placed
  BY DEF Init, Placed
<1>9. Told
  BY <1>5 DEF Init, Told, Debt
<1>. QED BY <1>7, <1>8, <1>9 DEF IInv

(* The inductive invariant: shapes, what the pass has in hand, and the     *)
(* comment that is not recorded.                                           *)
THEOREM Invariant == Spec => []IInv
<1>1. ASSUME IInv, [Next]_vars PROVE IInv'
  BY <1>1, StepTypes, StepPlaced, StepTold DEF IInv
<1>. QED BY <1>1, InitIInv, PTL DEF Spec

(* Every variable of the mirror keeps its shape. *)
THEOREM TypeCorrect == Spec => []TypeOK
<1>. QED BY Invariant, PTL DEF IInv

(* Jira is told each status once: a kill between a comment and its record  *)
(* makes the mirror say the same twice at most once (sync.py:776-781).     *)
THEOREM ToldOnce == Spec => []CommentedOnce
<1>1. IInv => CommentedOnce
  BY DEF IInv, Told, CommentedOnce
<1>. QED BY <1>1, Invariant, PTL

(* A transition that is owed is made before the next status is reported    *)
(* (sync.py:779).                                                          *)
THEOREM OwedComesFirst == Spec => FinishedBeforeNext
<1>1. ASSUME IInv, [Next]_vars, entry'.seen # entry.seen
      PROVE  entry.pendingTransition = None
  <2>1. entry \in Entry
    BY <1>1 DEF IInv, TypeOK, Entry
  <2>2. RecordComment
    BY <1>1, <2>1, WhoWrites DEF Sync, Delivered, RecordFields, RecordTransition, SaveFields,
       Unsuppress, Retarget, Entry
  <2>. QED BY <1>1, <2>2 DEF IInv, Placed, RecordComment
<1>2. IInv /\ [Next]_vars =>
        [entry'.seen # entry.seen => entry.pendingTransition = None]_vars
  BY <1>1
<1>. QED BY <1>2, Invariant, PTL DEF Spec, FinishedBeforeNext
-----------------------------------------------------------------------------
(* What is owed.  Fields are sent while they are owed and nothing else is  *)
(* done before they have been; the card is moved while its place is owed;  *)
(* a pass that reads on owes nothing, by a failure of before neither.      *)
Owing == /\ pc \in {"fields", "put"} => entry.pendingFields # None
         /\ pc \in {"owed", "move", "moved", "read", "compare", "commented"} =>
              entry.pendingFields = None
         /\ pc = "put" => shown = entry.pendingFields
         /\ pc \in {"move", "moved"} => Owed # None
         /\ pc \in {"read", "compare", "commented"} => failure.stage # "transition"
         /\ failure.stage = "transition" => entry.pendingFields = None

(* An entry of the queue is there or not, and has the stage that failed.   *)
Shaped == /\ failure.hold = "none" => failure = NoFailure
          /\ failure.stage = "none" => failure.hold = "none"

LEMMA IdleOwing ==
  ASSUME pc' = "idle", failure'.stage = "transition" => entry'.pendingFields = None
  PROVE  Owing'
BY DEF Owing

(* What is owed, after any step. *)
LEMMA StepOwing ==
  ASSUME TypeOK, Placed, Owing, [Next]_vars
  PROVE  Owing'
<1>1. entry \in Entry /\ failure \in FailureOf(Stage)
  BY DEF TypeOK, Entry, Stage
<1>2. NoFailure.stage = "none"
  BY DEF NoFailure
<1>3. \A f, s, b : Failed(f, s, b).stage = s
  BY DEF Failed
<1>4. CASE UNCHANGED <<pc, entry, failure, shown>>
  BY <1>4 DEF Owing, Owed
<1>5. CASE Sync
  <2>1. entry'.pendingFields = entry.pendingFields
    BY <1>1, <1>5 DEF Sync, Delivered, Entry
  <2>. QED BY <1>5, <2>1, IdleOwing DEF Sync, Owing
<1>6. CASE Elapse
  <2>1. failure'.stage = failure.stage
    BY <1>1, <1>6 DEF Elapse, FailureOf
  <2>. QED BY <1>6, <2>1 DEF Elapse, Owing, Owed, jira
<1>7. CASE Release
  <2>1. failure'.stage = failure.stage
    BY <1>1, <1>7 DEF Release, Released, FailureOf
  <2>. QED BY <1>7, <2>1, IdleOwing DEF Release, Owing
<1>8. CASE Begin
  BY <1>8 DEF Begin, Owing
<1>9. CASE PutFields
  BY <1>9 DEF PutFields, Owing
<1>10. CASE PutFails \/ ReadFails \/ CommentRefused \/ CommentUnknown
  <2>1. PICK stage \in {"fields", "read", "comment"}, b \in BOOLEAN :
          failure' = Failed(failure, stage, b) /\ Idle
    BY <1>10 DEF PutFails, ReadFails, CommentRefused, CommentUnknown, Fails
  <2>2. failure'.stage = stage /\ stage # "transition"
    BY <1>3, <2>1
  <2>. QED BY <2>1, <2>2, IdleOwing DEF Idle
<1>11. CASE RecordFields
  <2>1. entry'.pendingFields = None
    BY <1>1, <1>11 DEF RecordFields, Entry
  <2>. QED BY <1>2, <1>11, <2>1 DEF RecordFields, Owing
<1>12. CASE RetryMove \/ Transition
  <2>1. UNCHANGED <<entry, failure>> /\ Owed # None /\ entry.pendingFields = None
        /\ pc' \in {"move", "moved"}
    BY <1>12 DEF RetryMove, Transition, Owing
  <2>. QED BY <2>1 DEF Owing, Owed
<1>13. CASE Unmapped \/ Crash
  BY <1>13, IdleOwing DEF Unmapped, Crash, Idle, Owing
<1>14. CASE OwesNothing \/ Read \/ Comment
  BY <1>14 DEF OwesNothing, Read, Comment, Compared, Owing
<1>15. CASE TransitionRefused \/ TransitionUnknown
  BY <1>15, IdleOwing DEF TransitionRefused, TransitionUnknown, Fails, Idle, Owing
<1>16. CASE RecordTransition
  <2>1. entry'.pendingFields = None /\ failure' = NoFailure /\ pc' \in {"read", "idle"}
    BY <1>1, <1>16 DEF RecordTransition, Entry, Idle, Owing
  <2>. QED BY <1>2, <2>1 DEF Owing
<1>17. CASE SaveFields
  <2>1. obs \in Observation
    BY <1>17 DEF SaveFields, Placed
  <2>2. entry'.pendingFields = ResultFields(obs)
    BY <1>1, <1>17 DEF SaveFields, Entry
  <2>3. entry'.pendingFields # None
    BY <2>1, <2>2, FieldsAssumption
  <2>. QED BY <1>17, <2>3 DEF SaveFields, Owing
<1>18. CASE Unsuppress
  <2>1. entry'.pendingFields = entry.pendingFields
    BY <1>1, <1>18 DEF Unsuppress, Entry
  <2>. QED BY <1>18, <2>1, IdleOwing DEF Unsuppress, Idle, Owing
<1>19. CASE Retarget
  <2>1. entry'.pendingFields = None /\ entry'.pendingTransition = Target(obs)
    BY <1>1, <1>19 DEF Retarget, Compared, Entry, Owing
  <2>2. Owed' # None
    BY <1>19, <2>1 DEF Retarget, TargetIsNew, Owed
  <2>. QED BY <1>19, <2>1, <2>2 DEF Retarget, Owing
<1>20. CASE NothingNew
  BY <1>2, <1>20, IdleOwing DEF NothingNew, Idle, Owing
<1>21. CASE RecordComment
  <2>1. PICK p : /\ entry' = [entry EXCEPT !.seen = obs, !.target = Target(obs),
                                   !.pendingTransition = p, !.suppression = FALSE]
                 /\ \/ p # None /\ pc' = "move"
                    \/ pc' = "idle"
    BY <1>21 DEF RecordComment, Idle
  <2>2. entry'.pendingFields = None /\ entry'.pendingTransition = p
    BY <1>1, <1>21, <2>1 DEF RecordComment, Entry, Owing
  <2>3. failure' = NoFailure
    BY <1>21 DEF RecordComment
  <2>4. p # None => Owed' # None
    BY <2>2 DEF Owed
  <2>. QED BY <1>2, <2>1, <2>2, <2>3, <2>4 DEF Owing
<1>. QED
  BY <1>4, <1>5, <1>6, <1>7, <1>8, <1>9, <1>10, <1>11, <1>12, <1>13, <1>14, <1>15, <1>16, <1>17,
     <1>18, <1>19, <1>20, <1>21
  DEF Next, vars, jira, PassStep, Progress, MoveByHand

(* The entry of the queue, after any step. *)
LEMMA StepShaped ==
  ASSUME TypeOK, Shaped, [Next]_vars
  PROVE  Shaped'
<1>1. failure \in FailureOf(Stage)
  BY DEF TypeOK, Stage
<1>2. CASE failure' \in {failure, NoFailure}
  BY <1>2 DEF Shaped, NoFailure
<1>3. ASSUME NEW stage \in Stage, NEW retryable \in BOOLEAN,
             failure' = Failed(failure, stage, retryable)
      PROVE  Shaped'
  BY <1>3 DEF Shaped, Failed, Stage
<1>4. CASE Elapse \/ Release
  <2>1. /\ failure'.hold = "due" /\ failure'.stage = failure.stage /\ failure.hold # "none"
    BY <1>1, <1>4 DEF Elapse, Release, Released, FailureOf
  <2>. QED BY <2>1 DEF Shaped
<1>. QED BY <1>2, <1>3, <1>4, WhatFails

LEMMA OwingAlways == Spec => [](IInv /\ Owing /\ Shaped)
<1>1. Init => Owing /\ Shaped
  <2> SUFFICES ASSUME Init PROVE Owing /\ Shaped
    OBVIOUS
  <2>1. pc = "idle"
    BY DEF Init
  <2>2. CASE failure = NoFailure
    BY <2>1, <2>2 DEF Owing, Shaped, NoFailure
  <2>3. CASE /\ failure = Failed(NoFailure, "transition", TRUE)
             /\ entry \in {Inherited(o) : o \in StatusOnly}
    <3>1. entry.pendingFields = None
      BY <2>3 DEF Inherited, Restored, Created
    <3>2. failure.stage = "transition" /\ failure.hold # "none"
      BY <2>3 DEF Failed
    <3>. QED BY <2>1, <3>1, <3>2 DEF Owing, Shaped
  <2>. QED BY <2>2, <2>3 DEF Init
<1>2. IInv /\ Owing /\ Shaped /\ [Next]_vars => Owing' /\ Shaped'
  BY StepOwing, StepShaped DEF IInv
<1>. QED BY <1>1, <1>2, Invariant, PTL DEF Spec

-----------------------------------------------------------------------------
(* The mirror is an Outbox.                                                *)

(* What is owed for the card is of the entry and the stage that failed. *)
LEMMA OwedStays ==
  ASSUME entry'.pendingTransition = entry.pendingTransition, entry'.seen = entry.seen,
         \/ failure'.stage = failure.stage
         \/ failure'.stage # "transition" /\ failure.stage # "transition"
  PROVE  Owed' = Owed
BY DEF Owed

(* Who has come as far as the comparison, owes nothing. *)
LEMMA ComparesFree ==
  ASSUME Placed, Owing, pc \in {"read", "compare", "commented"}
  PROVE  entry.pendingFields = None /\ Owed = None
BY DEF Placed, Owing, Owed

(* What is neither of Jira nor of the file is not of the Outbox. *)
LEMMA Stutters ==
  ASSUME UNCHANGED <<jira, entry>>, Owed' = Owed, Done' = Done
  PROVE  UNCHANGED Promise!vars
BY DEF jira, Promise!vars, Promise!jira, Promise!file

(* A failure that leaves what is owed as it is, is no step or a Forget. *)
LEMMA FailsForgets ==
  ASSUME UNCHANGED <<jira, entry>>, Owed' = Owed, pc' = "idle"
  PROVE  [Promise!Next]_(Promise!vars)
<1>1. Done' = "none"
  BY DEF Done
<1>2. CASE Done = "none"
  BY <1>1, <1>2, Stutters
<1>3. CASE Done # "none"
  <2>1. Promise!Forget
    BY <1>1, <1>3 DEF Promise!Forget, Promise!jira, Promise!file, jira
  <2>. QED BY <2>1 DEF Promise!Next
<1>. QED BY <1>2, <1>3

(* The steps about the result fields are those of the Outbox. *)
LEMMA FieldSteps ==
  ASSUME TypeOK, Placed, Owing, PutFields \/ PutFails \/ RecordFields \/ SaveFields
  PROVE  [Promise!Next]_(Promise!vars)
<1>1. entry \in Entry
  BY DEF TypeOK, Entry
<1>2. NoFailure.stage = "none" /\ \A f, s, b : Failed(f, s, b).stage = s
  BY DEF NoFailure, Failed
<1>3. CASE PutFields
  <2>1. /\ Done = "none" /\ Done' = "fields" /\ entry.pendingFields # None
        /\ shown' = entry.pendingFields /\ UNCHANGED <<board, told, entry, failure>>
    BY <1>3 DEF PutFields, Done, Owing
  <2>2. Owed' = Owed
    BY <2>1, OwedStays
  <2>3. Promise!PutFields
    BY <2>1, <2>2 DEF Promise!PutFields, Promise!file
  <2>. QED BY <2>3 DEF Promise!Next
<1>4. CASE PutFails
  <2>1. /\ pc = "fields" /\ pc' = "idle" /\ entry.pendingFields # None
        /\ shown' \in {shown, entry.pendingFields} /\ UNCHANGED <<board, told, entry>>
        /\ failure' = Failed(failure, "fields", TRUE) /\ failure.stage # "transition"
    BY <1>4 DEF PutFails, Fails, Idle, Owing
  <2>2. Owed' = Owed
    BY <1>2, <2>1, OwedStays
  <2>3. Done = "none" /\ Done' = "none"
    BY <2>1 DEF Done
  <2>4. CASE shown' = shown
    BY <2>1, <2>2, <2>3, <2>4, Stutters DEF jira
  <2>5. CASE shown' = entry.pendingFields
    <3>1. Promise!PutFields
      BY <2>1, <2>2, <2>3, <2>5 DEF Promise!PutFields, Promise!file
    <3>. QED BY <3>1 DEF Promise!Next
  <2>. QED BY <2>1, <2>4, <2>5
<1>5. CASE RecordFields
  <2>1. /\ pc = "put" /\ pc' \in {"owed", "compare"} /\ UNCHANGED jira
        /\ failure' = NoFailure /\ failure.stage # "transition"
        /\ shown = entry.pendingFields
    BY <1>5 DEF RecordFields, Owing
  <2>2. /\ entry'.pendingFields = None /\ entry'.seen = entry.seen
        /\ entry'.pendingTransition = entry.pendingTransition
        /\ entry'.suppression = entry.suppression
    BY <1>1, <1>5 DEF RecordFields, Entry
  <2>3. Owed' = Owed
    BY <1>2, <2>1, <2>2, OwedStays
  <2>4. Done = "fields" /\ Done' = "none"
    BY <2>1 DEF Done
  <2>5. Promise!StrikeFields
    BY <2>1, <2>2, <2>3, <2>4 DEF Promise!StrikeFields, Promise!jira, jira
  <2>. QED BY <2>5 DEF Promise!Next
<1>6. CASE SaveFields
  <2>1. pc = "compare" /\ pc' = "fields" /\ UNCHANGED <<jira, failure>> /\ obs \in Observation
    BY <1>6 DEF SaveFields, Placed
  <2>2. /\ entry'.pendingFields = ResultFields(obs) /\ entry'.seen = entry.seen
        /\ entry'.pendingTransition = entry.pendingTransition
        /\ entry'.suppression = entry.suppression
    BY <1>1, <1>6 DEF SaveFields, Entry
  <2>3. Owed' = Owed /\ Owed = None /\ entry.pendingFields = None
    BY <2>1, <2>2, OwedStays, ComparesFree
  <2>4. entry'.pendingFields # None
    BY <2>1, <2>2, FieldsAssumption
  <2>5. Done = "none" /\ Done' = "none"
    BY <2>1 DEF Done
  <2>6. Promise!OweFields
    BY <2>1, <2>2, <2>3, <2>4, <2>5
    DEF Promise!OweFields, Promise!NothingOwed, Promise!jira, jira
  <2>. QED BY <2>6 DEF Promise!Next
<1>. QED BY <1>3, <1>4, <1>5, <1>6

(* The steps about the place of the card are those of the Outbox. *)
LEMMA CardSteps ==
  ASSUME TypeOK, Placed, Owing,
         \/ Transition \/ TransitionRefused \/ TransitionUnknown \/ RecordTransition
         \/ Retarget
  PROVE  [Promise!Next]_(Promise!vars)
<1>1. entry \in Entry
  BY DEF TypeOK, Entry
<1>2. NoFailure.stage = "none" /\ \A f, s, b : Failed(f, s, b).stage = s
  BY DEF NoFailure, Failed
<1>3. CASE Transition
  <2>1. /\ pc = "move" /\ pc' = "moved" /\ board' = Owed
        /\ UNCHANGED <<shown, told, entry, failure>>
    BY <1>3 DEF Transition
  <2>2. Owed' = Owed /\ Owed # None /\ entry.pendingFields = None
    BY <2>1, OwedStays DEF Owing
  <2>3. Done = "none" /\ Done' = "card"
    BY <2>1 DEF Done
  <2>4. Promise!MoveCard
    BY <2>1, <2>2, <2>3 DEF Promise!MoveCard, Promise!file
  <2>. QED BY <2>4 DEF Promise!Next
<1>4. CASE TransitionRefused \/ TransitionUnknown
  <2>1. PICK b \in BOOLEAN : failure' = Failed(failure, "transition", b)
    BY <1>4 DEF TransitionRefused, TransitionUnknown, Fails
  <2>2. /\ pc = "move" /\ pc' = "idle" /\ board' \in {board, Owed}
        /\ UNCHANGED <<shown, told, entry>>
    BY <1>4 DEF TransitionRefused, TransitionUnknown, Fails, Idle, jira
  <2>3. Owed # None /\ entry.pendingFields = None
    BY <2>2 DEF Owing
  <2>4. Owed' = Owed
    BY <1>2, <2>1, <2>2, <2>3 DEF Owed
  <2>5. Done = "none" /\ Done' = "none"
    BY <2>2 DEF Done
  <2>6. CASE board' = board
    BY <2>2, <2>4, <2>5, <2>6, Stutters DEF jira
  <2>7. CASE board' = Owed
    <3>1. Promise!MoveCard
      BY <2>2, <2>3, <2>4, <2>5, <2>7 DEF Promise!MoveCard, Promise!file
    <3>. QED BY <3>1 DEF Promise!Next
  <2>. QED BY <2>2, <2>6, <2>7
<1>5. CASE RecordTransition
  <2>1. pc = "moved" /\ pc' \in {"read", "idle"} /\ UNCHANGED jira /\ failure' = NoFailure
    BY <1>5 DEF RecordTransition, Idle
  <2>2. /\ entry'.pendingFields = entry.pendingFields /\ entry'.seen = entry.seen
        /\ entry'.pendingTransition = None /\ entry'.suppression = entry.suppression
    BY <1>1, <1>5 DEF RecordTransition, Entry
  <2>3. Owed' = None
    BY <1>2, <2>1, <2>2 DEF Owed
  <2>4. Done = "card" /\ Done' = "none"
    BY <2>1 DEF Done
  <2>5. Promise!StrikeCard
    BY <2>1, <2>2, <2>3, <2>4 DEF Promise!StrikeCard, Promise!jira, jira
  <2>. QED BY <2>5 DEF Promise!Next
<1>6. CASE Retarget
  <2>1. /\ pc = "compare" /\ pc' = "move" /\ UNCHANGED jira
        /\ obs \in Observation /\ obs = entry.seen /\ ~entry.suppression /\ Target(obs) # None
    BY <1>6 DEF Retarget, Compared, TargetIsNew, Placed
  <2>2. /\ entry'.pendingFields = entry.pendingFields /\ entry'.seen = entry.seen
        /\ entry'.pendingTransition = Target(obs) /\ entry'.suppression = entry.suppression
    BY <1>1, <1>6 DEF Retarget, Entry
  <2>3. Owed' = Target(obs) /\ Owed = None /\ entry.pendingFields = None
    BY <2>1, <2>2, ComparesFree DEF Owed
  <2>4. [o \in Observation |-> Target(o)][entry.seen] = Target(obs)
    BY <2>1
  <2>5. Done = "none" /\ Done' = "none"
    BY <2>1 DEF Done
  <2>6. Promise!OweCard
    BY <2>1, <2>2, <2>3, <2>4, <2>5
    DEF Promise!OweCard, Promise!NothingOwed, Promise!jira, jira
  <2>. QED BY <2>6 DEF Promise!Next
<1>. QED BY <1>3, <1>4, <1>5, <1>6

(* The steps about a report are those of the Outbox. *)
LEMMA ReportSteps ==
  ASSUME TypeOK, Placed, Owing,
         Comment \/ CommentRefused \/ CommentUnknown \/ RecordComment
  PROVE  [Promise!Next]_(Promise!vars)
<1>1. entry \in Entry
  BY DEF TypeOK, Entry
<1>2. NoFailure.stage = "none" /\ \A f, s, b : Failed(f, s, b).stage = s
  BY DEF NoFailure, Failed
<1>3. CASE Comment
  <2>1. /\ pc = "compare" /\ pc' = "commented" /\ obs # entry.seen /\ told' = obs
        /\ UNCHANGED <<board, shown, entry, failure>>
    BY <1>3 DEF Comment, Compared, Tell
  <2>2. Owed' = Owed /\ Owed = None /\ entry.pendingFields = None
    BY <2>1, OwedStays, ComparesFree
  <2>3. Done = "none" /\ Done' = "comment"
    BY <2>1 DEF Done
  <2>4. Promise!Report
    BY <2>1, <2>2, <2>3 DEF Promise!Report, Promise!NothingOwed, Promise!file
  <2>. QED BY <2>4 DEF Promise!Next
<1>4. CASE CommentRefused \/ CommentUnknown
  <2>1. PICK b \in BOOLEAN : failure' = Failed(failure, "comment", b)
    BY <1>4 DEF CommentRefused, CommentUnknown, Fails
  <2>2. /\ pc = "compare" /\ pc' = "idle" /\ obs # entry.seen /\ told' \in {told, obs}
        /\ UNCHANGED <<board, shown, entry>>
    BY <1>4 DEF CommentRefused, CommentUnknown, Fails, Idle, Compared, Tell, jira
  <2>3. failure.stage # "transition"
    BY <2>2 DEF Owing
  <2>4. Owed' = Owed /\ Owed = None /\ entry.pendingFields = None
    BY <1>2, <2>1, <2>2, <2>3, OwedStays, ComparesFree
  <2>5. Done = "none" /\ Done' = "none"
    BY <2>2 DEF Done
  <2>6. CASE told' = told
    BY <2>2, <2>4, <2>5, <2>6, Stutters DEF jira
  <2>7. CASE told' = obs
    <3>1. Promise!Report
      BY <2>2, <2>4, <2>5, <2>7 DEF Promise!Report, Promise!NothingOwed, Promise!file
    <3>. QED BY <3>1 DEF Promise!Next
  <2>. QED BY <2>2, <2>6, <2>7
<1>5. CASE RecordComment
  <2>1. /\ pc = "commented" /\ pc' \in {"move", "idle"} /\ UNCHANGED jira
        /\ failure' = NoFailure /\ told = obs /\ obs \in Observation
    BY <1>5 DEF RecordComment, Idle, Placed
  <2>2. PICK p : /\ entry' = [entry EXCEPT !.seen = obs, !.target = Target(obs),
                                !.pendingTransition = p, !.suppression = FALSE]
                 /\ p = None \/ (~entry.suppression /\ p = Target(obs))
    BY <1>5 DEF RecordComment
  <2>3. /\ entry'.pendingFields = entry.pendingFields /\ entry'.seen = obs
        /\ entry'.pendingTransition = p /\ entry'.suppression = FALSE
    BY <1>1, <2>2 DEF Entry
  <2>4. Owed' = p
    BY <1>2, <2>1, <2>3 DEF Owed
  <2>5. Owed = None /\ entry.pendingFields = None
    BY <2>1, ComparesFree
  <2>6. [o \in Observation |-> Target(o)][told] = Target(obs)
    BY <2>1
  <2>7. Done = "comment" /\ Done' = "none"
    BY <2>1 DEF Done
  <2>8. entry'.pendingFields = entry.pendingFields /\ entry'.seen = told
        /\ UNCHANGED <<board, shown, told>>
    BY <2>1, <2>3 DEF jira
  <2>9. Owed' = None \/ (~entry.suppression /\ Owed' = [o \in Observation |-> Target(o)][told])
    BY <2>2, <2>4, <2>6
  <2>10. Promise!RecordReport
    BY <2>3, <2>5, <2>7, <2>8, <2>9
    DEF Promise!RecordReport, Promise!NothingOwed, Promise!jira
  <2>. QED BY <2>10 DEF Promise!Next
<1>. QED BY <1>3, <1>4, <1>5

(* So are people's moves, what is delivered of them, and the mark's end. *)
LEMMA MoveSteps ==
  ASSUME TypeOK, Placed, Owing, MoveByHand \/ Sync \/ Unsuppress
  PROVE  [Promise!Next]_(Promise!vars)
<1>1. entry \in Entry
  BY DEF TypeOK, Entry
<1>2. CASE MoveByHand
  <2>1. board' # board /\ UNCHANGED <<shown, told, entry, failure, pc>>
    BY <1>2 DEF MoveByHand
  <2>2. Owed' = Owed /\ Done' = Done
    BY <2>1, OwedStays DEF Done
  <2>3. Promise!ByHand
    BY <2>1, <2>2 DEF Promise!ByHand, Promise!file
  <2>. QED BY <2>3 DEF Promise!Next
<1>3. CASE Sync
  <2>1. pc = "idle" /\ UNCHANGED <<jira, failure, pc>>
    BY <1>3 DEF Sync
  <2>2. Done = "none" /\ Done' = "none"
    BY <2>1 DEF Done
  <2>3. CASE entry' = entry
    BY <2>1, <2>2, <2>3, OwedStays, Stutters
  <2>4. CASE entry' = [entry EXCEPT !.suppression = TRUE]
    <3>1. /\ entry'.pendingFields = entry.pendingFields /\ entry'.seen = entry.seen
          /\ entry'.pendingTransition = entry.pendingTransition
          /\ entry'.suppression = TRUE
      BY <1>1, <2>4 DEF Entry
    <3>2. Owed' = Owed
      BY <2>1, <3>1, OwedStays
    <3>3. Promise!Mark
      BY <2>1, <2>2, <3>1, <3>2 DEF Promise!Mark, Promise!jira, jira
    <3>. QED BY <3>3 DEF Promise!Next
  <2>. QED BY <1>3, <2>3, <2>4 DEF Sync, Delivered
<1>4. CASE Unsuppress
  <2>1. pc = "compare" /\ pc' = "idle" /\ UNCHANGED <<jira, failure>>
    BY <1>4 DEF Unsuppress, Compared, Idle
  <2>2. /\ entry'.pendingFields = entry.pendingFields /\ entry'.seen = entry.seen
        /\ entry'.pendingTransition = None
        /\ entry'.suppression = FALSE
    BY <1>1, <1>4 DEF Unsuppress, Entry
  <2>3. entry.pendingTransition = None /\ Owed = None /\ entry.pendingFields = None
    BY <2>1, ComparesFree DEF Placed
  <2>4. Owed' = Owed
    BY <2>1, <2>2, <2>3, OwedStays
  <2>5. Done = "none" /\ Done' = "none"
    BY <2>1 DEF Done
  <2>6. Promise!Unmark
    BY <2>1, <2>2, <2>3, <2>4, <2>5
    DEF Promise!Unmark, Promise!NothingOwed, Promise!jira, jira
  <2>. QED BY <2>6 DEF Promise!Next
<1>. QED BY <1>2, <1>3, <1>4

(* What the other steps change, nobody who looks at Jira can see. *)
LEMMA OtherSteps ==
  ASSUME TypeOK, Placed, Owing,
         \/ Progress \/ Elapse \/ Release \/ Begin \/ RetryMove \/ Unmapped \/ OwesNothing
         \/ Read \/ ReadFails \/ NothingNew \/ Crash \/ UNCHANGED vars
  PROVE  [Promise!Next]_(Promise!vars)
<1>1. NoFailure.stage = "none" /\ \A f, s, b : Failed(f, s, b).stage = s
  BY DEF NoFailure, Failed
<1>2. failure \in FailureOf(Stage)
  BY DEF TypeOK, Stage
<1>3. UNCHANGED <<jira, entry>>
  BY DEF Progress, Elapse, Release, Begin, RetryMove, Unmapped, OwesNothing, Read, ReadFails,
     NothingNew, Crash, Fails, vars
<1>4. \/ failure'.stage = failure.stage
      \/ failure'.stage # "transition" /\ failure.stage # "transition"
  <2>1. CASE Elapse \/ Release
    BY <1>2, <2>1 DEF Elapse, Release, Released, FailureOf
  <2>2. CASE ReadFails
    BY <1>1, <2>2 DEF ReadFails, Fails, Owing
  <2>3. CASE NothingNew
    BY <1>1, <2>3 DEF NothingNew, Compared, Owing
  <2>. QED BY <2>1, <2>2, <2>3 DEF Progress, Begin, RetryMove, Unmapped, OwesNothing, Read, Crash, vars
<1>5. Owed' = Owed
  BY <1>3, <1>4, OwedStays
<1>6. pc' = "idle" \/ Done' = Done
  BY DEF Progress, Elapse, Release, Begin, RetryMove, Unmapped, OwesNothing, Read, ReadFails,
     NothingNew, Crash, Fails, Idle, vars, Done
<1>. QED BY <1>3, <1>5, <1>6, FailsForgets, Stutters

(* To Jira the mirror is an Outbox: what it owes is on file before it is   *)
(* sent and struck off only after Jira has it, nothing is reported over    *)
(* what is owed, and a card that people moved is owed no new place before  *)
(* the next report (sync.py:776-781, sync.py:800-950).                     *)
THEOREM OutboxRefinement == Spec => OutboxSpec
<1>1. Init => Promise!Init
  <2> SUFFICES ASSUME Init PROVE Promise!Init
    OBVIOUS
  <2>1. Done = "none" /\ told = entry.seen
    BY DEF Init, Done
  <2>2. entry.suppression = FALSE
    <3>1. Created.suppression = FALSE /\ Restored.suppression = FALSE
      BY DEF Created, Restored
    <3>2. \A o : Inherited(o).suppression = FALSE
      BY DEF Created, Restored, Inherited
    <3>. QED BY <3>1, <3>2 DEF Init
  <2>. QED BY <2>1, <2>2 DEF Promise!Init
<1>2. IInv /\ Owing /\ Shaped /\ [Next]_vars => [Promise!Next]_(Promise!vars)
  <2> SUFFICES ASSUME IInv, Owing, [Next]_vars PROVE [Promise!Next]_(Promise!vars)
    OBVIOUS
  <2>1. TypeOK /\ Placed
    BY DEF IInv
  <2>. QED
    BY <2>1, FieldSteps, CardSteps, ReportSteps, MoveSteps, OtherSteps DEF Next, PassStep
<1>. QED BY <1>1, <1>2, OwingAlways, PTL DEF Spec, OutboxSpec, Promise!Spec

-----------------------------------------------------------------------------
(* The mirror and the failure queue.                                       *)

(* A failure, a success, a release or a wait of the entry is one of the    *)
(* queue.                                                                  *)
LEMMA QueueSteps ==
  ASSUME TypeOK, Placed, Shaped, [Next]_vars, failure' # failure
  PROVE  Queue!QueueNext
<1> USE DEF Queue!QueueNext, Queue!Parked, Queue!Blocked, Queue!NextCount, Queue!Delay
<1>1. /\ failure \in FailureOf(Stage) /\ failure.attempts \in Nat
      /\ failure.hold = "none" => failure = NoFailure
      /\ failure.stage = "none" => failure.hold = "none"
      /\ pc # "idle" => ~IsBlocked(failure)
  BY DEF TypeOK, FailureOf, Stage, Shaped, Placed
<1>2. NoFailure = [stage |-> "none", attempts |-> 0, hold |-> "none"]
  BY DEF NoFailure
<1>3. CASE pc # "idle" /\ failure' = NoFailure
  <2>1. Queue!Clear
    BY <1>1, <1>2, <1>3 DEF Queue!Clear, Queue!Gone, IsBlocked, IsParked
  <2>. QED BY <2>1
<1>4. ASSUME pc # "idle", NEW s \in Stage, NEW b \in BOOLEAN, failure' = Failed(failure, s, b)
      PROVE  Queue!Fail(s) \/ Queue!FailUnknown(s)
  <2>1. ~Queue!Blocked
    BY <1>1, <1>4 DEF IsBlocked, IsParked
  <2>2. /\ failure'.stage = s /\ failure'.attempts = failure.attempts + 1
        /\ failure'.hold = IF ~b THEN "unknown"
                           ELSE IF failure.attempts + 1 >= Attempts
                                THEN "exhausted" ELSE "waiting"
    BY <1>4 DEF Failed
  <2>3. CASE ~b
    BY <2>1, <2>2, <2>3 DEF Queue!FailUnknown
  <2>4. CASE b /\ failure.attempts + 1 >= Attempts
    BY <2>1, <2>2, <2>4 DEF Queue!Fail
  <2>5. CASE b /\ ~(failure.attempts + 1 >= Attempts)
    <3>1. failure'.attempts < Attempts
      BY <1>1, <2>2, <2>5, AttemptsAssumption
    <3>. QED BY <1>4, <2>1, <2>2, <2>5, <3>1 DEF Queue!Fail, Stage
  <2>. QED BY <2>3, <2>4, <2>5
<1>5. CASE Elapse
  <2>1. /\ failure.hold = "waiting" /\ failure'.hold = "due"
        /\ failure'.attempts = failure.attempts /\ failure'.stage = failure.stage
    BY <1>1, <1>5 DEF Elapse, FailureOf
  <2>2. Queue!Waits
    BY <2>1 DEF Queue!Waits
  <2>. QED BY <2>2
<1>6. CASE Release
  <2>1. /\ failure.hold = "exhausted"
        /\ failure'.hold = "due" /\ failure'.attempts = 0 /\ failure'.stage = failure.stage
    BY <1>1, <1>6 DEF Release, Released, FailureOf
  <2>2. Queue!Release
    BY <2>1 DEF Queue!Release
  <2>. QED BY <2>2
<1>. QED BY <1>3, <1>4, <1>5, <1>6, WhatFails DEF Stage

(* To the failure queue the mirror is one of those who try the work of an  *)
(* entry: it makes no attempt while the entry is held back, counts each    *)
(* one, and parks what is unknown or has been tried Attempts times         *)
(* (queue.py:105-165, sync.py:776-950).                                    *)
THEOREM FailuresQueued == Spec => QueueKept
<1>1. IInv /\ Owing /\ Shaped /\ [Next]_vars => [Queue!QueueNext]_(Queue!queue)
  <2> SUFFICES ASSUME IInv, Shaped, [Next]_vars
               PROVE  Queue!QueueNext \/ UNCHANGED Queue!queue
    OBVIOUS
  <2>1. CASE failure' = failure
    BY <2>1 DEF Queue!queue
  <2>. QED BY <2>1, QueueSteps DEF IInv
<1>. QED BY <1>1, OwingAlways, PTL DEF Spec, QueueKept

(* The attempts of an entry that is tried again, or given up. *)
Counted == /\ failure.attempts <= Attempts
           /\ failure.hold \in {"none", "waiting", "due"} => failure.attempts < Attempts
           /\ failure.hold = "exhausted" => failure.attempts = Attempts

(* One more failure is counted, or the last is given up. *)
LEMMA FailedCounts ==
  ASSUME NEW f \in FailureOf(Stage), f.attempts < Attempts, NEW s, NEW b \in BOOLEAN,
         failure' = Failed(f, s, b)
  PROVE  Counted'
<1>1. f.attempts \in Nat
  BY DEF FailureOf
<1>2. /\ failure'.attempts = f.attempts + 1
      /\ failure'.hold = IF ~b THEN "unknown"
                         ELSE IF f.attempts + 1 >= Attempts THEN "exhausted" ELSE "waiting"
  BY DEF Failed
<1>3. CASE ~b
  BY <1>1, <1>2, <1>3, AttemptsAssumption DEF Counted
<1>4. CASE b /\ f.attempts + 1 >= Attempts
  BY <1>1, <1>2, <1>4, AttemptsAssumption DEF Counted
<1>5. CASE b /\ ~(f.attempts + 1 >= Attempts)
  BY <1>1, <1>2, <1>5, AttemptsAssumption DEF Counted
<1>. QED BY <1>3, <1>4, <1>5

(* So fields, transitions, reads and comments of an issue are together     *)
(* tried Attempts times, unless one succeeds or its outcome is unknown,    *)
(* and then the issue is parked (queue.py:105-165).                        *)
THEOREM AttemptsCounted == Spec => []Queue!AttemptsAreCounted
<1>1. Init => Counted
  <2> SUFFICES ASSUME Init PROVE Counted
    OBVIOUS
  <2>1. CASE failure = NoFailure
    BY <2>1, AttemptsAssumption DEF Counted, NoFailure
  <2>2. CASE failure = Failed(NoFailure, "transition", TRUE)
    <3>1. /\ failure.attempts = 1
          /\ failure.hold = IF 1 >= Attempts THEN "exhausted" ELSE "waiting"
      BY <2>2 DEF Failed, NoFailure
    <3>. QED BY <3>1, AttemptsAssumption DEF Counted
  <2>. QED BY <2>1, <2>2 DEF Init
<1>2. ASSUME TypeOK, Placed, Shaped, Counted, [Next]_vars PROVE Counted'
  <2>1. failure \in FailureOf(Stage) /\ (pc # "idle" => ~IsBlocked(failure))
    BY <1>2 DEF TypeOK, Stage, Placed
  <2>2. CASE failure' = failure
    BY <1>2, <2>2 DEF Counted
  <2>3. CASE failure' = NoFailure
    BY <2>3, AttemptsAssumption DEF Counted, NoFailure
  <2>4. ASSUME pc # "idle", NEW s \in Stage, NEW b \in BOOLEAN, failure' = Failed(failure, s, b)
        PROVE  Counted'
    <3>1. failure.attempts < Attempts
      BY <1>2, <2>1, <2>4 DEF Counted, IsBlocked, IsParked, FailureOf
    <3>. QED BY <2>1, <2>4, <3>1, FailedCounts
  <2>5. CASE Elapse
    <3>1. failure'.attempts = failure.attempts /\ failure.hold = "waiting"
          /\ failure'.hold = "due"
      BY <2>1, <2>5 DEF Elapse, FailureOf
    <3>. QED BY <1>2, <3>1 DEF Counted
  <2>6. CASE Release
    <3>1. failure'.attempts = 0 /\ failure'.hold = "due"
      BY <2>1, <2>6 DEF Release, Released, FailureOf
    <3>. QED BY <3>1, AttemptsAssumption DEF Counted
  <2>. QED BY <1>2, <2>2, <2>3, <2>4, <2>5, <2>6, WhatFails
<1>3. ASSUME TypeOK, Counted PROVE Queue!AttemptsAreCounted
  <2>1. failure \in FailureOf(Stage)
    BY <1>3 DEF TypeOK, Stage
  <2>2. failure.attempts = Attempts => failure.hold \in {"exhausted", "unknown"}
    BY <1>3, <2>1, AttemptsAssumption DEF Counted, FailureOf
  <2>. QED BY <1>3, <2>1, <2>2 DEF Counted, Queue!AttemptsAreCounted, Queue!Parked
<1>4. IInv => TypeOK /\ Placed
  BY DEF IInv
<1>. QED BY <1>1, <1>2, <1>3, <1>4, OwingAlways, PTL DEF Spec
-----------------------------------------------------------------------------
(* The records.  A card that was moved is where it was owed, a mark is of  *)
(* a move by hand, what is owed is the target, and the transition of an    *)
(* entry from before is owed while there is no target.                     *)
FieldsTrue == entry.pendingFields = None /\ entry.delivered # None => shown = entry.delivered

CardTrue == entry.pendingTransition = None /\ entry.target # None /\ handled = 0 =>
              board = entry.target

Aimed == /\ pc = "moved" => board = Owed \/ handled > 0
         /\ entry.suppression \/ byHand # <<>> => handled > 0
         /\ entry.pendingTransition # None => entry.pendingTransition = entry.target
         /\ entry.pendingTransition = None /\ failure.stage = "transition" =>
              entry.target = None

(* Fields are recorded after they were sent, and owed before. *)
LEMMA StepFieldsTrue ==
  ASSUME TypeOK, Placed, Owing, FieldsTrue, [Next]_vars
  PROVE  FieldsTrue'
<1>1. entry \in Entry
  BY DEF TypeOK, Entry
<1>2. CASE PutFields \/ PutFails
  <2>1. entry' = entry /\ entry.pendingFields # None
    BY <1>2 DEF PutFields, PutFails, Fails, Owing
  <2>. QED BY <2>1 DEF FieldsTrue
<1>3. CASE RecordFields
  <2>1. entry'.delivered = entry.pendingFields /\ shown' = shown /\ shown = entry.pendingFields
    BY <1>1, <1>3 DEF RecordFields, Entry, Owing, jira
  <2>. QED BY <2>1 DEF FieldsTrue
<1>4. CASE SaveFields
  <2>1. entry'.pendingFields = ResultFields(obs) /\ obs \in Observation
    BY <1>1, <1>4 DEF SaveFields, Entry, Placed
  <2>2. entry'.pendingFields # None
    BY <2>1, FieldsAssumption
  <2>. QED BY <2>2 DEF FieldsTrue
<1>5. CASE Sync \/ RecordTransition \/ Unsuppress \/ Retarget \/ RecordComment
  <2>1. entry'.pendingFields = entry.pendingFields /\ entry'.delivered = entry.delivered
    BY <1>1, <1>5 DEF Sync, Delivered, RecordTransition, Unsuppress, Retarget, RecordComment, Entry
  <2>2. shown' = shown
    BY <1>5 DEF Sync, RecordTransition, Unsuppress, Retarget, RecordComment, jira
  <2>. QED BY <2>1, <2>2 DEF FieldsTrue
<1>6. CASE UNCHANGED <<entry, shown>>
  BY <1>6 DEF FieldsTrue
<1>. QED
  BY <1>2, <1>3, <1>4, <1>5, <1>6
  DEF Next, vars, jira, PassStep, Progress, MoveByHand, Elapse, Release, Begin, RetryMove,
     Unmapped, OwesNothing, Transition, TransitionRefused, TransitionUnknown, Read, ReadFails,
     NothingNew, Comment, CommentRefused, CommentUnknown, Crash, Fails

(* A step that leaves the card, its entry and the failed stage alone. *)
LEMMA AimStays ==
  ASSUME Aimed, CardTrue, UNCHANGED <<board, people, entry>>,
         failure'.stage \in {failure.stage, "none", "fields", "read", "comment"},
         pc' = "moved" => pc = "moved" /\ failure'.stage = failure.stage
  PROVE  Aimed' /\ CardTrue'
<1>1. CardTrue'
  BY DEF CardTrue, people
<1>2. pc' = "moved" => Owed' = Owed
  BY DEF Owed
<1>. QED BY <1>1, <1>2 DEF Aimed, people

(* A card that is moved, or not, to where it is owed. *)
LEMMA AimMoves ==
  ASSUME Owing, Aimed, CardTrue, Transition \/ TransitionRefused \/ TransitionUnknown
  PROVE  Aimed' /\ CardTrue'
<1>1. pc = "move" /\ Owed # None /\ UNCHANGED <<people, entry>>
  BY DEF Transition, TransitionRefused, TransitionUnknown, Fails, Owing
<1>2. entry.pendingTransition = None => entry.target = None
  BY <1>1 DEF Owed, Aimed
<1>3. CardTrue'
  BY <1>1, <1>2 DEF CardTrue
<1>4. CASE Transition
  <2>1. pc' = "moved" /\ board' = Owed /\ Owed' = Owed
    BY <1>1, <1>4 DEF Transition, Owed
  <2>. QED BY <1>1, <1>2, <1>3, <2>1 DEF Aimed, people
<1>5. CASE TransitionRefused \/ TransitionUnknown
  <2>1. pc' = "idle"
    BY <1>5 DEF TransitionRefused, TransitionUnknown, Fails, Idle
  <2>. QED BY <1>1, <1>2, <1>3, <2>1 DEF Aimed, people
<1>. QED BY <1>4, <1>5

(* The target and what is owed for it, after any step. *)
LEMMA StepAimed ==
  ASSUME TypeOK, Placed, Owing, Aimed, CardTrue, [Next]_vars
  PROVE  Aimed' /\ CardTrue'
<1>1. entry \in Entry /\ failure \in FailureOf(Stage) /\ handled \in Nat
  BY DEF TypeOK, Entry, Stage
<1>2. NoFailure.stage = "none" /\ \A f, s, b : Failed(f, s, b).stage = s
  BY DEF NoFailure, Failed
<1>3. CASE MoveByHand
  <2>1. handled' > 0 /\ UNCHANGED <<entry, failure, pc>>
    BY <1>1, <1>3 DEF MoveByHand
  <2>. QED BY <2>1 DEF Aimed, CardTrue
<1>4. CASE Sync
  <2>1. handled > 0 /\ handled' = handled /\ UNCHANGED <<failure, pc>> /\ pc = "idle"
    BY <1>4 DEF Sync, Aimed
  <2>2. /\ entry'.pendingTransition = entry.pendingTransition
        /\ entry'.target = entry.target
    BY <1>1, <1>4 DEF Sync, Delivered, Entry
  <2>. QED BY <2>1, <2>2 DEF Aimed, CardTrue
<1>5. CASE Elapse \/ Release
  <2>1. failure'.stage = failure.stage
    BY <1>1, <1>5 DEF Elapse, Release, Released, FailureOf
  <2>. QED BY <1>5, <2>1, AimStays DEF Elapse, Release, jira
<1>6. CASE PutFails \/ ReadFails \/ CommentRefused \/ CommentUnknown
  <2>1. PICK stage \in {"fields", "read", "comment"}, b \in BOOLEAN :
          failure' = Failed(failure, stage, b)
    BY <1>6 DEF PutFails, ReadFails, CommentRefused, CommentUnknown, Fails
  <2>2. pc' = "idle" /\ UNCHANGED <<board, people, entry>>
    BY <1>6 DEF PutFails, ReadFails, CommentRefused, CommentUnknown, Fails, Idle, jira
  <2>. QED BY <1>2, <2>1, <2>2, AimStays
<1>7. CASE RecordFields \/ SaveFields
  <2>1. /\ entry'.pendingTransition = entry.pendingTransition /\ entry'.target = entry.target
        /\ entry'.suppression = entry.suppression
    BY <1>1, <1>7 DEF RecordFields, SaveFields, Entry
  <2>2. failure' \in {failure, NoFailure} /\ pc' # "moved" /\ UNCHANGED <<board, people>>
    BY <1>7 DEF RecordFields, SaveFields, jira
  <2>3. CardTrue'
    BY <2>1, <2>2 DEF CardTrue, people
  <2>. QED BY <1>2, <2>1, <2>2, <2>3 DEF Aimed, people
<1>8. CASE Transition \/ TransitionRefused \/ TransitionUnknown
  BY <1>8, AimMoves
<1>9. CASE RecordTransition
  <2>1. /\ entry'.pendingTransition = None /\ entry'.target = entry.target
        /\ entry'.suppression = entry.suppression
    BY <1>1, <1>9 DEF RecordTransition, Entry
  <2>2. /\ pc = "moved" /\ failure' = NoFailure /\ pc' \in {"read", "idle"}
        /\ UNCHANGED <<board, people>>
    BY <1>9 DEF RecordTransition, Idle, jira
  <2>3. Owed # None /\ (board = Owed \/ handled > 0)
    BY <2>2 DEF Owing, Aimed
  <2>4. entry.target # None => Owed = entry.target
    BY <2>3 DEF Owed, Aimed
  <2>5. CardTrue'
    BY <1>1, <2>1, <2>2, <2>3, <2>4 DEF CardTrue, people
  <2>. QED BY <1>2, <2>1, <2>2, <2>5 DEF Aimed, people
<1>10. CASE Unsuppress
  <2>1. handled > 0 /\ failure.stage # "transition" /\ pc' = "idle" /\ UNCHANGED <<people, failure>>
    BY <1>10 DEF Unsuppress, Compared, Idle, Owing, Aimed
  <2>2. entry'.pendingTransition = None
    BY <1>1, <1>10 DEF Unsuppress, Entry
  <2>. QED BY <2>1, <2>2 DEF Aimed, CardTrue, people
<1>11. CASE Retarget
  <2>1. /\ entry'.pendingTransition = Target(obs) /\ entry'.target = Target(obs)
        /\ entry'.suppression = entry.suppression /\ Target(obs) # None
    BY <1>1, <1>11 DEF Retarget, TargetIsNew, Entry
  <2>2. pc' = "move" /\ UNCHANGED people
    BY <1>11 DEF Retarget
  <2>. QED BY <2>1, <2>2 DEF Aimed, CardTrue, people
<1>12. CASE NothingNew
  <2>1. failure' \in {failure, NoFailure} /\ pc' = "idle" /\ UNCHANGED <<board, people, entry>>
    BY <1>12 DEF NothingNew, Idle, jira
  <2>. QED BY <1>2, <2>1, AimStays
<1>13. CASE RecordComment
  <2>1. PICK p : /\ entry' = [entry EXCEPT !.seen = obs, !.target = Target(obs),
                                   !.pendingTransition = p, !.suppression = FALSE]
                 /\ \/ p = None /\ (entry.suppression \/ Target(obs) = entry.target)
                    \/ p = Target(obs)
    BY <1>13 DEF RecordComment
  <2>2. /\ entry'.pendingTransition = p /\ entry'.target = Target(obs)
        /\ entry'.suppression = FALSE
    BY <1>1, <2>1 DEF Entry
  <2>3. /\ pc = "commented" /\ failure' = NoFailure /\ pc' \in {"move", "idle"}
        /\ UNCHANGED <<board, people>> /\ entry.pendingTransition = None
    BY <1>13 DEF RecordComment, Idle, jira, Placed
  <2>4. CardTrue'
    BY <1>1, <2>1, <2>2, <2>3 DEF CardTrue, Aimed, people
  <2>. QED BY <1>2, <2>1, <2>2, <2>3, <2>4 DEF Aimed, people
<1>14. CASE \/ Progress \/ Begin \/ PutFields \/ RetryMove \/ Unmapped \/ OwesNothing \/ Read
            \/ Comment \/ Crash \/ UNCHANGED vars
  <2>1. UNCHANGED <<board, people, entry, failure>> /\ (pc' = "moved" => pc = "moved")
    BY <1>14 DEF Progress, Begin, PutFields, RetryMove, Unmapped, OwesNothing, Read, Comment,
       Crash, Idle, vars, jira
  <2>. QED BY <2>1, AimStays
<1>. QED
  BY <1>3, <1>4, <1>5, <1>6, <1>7, <1>8, <1>9, <1>10, <1>11, <1>12, <1>13, <1>14
  DEF Next, PassStep

(* What the entry says Jira has, Jira has: the fields last delivered, and  *)
(* the place of the card until somebody moves it by hand                   *)
(* (sync.py:800-950).                                                      *)
THEOREM RecordsTrue == Spec => []RecordsAreTrue
<1>1. Init => FieldsTrue /\ Aimed /\ CardTrue
  <2> SUFFICES ASSUME Init PROVE FieldsTrue /\ Aimed /\ CardTrue
    OBVIOUS
  <2>1. pc = "idle" /\ byHand = <<>> /\ NoFailure.stage = "none"
    BY DEF Init, NoFailure
  <2>2. CASE entry = Created /\ failure = NoFailure
    BY <2>1, <2>2, FieldsAssumption DEF Created, FieldsTrue, CardTrue, Aimed
  <2>3. CASE entry = Restored \/ \E o \in Observation \union StatusOnly : entry = Inherited(o)
    <3>1. /\ entry.pendingTransition = None /\ entry.target = None /\ entry.delivered = None
          /\ entry.suppression = FALSE
      BY <2>3 DEF Created, Restored, Inherited
    <3>. QED BY <2>1, <3>1 DEF FieldsTrue, CardTrue, Aimed
  <2>. QED BY <2>2, <2>3 DEF Init
<1>2. IInv /\ Owing /\ Shaped /\ FieldsTrue /\ Aimed /\ CardTrue /\ [Next]_vars =>
        FieldsTrue' /\ Aimed' /\ CardTrue'
  BY StepFieldsTrue, StepAimed DEF IInv
<1>3. FieldsTrue /\ CardTrue => RecordsAreTrue
  BY DEF FieldsTrue, CardTrue, RecordsAreTrue
<1>. QED BY <1>1, <1>2, <1>3, OwingAlways, PTL DEF Spec
=============================================================================
