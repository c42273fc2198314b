----------------------------- MODULE IntakeProofs -----------------------------
(***************************************************************************)
(* Proofs about the intake for any set of issues, keys and contents, any   *)
(* mode, cap and number of attempts, kills and backups.                    *)
(***************************************************************************)
EXTENDS Intake, TLAPS

(* The steps at which run holds an issue it has taken from the search. *)
Taken == {"fresh", "intent", "create", "claim", "post", "result", "created",
          "record", "failed"}

WorkTaken == pc \in Taken => work \in Snapshots

ReplyGiven == pc \in {"result", "created", "record"} => reply \in {"noid", "id"}

TypeInv == TypeOK /\ WorkTaken /\ ReplyGiven

-----------------------------------------------------------------------------
(* A recorded failure is a failure of the queue. *)
LEMMA FailedType ==
  ASSUME NEW f \in Failure, NEW stage \in {"none", "create", "mirror"},
         NEW retryable \in BOOLEAN
  PROVE  Failed(f, stage, retryable) \in Failure
BY DEF Failed, Failure, FailureOf

(* The type invariant holds initially. *)
LEMMA InitTypes == Init => TypeInv
<1> SUFFICES ASSUME Init PROVE TypeInv
  OBVIOUS
<1>1. NoFailure \in Failure
  BY DEF NoFailure, Failure, FailureOf
<1>2. work \in {NoWork}
  BY DEF Init
<1>3. [entries |-> entries, intents |-> intents, queue |-> queue] \in File
  BY <1>1 DEF Init, File
<1> QED BY <1>2, <1>3 DEF Init, TypeInv, TypeOK, WorkTaken, ReplyGiven, Taken

(* What changes outside any command keeps the types. *)
LEMMA EnvironmentTypes == TypeInv /\ (Jira \/ Operator) => TypeInv'
<1> SUFFICES ASSUME TypeInv, Jira \/ Operator PROVE TypeInv'
  OBVIOUS
<1> USE DEF TypeInv, TypeOK, WorkTaken, ReplyGiven, Taken, Snapshots,
            jira, file, fireflow, pass
<1>1. ASSUME NEW i \in Issue, Edit(i) \/ Move(i) \/ ChangeStatus(i) PROVE TypeInv'
  <2>1. /\ keyOf' \in [Issue -> Key]
        /\ content' \in [Issue -> Content]
        /\ ready' \in [Issue -> BOOLEAN]
    <3>1. CASE Edit(i)
      BY <3>1 DEF Edit
    <3>2. CASE Move(i)
      BY <3>2 DEF Move
    <3>3. CASE ChangeStatus(i)
      <4>1. (~ready[i]) \in BOOLEAN
        OBVIOUS
      <4> QED BY <3>3, <4>1 DEF ChangeStatus
    <3> QED BY <1>1, <3>1, <3>2, <3>3
  <2>2. UNCHANGED <<file, receipt, approved, backup, fireflow, pc, todo, work, pass,
                    reply, left, crashes>>
    BY <1>1 DEF Edit, Move, ChangeStatus
  <2> QED BY <2>1, <2>2
<1>2. ASSUME NEW i \in Issue, Capture(i) PROVE TypeInv'
  BY <1>2 DEF Capture
<1>3. ASSUME NEW k \in Key, Release(k) PROVE TypeInv'
  <2>1. queue' \in [Key -> Failure]
    <3>1. queue \in [Key -> Failure]
      BY DEF File
    <3>2. Released(queue[k]) \in Failure
      BY <3>1 DEF Released, Failure, FailureOf
    <3> QED BY <1>3, <3>1, <3>2 DEF Release
  <2> QED BY <1>3, <2>1 DEF Release, File
<1>4. CASE TakeBackup
  BY <1>4 DEF TakeBackup
<1>5. CASE RestoreBackup
  <2>1. PICK f \in backup : /\ entries' = f.entries
                            /\ intents' = f.intents
                            /\ queue' = f.queue
    BY <1>5 DEF RestoreBackup
  <2>2. f \in File
    BY <2>1
  <2> QED BY <1>5, <2>1, <2>2 DEF RestoreBackup, File
<1> QED BY <1>1, <1>2, <1>3, <1>4, <1>5 DEF Jira, Operator

(* The steps of a poll keep the types. *)
LEMMA PollTypes == TypeInv /\ (BeginPoll \/ PollStep) => TypeInv'
<1> SUFFICES ASSUME TypeInv, BeginPoll \/ PollStep PROVE TypeInv'
  OBVIOUS
<1> USE DEF TypeInv, TypeOK, WorkTaken, ReplyGiven, Taken,
            jira, file, fireflow, pass
<1>1. \A i \in Issue : Snapshot(i) \in Snapshots
  BY DEF Snapshot, Snapshots
<1>2. pc \in Taken => Current \in Issue
  BY KeyAssumption DEF Current, Snapshots
<1>3. CASE BeginPoll
  BY <1>3, <1>1 DEF BeginPoll
<1>4. CASE SearchRest
  <2>1. known' \subseteq Issue /\ held' \subseteq Issue
    BY <1>4, KeyAssumption DEF SearchRest, KnownIssues, HeldIssues, File
  <2> QED BY <1>4, <1>1, <2>1 DEF SearchRest
<1>5. CASE SearchFails \/ ReadFails \/ EndPoll
  BY <1>5 DEF SearchFails, ReadFails, EndPoll, Idle
<1>6. ASSUME NEW s \in todo, PassOver(s) \/ Take(s) PROVE TypeInv'
  BY <1>6 DEF PassOver, Take
<1>7. CASE Accept \/ Refuse
  <2>1. pc = "fresh" => Reread \in Snapshots
    BY <1>1, <1>2 DEF Reread
  <2> QED BY <1>7, <2>1 DEF Accept, Refuse
<1>8. CASE SaveIntent
  <2>1. work.key \in Key
    BY <1>8 DEF SaveIntent, Snapshots
  <2> QED BY <1>8, <1>2, <2>1 DEF SaveIntent, File
<1>9. CASE CreateChecked \/ CreateRefused \/ ClaimRefused \/ ResultFails
  BY <1>9 DEF CreateChecked, CreateRefused, ClaimRefused, ResultFails
<1>10. CASE Claim
  <2>1. receipt' \in [Issue -> {"none", "started", "noid", "id"}]
    BY <1>10, <1>2 DEF Claim
  <2>2. pc' \in {"post", "failed"} /\ pc = "claim" /\ work' = work
    BY <1>10 DEF Claim
  <2> QED BY <1>10, <2>1, <2>2 DEF Claim
<1>11. CASE Post
  BY <1>11, <1>2 DEF Post
<1>12. CASE WriteResult
  BY <1>12, <1>2 DEF WriteResult
<1>13. CASE ClearFailure
  <2>1. queue' \in [Key -> Failure]
    BY <1>13 DEF ClearFailure, NoFailure, Failure, FailureOf, File
  <2> QED BY <1>13, <2>1 DEF ClearFailure, File
<1>14. CASE RecordEntry
  <2>1. entries' \in [Key -> {"absent", "noid", "id"}]
    BY <1>14 DEF RecordEntry, File
  <2>2. known' \subseteq Issue /\ made' \in Nat
    BY <1>14, <1>2 DEF RecordEntry
  <2> QED BY <1>14, <2>1, <2>2 DEF RecordEntry, File
<1>15. CASE RecordFailure
  <2>1. queue' \in [Key -> Failure]
    BY <1>15, FailedType DEF RecordFailure, File, SentAnything
  <2> QED BY <1>15, <2>1 DEF RecordFailure, File
<1> QED BY <1>3, <1>4, <1>5, <1>6, <1>7, <1>8, <1>9, <1>10, <1>11, <1>12, <1>13,
           <1>14, <1>15 DEF PollStep

(* So do reconciliation, the mirror, time and a kill. *)
LEMMA OtherTypes ==
  /\ TypeInv
  /\ \/ BeginReconcile \/ ReconcileStep \/ Crash
     \/ \E k \in Key : Elapse(k) \/ MirrorKey(k)
  => TypeInv'
<1> USE DEF TypeInv, TypeOK, WorkTaken, ReplyGiven, Taken,
            jira, file, fireflow, pass
<1>1. ASSUME TypeInv, BeginReconcile PROVE TypeInv'
  BY <1>1 DEF BeginReconcile, LocalKeys, File
<1>2. ASSUME TypeInv, EndReconcile \/ Crash PROVE TypeInv'
  BY <1>2 DEF EndReconcile, Crash, Idle
<1>3. ASSUME TypeInv, NEW k \in left, ReconcileKey(k) PROVE TypeInv'
  <2>1. queue[k] \in Failure /\ NoFailure \in Failure
    BY <1>3 DEF File, NoFailure, Failure, FailureOf
  <2>2. Failed(queue[k], "create", FALSE) \in Failure
    BY <2>1, FailedType
  <2>3. queue' \in [Key -> Failure]
    BY <1>3, <2>1, <2>2 DEF ReconcileKey, File
  <2>4. entries' \in [Key -> {"absent", "noid", "id"}]
    BY <1>3 DEF ReconcileKey, File
  <2> QED BY <1>3, <2>3, <2>4 DEF ReconcileKey, File
<1>4. ASSUME TypeInv, NEW k \in Key, Elapse(k) PROVE TypeInv'
  <2>1. queue' \in [Key -> Failure]
    <3>1. queue \in [Key -> Failure]
      BY <1>4 DEF File
    <3>2. queue' = [queue EXCEPT ![k] = [queue[k] EXCEPT !.hold = "due"]]
      BY <1>4 DEF Elapse
    <3>3. [queue[k] EXCEPT !.hold = "due"] \in Failure
      BY <3>1 DEF Failure, FailureOf
    <3> QED BY <3>1, <3>2, <3>3
  <2> QED BY <1>4, <2>1 DEF Elapse, File
<1>5. ASSUME TypeInv, NEW k \in Key, MirrorKey(k) PROVE TypeInv'
  <2>1. /\ NoFailure \in Failure
        /\ Failed(queue[k], "mirror", TRUE) \in Failure
        /\ Failed(queue[k], "mirror", FALSE) \in Failure
    BY <1>5, FailedType DEF NoFailure, Failure, FailureOf, File
  <2>2. queue' \in [Key -> Failure]
    <3>1. queue \in [Key -> Failure]
      BY <1>5 DEF File
    <3> QED BY <1>5, <2>1, <3>1 DEF MirrorKey
  <2> QED BY <1>5, <2>2 DEF MirrorKey, File
<1> QED BY <1>1, <1>2, <1>3, <1>4, <1>5 DEF ReconcileStep

(* The type invariant of the intake, with what holds of the issue taken    *)
(* from a search and of the answer to its create.                          *)
LEMMA Types == Spec => []TypeInv
<1>1. TypeInv /\ [Next]_vars => TypeInv'
  <2>1. ASSUME TypeInv, UNCHANGED vars PROVE TypeInv'
    BY <2>1 DEF vars, jira, file, fireflow, pass, TypeInv, TypeOK, WorkTaken, ReplyGiven
  <2> QED BY <2>1, EnvironmentTypes, PollTypes, OtherTypes DEF Next
<1> QED BY <1>1, InitTypes, PTL DEF Spec

(* Every variable of the intake keeps its shape. *)
THEOREM TypeCorrect == Spec => []TypeOK
BY Types, PTL DEF TypeInv

-----------------------------------------------------------------------------
(* The inductive invariant.  A create is counted once and has a receipt;   *)
(* a finished receipt stands for exactly one request; a step about to send *)
(* or to record has the receipt that entitles it to.                       *)
SendsCounted == \A i \in Issue : /\ sends[i] <= 1
                                 /\ tickets[i] <= sends[i]
                                 /\ sends[i] = 1 => SentAnything(i)

AnswersCounted == \A i \in Issue : receipt[i] \in {"noid", "id"}
                                     => sends[i] = 1 /\ tickets[i] = 1

Sending == pc = "post" => receipt[Current] = "started" /\ sends[Current] = 0

Answered == pc = "result" => /\ receipt[Current] = "started"
                             /\ sends[Current] = 1
                             /\ tickets[Current] = 1

Confirmed == pc \in {"created", "record"} => receipt[Current] = reply

IdsHeld == /\ \A k \in Key : entries[k] = "id" => receipt[Owner[k]] = "id"
           /\ \A f \in backup : \A k \in Key :
                f.entries[k] = "id" => receipt[Owner[k]] = "id"

Counted == SendsCounted /\ AnswersCounted /\ Sending /\ Answered /\ Confirmed

(* Where a step leaves receipts and FireFlow alone and does not move the   *)
(* command into one of the three critical places, the counts stand.        *)
Critical == {"post", "result", "created", "record"}

Still == /\ UNCHANGED <<receipt, sends, tickets>>
         /\ pc' \notin Critical \/ UNCHANGED <<pc, work, reply>>

LEMMA StillCounted == Counted /\ Still => Counted'
BY DEF Counted, Still, Critical, SendsCounted, AnswersCounted, Sending, Answered,
       Confirmed, SentAnything, Current

(* All steps but the claim, the send, the result and the clearing are so.  *)
LEMMA MostStepsAreStill ==
  [Next]_vars => Still \/ Claim \/ Post \/ WriteResult \/ ClearFailure
<1> USE DEF Still, Critical, jira, file, fireflow, pass
<1>1. Jira \/ Operator => Still
  BY DEF Jira, Operator, Edit, Move, ChangeStatus, Capture, Release, TakeBackup,
         RestoreBackup
<1>2. BeginPoll \/ SearchRest \/ SearchFails \/ ReadFails \/ EndPoll => Still
  BY DEF BeginPoll, SearchRest, SearchFails, ReadFails, EndPoll, Idle
<1>3. \A s \in todo : PassOver(s) \/ Take(s) => Still
  BY DEF PassOver, Take
<1>4. Accept \/ Refuse \/ SaveIntent \/ CreateChecked \/ CreateRefused => Still
  BY DEF Accept, Refuse, SaveIntent, CreateChecked, CreateRefused
<1>5. ClaimRefused \/ ResultFails \/ RecordEntry \/ RecordFailure => Still
  BY DEF ClaimRefused, ResultFails, RecordEntry, RecordFailure
<1>6. BeginReconcile \/ EndReconcile \/ Crash => Still
  BY DEF BeginReconcile, EndReconcile, Crash, Idle
<1>7. \A k \in left : ReconcileKey(k) => Still
  BY DEF ReconcileKey
<1>8. \A k \in Key : Elapse(k) \/ MirrorKey(k) => Still
  BY DEF Elapse, MirrorKey
<1>9. UNCHANGED vars => Still
  BY DEF vars
<1> QED BY <1>1, <1>2, <1>3, <1>4, <1>5, <1>6, <1>7, <1>8, <1>9
        DEF Next, PollStep, ReconcileStep

(* Every step keeps the counts. *)
LEMMA StepKeepsCounted == TypeInv /\ Counted /\ [Next]_vars => Counted'
<1> SUFFICES ASSUME TypeInv, Counted, [Next]_vars PROVE Counted'
  OBVIOUS
<1>1. pc \in Taken => Current \in Issue
  BY KeyAssumption DEF TypeInv, WorkTaken, Current, Snapshots
<1> USE DEF Counted, SendsCounted, AnswersCounted, Sending, Answered, Confirmed,
            SentAnything, TypeInv, TypeOK, Taken, jira, file, fireflow, pass
<1>2. CASE Still
  BY <1>2, StillCounted
<1>3. CASE Claim
  <2>1. /\ Current' = Current /\ Current \in Issue /\ receipt[Current] = "none"
        /\ receipt' = [receipt EXCEPT ![Current] = "started"]
        /\ UNCHANGED <<sends, tickets>>
        /\ pc' \in {"post", "failed"}
    BY <1>3, <1>1 DEF Claim, Current
  <2>2. sends[Current] = 0
    BY <2>1
  <2> QED BY <2>1, <2>2
<1>4. CASE Post
  <2>1. /\ Current' = Current /\ Current \in Issue /\ receipt[Current] = "started"
        /\ sends[Current] = 0
        /\ sends' = [sends EXCEPT ![Current] = @ + 1]
        /\ UNCHANGED receipt
    BY <1>4, <1>1 DEF Post, Current
  <2>2. \/ tickets' = [tickets EXCEPT ![Current] = @ + 1] /\ pc' \in {"result", "failed"}
        \/ UNCHANGED tickets /\ pc' = "failed"
    BY <1>4 DEF Post
  <2>3. tickets[Current] = 0
    BY <2>1
  <2> QED BY <2>1, <2>2, <2>3
<1>5. CASE WriteResult
  <2>1. /\ Current' = Current /\ Current \in Issue /\ reply' = reply
        /\ receipt' = [receipt EXCEPT ![Current] = reply]
        /\ UNCHANGED <<sends, tickets>>
        /\ sends[Current] = 1 /\ tickets[Current] = 1
        /\ pc' \in {"created", "failed"}
        /\ reply \in {"noid", "id"}
    BY <1>5, <1>1 DEF WriteResult, Current, ReplyGiven
  <2> QED BY <2>1
<1>6. CASE ClearFailure
  BY <1>6 DEF ClearFailure, Current
<1> QED BY <1>2, <1>3, <1>4, <1>5, <1>6, MostStepsAreStill

(* The counts hold of every behaviour. *)
LEMMA CountedAlways == Spec => []Counted
<1>1. Init => Counted
  BY DEF Init, Counted, SendsCounted, AnswersCounted, Sending, Answered, Confirmed,
         SentAnything
<1> QED BY <1>1, Types, StepKeepsCounted, PTL DEF Spec

(* At most one create is ever sent for an issue. *)
THEOREM AtMostOnce == Spec => []AtMostOneSend
<1>1. Counted => AtMostOneSend
  BY DEF Counted, SendsCounted, AtMostOneSend
<1> QED BY <1>1, CountedAlways, PTL

-----------------------------------------------------------------------------
(* A receipt that names a request is never changed again. *)
LEMMA ReceiptsStand ==
  TypeInv /\ Counted /\ [Next]_vars =>
    \A i \in Issue : receipt[i] = "id" => receipt'[i] = "id"
<1> SUFFICES ASSUME TypeInv, Counted, [Next]_vars,
                    NEW i \in Issue, receipt[i] = "id"
             PROVE  receipt'[i] = "id"
  OBVIOUS
<1>1. CASE Still \/ Post \/ ClearFailure
  BY <1>1 DEF Still, Post, ClearFailure
<1>2. CASE Claim
  BY <1>2 DEF Claim, SentAnything, TypeInv, TypeOK
<1>3. CASE WriteResult
  BY <1>3 DEF WriteResult, TypeInv, TypeOK, Counted, Answered
<1> QED BY <1>1, <1>2, <1>3, MostStepsAreStill

(* An id in an entry, or in a backup's, is the receipt's. *)
LEMMA StepKeepsIdsHeld ==
  TypeInv /\ Counted /\ IdsHeld /\ [Next]_vars => IdsHeld'
<1> SUFFICES ASSUME TypeInv, Counted, IdsHeld, [Next]_vars PROVE IdsHeld'
  OBVIOUS
<1>1. \A k \in Key : receipt[Owner[k]] = "id" => receipt'[Owner[k]] = "id"
  BY ReceiptsStand, KeyAssumption
<1>2. ASSUME \A k \in Key : entries'[k] = "id" =>
                entries[k] = "id" \/ receipt[Owner[k]] = "id",
             backup' = backup
      PROVE  IdsHeld'
  BY <1>1, <1>2 DEF IdsHeld
<1> USE DEF jira, file, fireflow, pass
<1>3. ASSUME UNCHANGED <<entries, backup>> PROVE IdsHeld'
  BY <1>2, <1>3
<1>4. CASE Jira \/ \E k \in Key : Elapse(k) \/ MirrorKey(k)
  BY <1>3, <1>4 DEF Jira, Edit, Move, ChangeStatus, Elapse, MirrorKey
<1>5. ASSUME (\E i \in Issue : Capture(i)) \/ (\E k \in Key : Release(k))
      PROVE  IdsHeld'
  BY <1>3, <1>5 DEF Capture, Release
<1>6. CASE TakeBackup
  BY <1>6, <1>1 DEF TakeBackup, IdsHeld
<1>7. CASE RestoreBackup
  BY <1>7, <1>1 DEF RestoreBackup, IdsHeld
<1>8. CASE RecordEntry
  <2>1. work.key \in Key /\ receipt[Owner[work.key]] = reply
    BY <1>8 DEF RecordEntry, TypeInv, WorkTaken, Taken, Snapshots, Counted, Confirmed,
                Current
  <2>2. \A k \in Key : entries'[k] = "id" => entries[k] = "id" \/ receipt[Owner[k]] = "id"
    BY <1>8, <2>1 DEF RecordEntry, TypeInv, TypeOK, File
  <2> QED BY <1>8, <1>2, <2>2 DEF RecordEntry
<1>9. ASSUME NEW k \in left, ReconcileKey(k) PROVE IdsHeld'
  <2>1. \A x \in Key : entries'[x] = "id" => entries[x] = "id" \/ receipt[Owner[x]] = "id"
    BY <1>9 DEF ReconcileKey, ReceiptOf, TypeInv, TypeOK, File
  <2> QED BY <1>9, <1>2, <2>1 DEF ReconcileKey
<1>10. CASE BeginPoll \/ SearchRest \/ SearchFails \/ ReadFails \/ EndPoll
  BY <1>10, <1>3 DEF BeginPoll, SearchRest, SearchFails, ReadFails, EndPoll
<1>11. ASSUME NEW s \in todo, PassOver(s) \/ Take(s) PROVE IdsHeld'
  BY <1>11, <1>3 DEF PassOver, Take
<1>12. CASE Accept \/ Refuse \/ SaveIntent \/ CreateChecked \/ CreateRefused
  BY <1>12, <1>3 DEF Accept, Refuse, SaveIntent, CreateChecked, CreateRefused
<1>13. CASE ClaimRefused \/ Claim \/ Post \/ WriteResult \/ ResultFails
  BY <1>13, <1>3 DEF ClaimRefused, Claim, Post, WriteResult, ResultFails
<1>14. CASE ClearFailure \/ RecordFailure
  BY <1>14, <1>3 DEF ClearFailure, RecordFailure
<1>15. CASE BeginReconcile \/ EndReconcile \/ Crash
  BY <1>15, <1>3 DEF BeginReconcile, EndReconcile, Crash
<1>16. CASE UNCHANGED vars
  BY <1>16, <1>3 DEF vars
<1> QED BY <1>4, <1>5, <1>6, <1>7, <1>8, <1>9, <1>10, <1>11, <1>12, <1>13, <1>14,
           <1>15, <1>16 DEF Next, Operator, PollStep, ReconcileStep

(* An entry's id is always that of the one request FireFlow made. *)
THEOREM EntriesAreReal == Spec => []EntryHasRequest
<1>1. Init => IdsHeld
  BY KeyAssumption DEF Init, IdsHeld
<1>2. Spec => []IdsHeld
  BY <1>1, Types, CountedAlways, StepKeepsIdsHeld, PTL DEF Spec
<1>3. Counted /\ IdsHeld => EntryHasRequest
  BY KeyAssumption DEF Counted, AnswersCounted, IdsHeld, EntryHasRequest
<1> QED BY <1>2, <1>3, CountedAlways, PTL

-----------------------------------------------------------------------------
(* The intake implements Submission. *)
THEOREM Refinement == Spec => SubmissionSpec
<1>1. Init => Abstract!Init
  BY DEF Init, Abstract!Init, Phase
<1>2. TypeInv /\ Counted /\ [Next]_vars => [Abstract!Next]_<<Phase, sends>>
  <2> SUFFICES ASSUME TypeInv, Counted, [Next]_vars
               PROVE  Abstract!Next \/ UNCHANGED <<Phase, sends>>
    OBVIOUS
  <2>1. pc \in Taken => Current \in Issue
    BY KeyAssumption DEF TypeInv, WorkTaken, Current, Snapshots
  <2> USE DEF TypeInv, TypeOK, Taken, fireflow
  <2>2. CASE Still \/ ClearFailure
    BY <2>2 DEF Still, ClearFailure, Phase
  <2>3. CASE Claim
    <3>1. Abstract!Begin(Current)
      BY <2>3, <2>1 DEF Claim, SentAnything, Phase, Abstract!Begin
    <3> QED BY <2>3, <2>1, <3>1 DEF Claim, Abstract!Next
  <2>4. CASE Post
    <3>1. Abstract!Send(Current)
      BY <2>4, <2>1 DEF Post, Phase, Abstract!Send, Counted, Sending
    <3> QED BY <2>4, <2>1, <3>1 DEF Post, Abstract!Next
  <2>5. CASE WriteResult
    <3>1. Abstract!Finish(Current)
      BY <2>5, <2>1 DEF WriteResult, Phase, Abstract!Finish, Counted, Answered, ReplyGiven
    <3> QED BY <2>5, <2>1, <3>1 DEF WriteResult, Abstract!Next
  <2> QED BY <2>2, <2>3, <2>4, <2>5, MostStepsAreStill
<1> QED BY <1>1, <1>2, Types, CountedAlways, PTL
        DEF Spec, SubmissionSpec, Abstract!Spec, Abstract!vars

-----------------------------------------------------------------------------
(* Until the send, what run holds is what the administrator captured:      *)
(* captures happen only while no command runs.                             *)
HoldsApproved ==
  Mode = "approval" /\ pc \in {"intent", "create", "claim", "post"}
    => work.content = approved[Current]

(* A moved issue keeps to its own keys. *)
KeysOwned == \A i \in Issue : keyOf[i] \in Key /\ Owner[keyOf[i]] = i

LEMMA KeysOwnedAlways == Spec => []KeysOwned
<1>1. Init => KeysOwned
  BY DEF Init, KeysOwned
<1>2. TypeInv /\ KeysOwned /\ [Next]_vars => KeysOwned'
  <2> SUFFICES ASSUME TypeInv, KeysOwned, [Next]_vars PROVE KeysOwned'
    OBVIOUS
  <2> USE DEF KeysOwned, jira
  <2>1. ASSUME UNCHANGED keyOf PROVE KeysOwned'
    BY <2>1
  <2>2. ASSUME NEW i \in Issue, Edit(i) \/ ChangeStatus(i) PROVE KeysOwned'
    BY <2>1, <2>2 DEF Edit, ChangeStatus
  <2>3. ASSUME NEW i \in Issue, Move(i) PROVE KeysOwned'
    BY <2>3 DEF Move, TypeInv, TypeOK
  <2>4. CASE Operator
    BY <2>1, <2>4 DEF Operator, Capture, Release, TakeBackup, RestoreBackup
  <2>5. CASE \/ BeginPoll \/ SearchRest \/ SearchFails \/ ReadFails \/ EndPoll
             \/ \E s \in todo : PassOver(s) \/ Take(s)
    BY <2>1, <2>5 DEF BeginPoll, SearchRest, SearchFails, ReadFails, EndPoll, PassOver, Take
  <2>6. CASE Accept \/ Refuse \/ SaveIntent \/ CreateChecked \/ CreateRefused
    BY <2>1, <2>6 DEF Accept, Refuse, SaveIntent, CreateChecked, CreateRefused
  <2>7. CASE ClaimRefused \/ Claim \/ Post \/ WriteResult \/ ResultFails
    BY <2>1, <2>7 DEF ClaimRefused, Claim, Post, WriteResult, ResultFails
  <2>8. CASE ClearFailure \/ RecordEntry \/ RecordFailure
    BY <2>1, <2>8 DEF ClearFailure, RecordEntry, RecordFailure
  <2>9. CASE BeginReconcile \/ ReconcileStep \/ Crash
    BY <2>1, <2>9 DEF BeginReconcile, ReconcileStep, EndReconcile, ReconcileKey, Crash
  <2>10. CASE UNCHANGED vars \/ \E k \in Key : Elapse(k) \/ MirrorKey(k)
    BY <2>1, <2>10 DEF vars, Elapse, MirrorKey
  <2> QED BY <2>2, <2>3, <2>4, <2>5, <2>6, <2>7, <2>8, <2>9, <2>10
          DEF Next, Jira, PollStep
<1> QED BY <1>1, <1>2, Types, PTL DEF Spec

LEMMA StepKeepsHoldsApproved ==
  TypeInv /\ KeysOwned /\ HoldsApproved /\ [Next]_vars => HoldsApproved'
<1> SUFFICES ASSUME TypeInv, KeysOwned, HoldsApproved, [Next]_vars PROVE HoldsApproved'
  OBVIOUS
<1> USE DEF HoldsApproved, jira, file, fireflow, pass
<1>1. ASSUME UNCHANGED <<approved, work>>,
             \/ pc' = pc
             \/ pc' = "create" /\ pc = "intent"
             \/ pc' = "claim" /\ pc = "create"
             \/ pc' = "post" /\ pc = "claim"
             \/ pc' \notin {"intent", "create", "claim", "post"}
      PROVE  HoldsApproved'
  BY <1>1 DEF Current
<1>2. CASE Jira \/ \E k \in Key : Elapse(k) \/ MirrorKey(k)
  BY <1>1, <1>2 DEF Jira, Edit, Move, ChangeStatus, Elapse, MirrorKey
<1>3. CASE Operator
  BY <1>1, <1>3 DEF Operator, Capture, Release, TakeBackup, RestoreBackup
<1>4. ASSUME pc' \notin {"intent", "create", "claim", "post"} PROVE HoldsApproved'
  BY <1>4
<1>5. CASE \/ BeginPoll \/ SearchRest \/ SearchFails \/ ReadFails \/ EndPoll \/ Refuse
           \/ \E s \in todo : PassOver(s) \/ Take(s)
  BY <1>5, <1>4 DEF BeginPoll, SearchRest, SearchFails, ReadFails, EndPoll, Refuse,
                    PassOver, Take, Idle
<1>6. CASE Accept
  <2>1. Current \in Issue
    BY <1>6, KeyAssumption DEF Accept, TypeInv, WorkTaken, Taken, Current, Snapshots
  <2>2. Mode = "approval" => Current' = Current
    BY <1>6, <2>1 DEF Accept, Reread, Snapshot, Current, KeysOwned
  <2> QED BY <1>6, <2>2 DEF Accept, Acceptable, Reread, Snapshot
<1>7. CASE SaveIntent \/ CreateChecked \/ CreateRefused \/ ClaimRefused \/ Claim
  BY <1>7, <1>1 DEF SaveIntent, CreateChecked, CreateRefused, ClaimRefused, Claim
<1>8. CASE \/ Post \/ WriteResult \/ ResultFails \/ ClearFailure \/ RecordEntry
           \/ RecordFailure
  BY <1>8, <1>4 DEF Post, WriteResult, ResultFails, ClearFailure, RecordEntry,
                    RecordFailure
<1>9. CASE BeginReconcile \/ ReconcileStep \/ Crash
  BY <1>9, <1>4 DEF BeginReconcile, ReconcileStep, EndReconcile, ReconcileKey, Crash, Idle
<1>10. CASE UNCHANGED vars
  BY <1>10, <1>1 DEF vars
<1> QED BY <1>2, <1>3, <1>5, <1>6, <1>7, <1>8, <1>9, <1>10 DEF Next, PollStep

(* What is sent in approval mode is what the administrator captured,       *)
(* whatever people do to the issue meanwhile.                              *)
THEOREM SendsAreApproved == Spec => SentAsApproved
<1>1. Init => HoldsApproved
  BY DEF Init, HoldsApproved
<1>2. /\ TypeInv /\ HoldsApproved /\ [Next]_vars
      => [Mode = "approval" =>
            \A i \in Issue : sends'[i] > sends[i] => work.content = approved[i]]_vars
  <2> SUFFICES ASSUME TypeInv, HoldsApproved, [Next]_vars, Mode = "approval",
                      NEW i \in Issue, sends'[i] > sends[i]
               PROVE  work.content = approved[i]
    OBVIOUS
  <2>1. Post
    BY MostStepsAreStill DEF Still, Claim, WriteResult, ClearFailure, TypeInv, TypeOK,
       fireflow
  <2>2. i = Current
    BY <2>1 DEF Post, TypeInv, TypeOK
  <2> QED BY <2>1, <2>2 DEF Post, HoldsApproved
<1> QED BY <1>1, <1>2, Types, KeysOwnedAlways, StepKeepsHoldsApproved, PTL
        DEF Spec, SentAsApproved

-----------------------------------------------------------------------------
(* The key being created has its intent saved before the receipt exists.   *)
OnRecord == /\ backup = {}
            /\ pc \in {"create", "claim"} \union Critical => work.key \in intents
            /\ BegunIsOnRecord

LEMMA StepKeepsOnRecord ==
  ASSUME Restores = FALSE
  PROVE  TypeInv /\ Counted /\ OnRecord /\ [Next]_vars => OnRecord'
<1> SUFFICES ASSUME TypeInv, Counted, OnRecord, [Next]_vars PROVE OnRecord'
  OBVIOUS
<1> USE DEF Critical, jira, file, fireflow, pass
<1>1. backup = {} /\ (pc \in {"create", "claim"} \union Critical => work.key \in intents)
  BY DEF OnRecord
<1>2. \A i \in Issue : receipt[i] # "none" => \E k \in intents : Owner[k] = i
  BY DEF OnRecord, BegunIsOnRecord, SentAnything
<1>3. ASSUME UNCHANGED <<receipt, intents, backup>>,
             \/ UNCHANGED <<pc, work>>
             \/ UNCHANGED work /\ pc \in {"create", "claim"} \union Critical
             \/ pc' \notin {"create", "claim"} \union Critical
      PROVE  OnRecord'
  BY <1>1, <1>2, <1>3 DEF OnRecord, BegunIsOnRecord, SentAnything
<1>4. CASE Jira \/ \E k \in Key : Elapse(k) \/ MirrorKey(k)
  BY <1>3, <1>4 DEF Jira, Edit, Move, ChangeStatus, Elapse, MirrorKey
<1>5. CASE Operator
  BY <1>1, <1>3, <1>5 DEF Operator, Capture, Release, TakeBackup, RestoreBackup
<1>6. CASE \/ BeginPoll \/ SearchRest \/ SearchFails \/ ReadFails \/ EndPoll \/ Accept
           \/ Refuse \/ \E s \in todo : PassOver(s) \/ Take(s)
  BY <1>3, <1>6 DEF BeginPoll, SearchRest, SearchFails, ReadFails, EndPoll, Accept, Refuse,
                    PassOver, Take, Idle
<1>7. CASE SaveIntent
  BY <1>1, <1>2, <1>7 DEF SaveIntent, OnRecord, BegunIsOnRecord, SentAnything
<1>8. CASE CreateChecked \/ CreateRefused \/ ClaimRefused \/ Post \/ ResultFails
  BY <1>3, <1>8 DEF CreateChecked, CreateRefused, ClaimRefused, Post, ResultFails
<1>9. CASE ClearFailure \/ RecordEntry \/ RecordFailure
  BY <1>3, <1>9 DEF ClearFailure, RecordEntry, RecordFailure
<1>10. CASE BeginReconcile \/ ReconcileStep \/ Crash
  BY <1>3, <1>10 DEF BeginReconcile, ReconcileStep, EndReconcile, ReconcileKey, Crash, Idle
<1>11. CASE Claim \/ WriteResult
  <2>1. /\ work' = work /\ intents' = intents /\ backup' = backup /\ work.key \in intents
        /\ \A i \in Issue : receipt'[i] # "none" => receipt[i] # "none" \/ i = Owner[work.key]
    BY <1>1, <1>11 DEF Claim, WriteResult, Current, TypeInv, TypeOK
  <2> QED BY <1>2, <2>1 DEF OnRecord, BegunIsOnRecord, SentAnything
<1>12. CASE UNCHANGED vars
  BY <1>3, <1>12 DEF vars
<1> QED BY <1>4, <1>5, <1>6, <1>7, <1>8, <1>9, <1>10, <1>11, <1>12 DEF Next, PollStep

(* Where no backup is restored, no change that may have reached FireFlow   *)
(* is forgotten: an intent leads to its receipt.                           *)
THEOREM NothingForgotten ==
  ASSUME Restores = FALSE
  PROVE  Spec => []BegunIsOnRecord
<1>1. Init => OnRecord
  BY DEF Init, OnRecord, Critical, BegunIsOnRecord, SentAnything
<1>2. TypeInv /\ Counted /\ OnRecord /\ [Next]_vars => OnRecord'
  BY StepKeepsOnRecord
<1>3. OnRecord => BegunIsOnRecord
  BY DEF OnRecord
<1> QED BY <1>1, <1>2, <1>3, Types, CountedAlways, PTL DEF Spec
-----------------------------------------------------------------------------
(* What a pass knows: which issues have entries, which are held, that the  *)
(* issue it has taken is neither; and, from the intent on, that it is held *)
(* and has no unknown outcome in the queue.                                *)
Begun == Taken \ {"fresh", "intent"}
Passing == Taken \union {"poll"}

UnknownCreate(k) == queue[k].stage = "create" /\ queue[k].hold = "unknown"

Knows == pc \in Passing =>
           /\ \A k \in Key : entries[k] # "absent" => Owner[k] \in known
           /\ \A k \in intents : Blocked(k) => Owner[k] \in held

TakenNew == /\ pc \in Taken => Current \notin known
            /\ pc \in {"fresh", "intent"} => Current \notin held
            /\ pc \in Begun => /\ Current \in held
                               /\ work.key \in intents
                               /\ ~UnknownCreate(work.key)

(* What the state file says is what was done: an entry has its answer, a   *)
(* failed create its intent.                                               *)
Grounded == /\ backup = {}
            /\ \A k \in Key : entries[k] # "absent" => receipt[Owner[k]] \in {"noid", "id"}
            /\ \A k \in Key : queue[k].stage = "create" => k \in intents

(* A key that reconciliation is done with is settled. *)
Settled(k) == CASE ReceiptOf(k) = "started" -> Parked(k)
                [] ReceiptOf(k) = "noid" -> entries[k] # "absent"
                [] ReceiptOf(k) = "id" -> entries[k] = "id" /\ queue[k].stage # "create"
                [] OTHER -> TRUE

DoneSettled == pc = "reconcile" => \A k \in intents \ left : Settled(k)

PassInv == Knows /\ TakenNew /\ Grounded /\ DoneSettled

Base == TypeInv /\ Counted /\ IdsHeld /\ KeysOwned

(* The owner of what is taken. *)
LEMMA TakenOwner ==
  ASSUME TypeInv, pc \in Taken
  PROVE  work.key \in Key /\ Current \in Issue /\ Current = Owner[work.key]
BY KeyAssumption DEF TypeInv, WorkTaken, Current, Snapshots

(* Steps that leave the state file and the receipts alone. *)
Same == UNCHANGED <<entries, intents, queue, receipt, backup>>

LEMMA SameKeeps ==
  ASSUME PassInv, Same,
         \/ UNCHANGED <<pc, work, known, held, left>>
         \/ pc' \notin Passing \union {"reconcile"}
         \/ pc' = "poll" /\ pc \in Passing /\ UNCHANGED <<known, held>>
         \/ pc' \in Begun /\ pc \in Begun /\ UNCHANGED <<known, held, work>>
  PROVE  PassInv'
<1> USE DEF Same
<1>1. Grounded'
  BY DEF PassInv, Grounded
<1>2. CASE UNCHANGED <<pc, work, known, held, left>>
  BY <1>1, <1>2 DEF PassInv, Knows, TakenNew, DoneSettled, Settled, Blocked, Parked, Current,
                    ReceiptOf, UnknownCreate
<1>3. CASE pc' \notin Passing \union {"reconcile"}
  BY <1>1, <1>3 DEF PassInv, Knows, TakenNew, DoneSettled, Passing, Begun, Taken
<1>4. CASE pc' = "poll" /\ pc \in Passing /\ UNCHANGED <<known, held>>
  <2>1. Knows'
    BY <1>4 DEF PassInv, Knows, Blocked
  <2>. QED BY <1>1, <1>4, <2>1 DEF PassInv, TakenNew, DoneSettled, Begun, Taken
<1>5. CASE pc' \in Begun /\ pc \in Begun /\ UNCHANGED <<known, held, work>>
  <2>1. pc \in Passing /\ pc \in Taken /\ pc' \notin {"fresh", "intent", "reconcile"}
    BY <1>5 DEF Passing, Begun, Taken
  <2>2. Knows'
    BY <1>5, <2>1 DEF PassInv, Knows, Blocked
  <2>3. TakenNew'
    BY <1>5, <2>1 DEF PassInv, TakenNew, Current, UnknownCreate
  <2>. QED BY <1>1, <2>1, <2>2, <2>3 DEF PassInv, DoneSettled
<1>. QED BY <1>2, <1>3, <1>4, <1>5

(* So do people, and most steps of a command. *)
LEMMA QuietSteps ==
  ASSUME Restores = FALSE, TypeInv, PassInv,
         \/ UNCHANGED vars \/ Jira \/ Crash \/ BeginPoll \/ TakeBackup \/ RestoreBackup
         \/ \E i \in Issue : Capture(i)
         \/ SearchFails \/ ReadFails \/ EndPoll \/ EndReconcile \/ Refuse
         \/ \E s \in todo : PassOver(s)
         \/ CreateChecked \/ CreateRefused \/ ClaimRefused \/ Post \/ ResultFails
  PROVE  PassInv'
<1> USE DEF jira, file, fireflow, pass
<1>1. CASE UNCHANGED vars
  BY <1>1, SameKeeps DEF vars, Same
<1>2. CASE Jira \/ \E i \in Issue : Capture(i)
  BY <1>2, SameKeeps DEF Jira, Edit, Move, ChangeStatus, Capture, Same
<1>3. CASE Crash \/ SearchFails \/ ReadFails \/ EndPoll \/ EndReconcile
  <2>1. Same /\ pc' = "idle"
    BY <1>3 DEF Crash, SearchFails, ReadFails, EndPoll, EndReconcile, Same, Idle
  <2>2. pc' \notin Passing \union {"reconcile"}
    BY <2>1 DEF Passing, Taken
  <2>. QED BY <2>1, <2>2, SameKeeps
<1>4. CASE BeginPoll
  <2>1. Same /\ pc' = "search"
    BY <1>4 DEF BeginPoll, Same
  <2>2. pc' \notin Passing \union {"reconcile"}
    BY <2>1 DEF Passing, Taken
  <2>. QED BY <2>1, <2>2, SameKeeps
<1>5. CASE TakeBackup \/ RestoreBackup
  <2>1. backup = {}
    BY DEF PassInv, Grounded
  <2>. QED BY <1>5, <2>1 DEF TakeBackup, RestoreBackup
<1>6. CASE Refuse
  <2>1. Same /\ pc' = "poll" /\ pc \in Passing /\ UNCHANGED <<known, held>>
    BY <1>6 DEF Refuse, Same, Passing, Taken
  <2>. QED BY <2>1, SameKeeps
<1>7. CASE \E s \in todo : PassOver(s)
  BY <1>7, SameKeeps DEF PassOver, Same
<1>8. CASE CreateChecked \/ CreateRefused \/ ClaimRefused \/ Post \/ ResultFails
  <2>1. Same /\ pc' \in Begun /\ pc \in Begun /\ UNCHANGED <<known, held, work>>
    BY <1>8 DEF CreateChecked, CreateRefused, ClaimRefused, Post, ResultFails, Same, Begun, Taken
  <2>. QED BY <2>1, SameKeeps
<1>. QED BY <1>1, <1>2, <1>3, <1>4, <1>5, <1>6, <1>7, <1>8

(* The search, and what a pass takes from it. *)
LEMMA SearchSteps ==
  ASSUME Base, PassInv, SearchRest \/ \E s \in todo : Take(s)
  PROVE  PassInv'
<1> USE DEF jira, file, fireflow, pass
<1>1. CASE SearchRest
  <2>1. Same /\ pc' = "poll" /\ known' = KnownIssues /\ held' = HeldIssues
    BY <1>1 DEF SearchRest, Same
  <2>2. intents \subseteq Key
    BY DEF Base, TypeInv, TypeOK, File
  <2>3. Knows'
    BY <2>1, <2>2 DEF Knows, Same, KnownIssues, HeldIssues, Blocked
  <2>4. Grounded'
    BY <2>1 DEF PassInv, Grounded, Same
  <2>. QED BY <2>1, <2>3, <2>4 DEF PassInv, TakenNew, DoneSettled, Begun, Taken
<1>2. ASSUME NEW s \in todo, Take(s) PROVE PassInv'
  <2>1. /\ Same /\ pc = "poll" /\ pc' = "fresh" /\ UNCHANGED <<known, held>> /\ work' = s
        /\ Owner[s.key] \notin known /\ Owner[s.key] \notin held
    BY <1>2 DEF Take, Same, Skipped, Deferred
  <2>2. pc \in Passing /\ pc' \in Passing /\ pc' \notin Begun
    BY <2>1 DEF Passing, Begun, Taken
  <2>3. Knows'
    BY <2>1, <2>2 DEF PassInv, Knows, Same, Blocked
  <2>4. TakenNew'
    BY <2>1, <2>2 DEF TakenNew, Current
  <2>5. Grounded'
    BY <2>1 DEF PassInv, Grounded, Same
  <2>. QED BY <2>1, <2>3, <2>4, <2>5 DEF PassInv, DoneSettled
<1>. QED BY <1>1, <1>2

(* The fresh read keeps the issue, if not its key, and an intent is saved  *)
(* only where nothing holds the issue.                                     *)
LEMMA IntentSteps ==
  ASSUME Base, PassInv, Accept \/ SaveIntent
  PROVE  PassInv'
<1> USE DEF jira, file, fireflow, pass
<1>1. CASE Accept
  <2>1. Same /\ pc = "fresh" /\ pc' = "intent" /\ UNCHANGED <<known, held>> /\ work' = Reread
    BY <1>1 DEF Accept, Same
  <2>2. pc \in Passing /\ pc \in Taken /\ pc' \in Passing /\ pc' \notin Begun
    BY <2>1 DEF Passing, Begun, Taken
  <2>3. Current \in Issue /\ Current = Owner[work.key]
    BY <2>2, TakenOwner DEF Base
  <2>4. Current' = Current
    BY <2>1, <2>3 DEF Reread, Snapshot, Current, Base, KeysOwned
  <2>5. Knows'
    BY <2>1, <2>2 DEF PassInv, Knows, Same, Blocked
  <2>6. TakenNew'
    BY <2>1, <2>2, <2>4 DEF PassInv, TakenNew
  <2>7. Grounded'
    BY <2>1 DEF PassInv, Grounded, Same
  <2>. QED BY <2>1, <2>5, <2>6, <2>7 DEF PassInv, DoneSettled
<1>2. CASE SaveIntent
  <2>1. /\ UNCHANGED <<entries, queue, receipt, backup, work, known>>
        /\ pc = "intent" /\ pc' = "create"
        /\ intents' = intents \union {work.key} /\ held' = held \union {Current}
    BY <1>2 DEF SaveIntent
  <2>2. pc \in Passing /\ pc \in Taken /\ pc' \in Passing /\ pc' \in Begun
    BY <2>1 DEF Passing, Begun, Taken
  <2>3. work.key \in Key /\ Current = Owner[work.key] /\ Current' = Current
    BY <2>1, <2>2, TakenOwner DEF Base, Current
  <2>4. Current \notin known /\ Current \notin held
    BY <2>1, <2>2 DEF PassInv, TakenNew
  <2>5. Knows'
    BY <2>1, <2>2, <2>3 DEF PassInv, Knows, Blocked
  <2>6. ~UnknownCreate(work.key)
    <3>1. SUFFICES ASSUME UnknownCreate(work.key) PROVE FALSE
      OBVIOUS
    <3>2. work.key \in intents /\ Blocked(work.key)
      BY <2>3, <3>1 DEF PassInv, Grounded, UnknownCreate, Blocked, IsBlocked, IsParked
    <3>. QED BY <2>2, <2>3, <2>4, <3>2 DEF PassInv, Knows
  <2>7. TakenNew'
    BY <2>1, <2>2, <2>3, <2>4, <2>6 DEF TakenNew, UnknownCreate
  <2>8. Grounded'
    BY <2>1 DEF PassInv, Grounded
  <2>. QED BY <2>1, <2>5, <2>7, <2>8 DEF PassInv, DoneSettled
<1>. QED BY <1>1, <1>2

(* A receipt that is written is the one of the issue at hand. *)
LEMMA ReceiptSteps ==
  ASSUME Base, PassInv, Claim \/ WriteResult
  PROVE  PassInv'
<1> USE DEF jira, file, fireflow, pass
<1>1. /\ UNCHANGED <<entries, intents, queue, backup, work, known, held>>
      /\ pc \in Begun /\ pc' \in Begun
      /\ pc \in Taken /\ pc \in Passing /\ pc' \in Passing /\ pc' # "reconcile"
      /\ pc' \notin {"fresh", "intent"}
  BY DEF Claim, WriteResult, Begun, Passing, Taken
<1>2. Knows' /\ TakenNew'
  BY <1>1 DEF PassInv, Knows, TakenNew, Blocked, Current, UnknownCreate
<1>3. \A i \in Issue : receipt[i] \in {"noid", "id"} => receipt'[i] \in {"noid", "id"}
  <2>1. Current \in Issue
    BY <1>1, TakenOwner DEF Base
  <2>2. CASE Claim
    BY <2>1, <2>2 DEF Claim, SentAnything, Base, TypeInv, TypeOK
  <2>3. CASE WriteResult
    BY <2>1, <2>3 DEF WriteResult, Base, TypeInv, TypeOK, ReplyGiven
  <2>. QED BY <2>2, <2>3
<1>4. Grounded'
  BY <1>1, <1>3, KeyAssumption DEF PassInv, Grounded
<1>. QED BY <1>1, <1>2, <1>4 DEF PassInv, DoneSettled

(* Back in run: the entry, or the failure. *)
LEMMA RecordSteps ==
  ASSUME Base, PassInv, ClearFailure \/ RecordEntry \/ RecordFailure
  PROVE  PassInv'
<1> USE DEF jira, file, fireflow, pass
<1>1. /\ pc \in Begun /\ pc \in Taken /\ pc \in Passing
      /\ pc' \in Passing /\ pc' \notin {"fresh", "intent", "reconcile"}
      /\ UNCHANGED <<intents, receipt, backup, held>>
  BY DEF ClearFailure, RecordEntry, RecordFailure, Begun, Passing, Taken
<1>2. /\ work.key \in Key /\ Current = Owner[work.key] /\ Current \in held
      /\ work.key \in intents
  BY <1>1, TakenOwner DEF Base, PassInv, TakenNew
<1>3. queue \in [Key -> Failure] /\ entries \in [Key -> {"absent", "noid", "id"}]
      /\ intents \subseteq Key
  BY DEF Base, TypeInv, TypeOK, File
<1>4. CASE ClearFailure
  <2>1. /\ queue' = [queue EXCEPT ![work.key] = NoFailure] /\ pc' = "record"
        /\ UNCHANGED <<entries, known, work>> /\ pc' \in Begun
    BY <1>4 DEF ClearFailure, Begun, Taken
  <2>2. \A k \in Key : queue'[k] = queue[k] \/ queue'[k] = NoFailure
    BY <1>3, <2>1
  <2>3. queue'[work.key] = NoFailure
    BY <1>2, <1>3, <2>1
  <2>4. NoFailure.stage = "none" /\ NoFailure.hold = "none"
    BY DEF NoFailure
  <2>5. Knows'
    BY <1>1, <1>3, <2>1, <2>2, <2>4 DEF PassInv, Knows, Blocked, IsBlocked, IsParked
  <2>6. TakenNew'
    BY <1>1, <2>1, <2>3, <2>4 DEF PassInv, TakenNew, Current, UnknownCreate
  <2>7. Grounded'
    BY <1>1, <2>1, <2>2, <2>4 DEF PassInv, Grounded
  <2>. QED BY <1>1, <2>5, <2>6, <2>7 DEF PassInv, DoneSettled
<1>5. CASE RecordEntry
  <2>1. /\ entries' = [entries EXCEPT ![work.key] = reply] /\ pc' = "poll"
        /\ known' = known \union {Current} /\ queue' = queue
        /\ receipt[Current] = reply /\ reply \in {"noid", "id"}
    BY <1>5 DEF RecordEntry, Base, Counted, Confirmed, TypeInv, ReplyGiven
  <2>2. Knows'
    BY <1>1, <1>2, <1>3, <2>1 DEF PassInv, Knows, Blocked
  <2>3. Grounded'
    BY <1>1, <1>2, <1>3, <2>1 DEF PassInv, Grounded
  <2>. QED BY <2>1, <2>2, <2>3 DEF PassInv, TakenNew, DoneSettled, Begun, Taken
<1>6. CASE RecordFailure
  <2>1. /\ UNCHANGED <<entries, known>> /\ pc' = "poll"
        /\ \A k \in Key : queue'[k] = queue[k] \/ k = work.key
    BY <1>3, <1>6 DEF RecordFailure
  <2>2. Knows'
    BY <1>1, <1>2, <1>3, <2>1 DEF PassInv, Knows, Blocked
  <2>3. Grounded'
    BY <1>1, <1>2, <2>1 DEF PassInv, Grounded
  <2>. QED BY <2>1, <2>2, <2>3 DEF PassInv, TakenNew, DoneSettled, Begun, Taken
<1>. QED BY <1>4, <1>5, <1>6

(* The queue from outside: a person, time, the mirror. *)
LEMMA QueueSteps ==
  ASSUME Base, PassInv, NEW k \in Key, Release(k) \/ Elapse(k) \/ MirrorKey(k)
  PROVE  PassInv'
<1> USE DEF jira, file, fireflow, pass
<1>1. /\ UNCHANGED <<entries, intents, receipt, backup, pc, work, known, held, left>>
  BY DEF Release, Elapse, MirrorKey
<1>2. queue \in [Key -> Failure] /\ intents \subseteq Key
  BY DEF Base, TypeInv, TypeOK, File
<1>3. \A x \in Key : queue'[x] = queue[x] \/ x = k
  BY <1>2 DEF Release, Elapse, MirrorKey
<1>4. queue'[k].stage \in {queue[k].stage, "mirror", "none"}
  <2>1. queue[k] \in Failure
    BY <1>2
  <2>2. CASE Release(k)
    <3>1. queue'[k] = Released(queue[k])
      BY <1>2, <2>2 DEF Release
    <3>. QED BY <2>1, <3>1 DEF Released, Failure, FailureOf
  <2>3. CASE Elapse(k)
    <3>1. queue'[k] = [queue[k] EXCEPT !.hold = "due"]
      BY <1>2, <2>3 DEF Elapse
    <3>. QED BY <2>1, <3>1 DEF Failure, FailureOf
  <2>4. CASE MirrorKey(k)
    <3>1. queue'[k] \in {NoFailure, Failed(queue[k], "mirror", TRUE),
                         Failed(queue[k], "mirror", FALSE)}
      BY <1>2, <2>4 DEF MirrorKey
    <3>. QED BY <3>1 DEF NoFailure, Failed
  <2>. QED BY <2>2, <2>3, <2>4
<1>5. Grounded'
  BY <1>1, <1>3, <1>4 DEF PassInv, Grounded
<1>6. CASE Release(k) \/ MirrorKey(k)
  <2>1. pc = "idle"
    BY <1>6 DEF Release, MirrorKey
  <2>. QED BY <1>1, <1>5, <2>1 DEF PassInv, Knows, TakenNew, DoneSettled, Passing, Begun, Taken
<1>7. CASE Elapse(k)
  <2>1. /\ queue[k].hold = "waiting" /\ queue'[k].hold = "due"
        /\ queue'[k].stage = queue[k].stage
    BY <1>2, <1>7 DEF Elapse, Failure, FailureOf
  <2>2. \A x \in Key : /\ Blocked(x)' => Blocked(x)
                       /\ Parked(x)' <=> Parked(x)
                       /\ UnknownCreate(x)' => UnknownCreate(x)
                       /\ queue'[x].stage = queue[x].stage
    BY <1>3, <2>1 DEF Blocked, IsBlocked, Parked, IsParked, UnknownCreate
  <2>3. Knows'
    BY <1>1, <1>2, <2>2 DEF PassInv, Knows
  <2>4. TakenNew'
    <3>1. pc \in Begun => pc \in Taken
      BY DEF Begun
    <3>2. pc \in Begun => work.key \in Key
      BY <3>1, TakenOwner DEF Base
    <3>. QED BY <1>1, <2>2, <3>2 DEF PassInv, TakenNew, Current, UnknownCreate
  <2>5. \A x \in Key : Settled(x) => Settled(x)'
    BY <1>1, <2>2 DEF Settled, ReceiptOf
  <2>6. DoneSettled'
    BY <1>1, <1>2, <2>5 DEF PassInv, DoneSettled
  <2>. QED BY <1>5, <2>3, <2>4, <2>6 DEF PassInv
<1>. QED BY <1>6, <1>7

(* Reconciliation settles key by key. *)
LEMMA ReconcileSteps ==
  ASSUME Base, PassInv, BeginReconcile \/ \E k \in left : ReconcileKey(k)
  PROVE  PassInv'
<1> USE DEF jira, file, fireflow, pass
<1>1. queue \in [Key -> Failure] /\ entries \in [Key -> {"absent", "noid", "id"}]
      /\ intents \subseteq Key /\ left \subseteq Key
  BY DEF Base, TypeInv, TypeOK, File
<1>2. CASE BeginReconcile
  <2>1. Same /\ pc' = "reconcile" /\ intents \subseteq left'
    BY <1>2 DEF BeginReconcile, LocalKeys, Same
  <2>2. Grounded'
    BY <2>1 DEF PassInv, Grounded, Same
  <2>3. DoneSettled'
    BY <2>1 DEF DoneSettled, Same
  <2>. QED BY <2>1, <2>2, <2>3 DEF PassInv, Knows, TakenNew, Passing, Begun, Taken
<1>3. ASSUME NEW k \in left, ReconcileKey(k) PROVE PassInv'
  <2>1. /\ UNCHANGED <<intents, receipt, backup, pc>> /\ pc = "reconcile" /\ left' = left \ {k}
        /\ k \in Key
    BY <1>1, <1>3 DEF ReconcileKey
  <2>2. /\ entries' = [entries EXCEPT ![k] =
                         IF \/ @ = "absent" /\ ReceiptOf(k) \in {"id", "noid"}
                            \/ @ = "noid" /\ ReceiptOf(k) = "id"
                         THEN ReceiptOf(k) ELSE @]
        /\ queue' = [queue EXCEPT ![k] =
                       IF ReceiptOf(k) = "started" /\ ~Parked(k) THEN Failed(@, "create", FALSE)
                       ELSE IF ReceiptOf(k) = "id" /\ @.stage = "create" THEN NoFailure ELSE @]
    BY <1>3 DEF ReconcileKey
  <2>3. \A x \in Key \ {k} : entries'[x] = entries[x] /\ queue'[x] = queue[x]
    BY <1>1, <2>2
  <2>4. ReceiptOf(k) # "none" => ReceiptOf(k) = receipt[Owner[k]]
    BY DEF ReceiptOf
  <2>5. Grounded'
    <3>1. ASSUME entries'[k] # "absent" PROVE receipt[Owner[k]] \in {"noid", "id"}
      BY <1>1, <2>1, <2>2, <2>4, <3>1 DEF PassInv, Grounded
    <3>2. ASSUME queue'[k].stage = "create" PROVE k \in intents
      <4>1. CASE ReceiptOf(k) = "started" /\ ~Parked(k)
        <5>1. entries[k] # "absent" => receipt[Owner[k]] \in {"noid", "id"}
          BY <2>1 DEF PassInv, Grounded
        <5>2. receipt[Owner[k]] = "started"
          BY <2>4, <4>1
        <5>. QED BY <4>1, <5>1, <5>2 DEF ReceiptOf
      <4>2. CASE ~(ReceiptOf(k) = "started" /\ ~Parked(k))
        <5>1. queue[k].stage = "create"
          BY <1>1, <2>1, <2>2, <3>2, <4>2 DEF NoFailure
        <5>. QED BY <2>1, <5>1 DEF PassInv, Grounded
      <4>. QED BY <4>1, <4>2
    <3>. QED BY <2>1, <2>3, <3>1, <3>2 DEF PassInv, Grounded
  <2>6. k \in intents => Settled(k)'
    <3>1. SUFFICES ASSUME k \in intents PROVE Settled(k)'
      OBVIOUS
    <3>2. ReceiptOf(k) = receipt[Owner[k]] /\ ReceiptOf(k)' = ReceiptOf(k)
      BY <2>1, <3>1 DEF ReceiptOf
    <3>3. CASE ReceiptOf(k) = "started"
      <4>1. Parked(k)'
        <5>1. CASE Parked(k)
          BY <1>1, <2>1, <2>2, <3>3, <5>1 DEF Parked
        <5>2. CASE ~Parked(k)
          <6>1. queue'[k] = Failed(queue[k], "create", FALSE)
            BY <1>1, <2>1, <2>2, <3>3, <5>2
          <6>. QED BY <6>1 DEF Parked, IsParked, Failed
        <5>. QED BY <5>1, <5>2
      <4>. QED BY <3>2, <3>3, <4>1 DEF Settled
    <3>4. CASE ReceiptOf(k) = "noid"
      <4>1. entries'[k] # "absent"
        BY <1>1, <2>1, <2>2, <3>4
      <4>. QED BY <3>2, <3>4, <4>1 DEF Settled
    <3>5. CASE ReceiptOf(k) = "id"
      <4>1. entries'[k] = "id"
        BY <1>1, <2>1, <2>2, <3>5
      <4>2. queue'[k].stage # "create"
        BY <1>1, <2>1, <2>2, <3>5 DEF NoFailure
      <4>. QED BY <3>2, <3>5, <4>1, <4>2 DEF Settled
    <3>. QED BY <3>2, <3>3, <3>4, <3>5 DEF Settled
  <2>7. ASSUME NEW x \in intents \ left', x # k PROVE Settled(x)'
    <3>1. x \in Key \ {k} /\ x \in intents \ left
      BY <1>1, <2>1, <2>7
    <3>2. Settled(x)
      BY <2>1, <3>1 DEF PassInv, DoneSettled
    <3>. QED BY <2>1, <2>3, <3>1, <3>2 DEF Settled, ReceiptOf, Parked
  <2>8. DoneSettled'
    BY <2>1, <2>6, <2>7 DEF DoneSettled
  <2>9. pc' \notin Passing /\ pc' \notin Taken /\ pc' \notin Begun /\ pc' \notin {"fresh", "intent"}
    BY <2>1 DEF Passing, Begun, Taken
  <2>. QED BY <2>5, <2>8, <2>9 DEF PassInv, Knows, TakenNew
<1>. QED BY <1>2, <1>3

(* The invariant of a pass holds throughout. *)
LEMMA PassAlways ==
  ASSUME Restores = FALSE
  PROVE  Spec => [](Base /\ PassInv)
<1>1. Init => PassInv
  <2>1. SUFFICES ASSUME Init PROVE PassInv
    OBVIOUS
  <2>2. /\ pc = "idle" /\ backup = {}
        /\ \A k \in Key : entries[k] = "absent" /\ queue[k] = NoFailure
    BY <2>1 DEF Init
  <2>. QED BY <2>2 DEF PassInv, Knows, TakenNew, Grounded, DoneSettled, Passing, Begun, Taken,
                       NoFailure
<1>2. Base /\ PassInv /\ [Next]_vars => PassInv'
  BY QuietSteps, SearchSteps, IntentSteps, ReceiptSteps, RecordSteps, QueueSteps,
     ReconcileSteps DEF Next, Operator, PollStep, ReconcileStep, Base
<1>3. Spec => []Base
  <2>1. Init => IdsHeld
    BY KeyAssumption DEF Init, IdsHeld
  <2>. QED BY <2>1, Types, CountedAlways, StepKeepsIdsHeld, KeysOwnedAlways, PTL DEF Spec, Base
<1>. QED BY <1>1, <1>2, <1>3, PTL DEF Spec

-----------------------------------------------------------------------------
(* Who changes the queue. *)
LEMMA QueueChanges ==
  [Next]_vars => \/ UNCHANGED queue \/ ClearFailure \/ RecordFailure \/ RestoreBackup
                 \/ \E k \in Key : Release(k) \/ Elapse(k) \/ MirrorKey(k)
                 \/ \E k \in left : ReconcileKey(k)
<1> USE DEF jira, file, fireflow, pass
<1>1. UNCHANGED vars \/ Jira \/ Crash \/ BeginPoll \/ TakeBackup \/ (\E i \in Issue : Capture(i))
      => UNCHANGED queue
  BY DEF vars, Jira, Edit, Move, ChangeStatus, Crash, BeginPoll, TakeBackup, Capture
<1>2. SearchRest \/ SearchFails \/ ReadFails \/ EndPoll \/ EndReconcile \/ BeginReconcile
      \/ Refuse \/ Accept \/ SaveIntent \/ (\E s \in todo : PassOver(s) \/ Take(s))
      => UNCHANGED queue
  BY DEF SearchRest, SearchFails, ReadFails, EndPoll, EndReconcile, BeginReconcile, Refuse,
         Accept, SaveIntent, PassOver, Take
<1>3. CreateChecked \/ CreateRefused \/ ClaimRefused \/ Claim \/ Post \/ WriteResult
      \/ ResultFails \/ RecordEntry => UNCHANGED queue
  BY DEF CreateChecked, CreateRefused, ClaimRefused, Claim, Post, WriteResult, ResultFails,
         RecordEntry
<1>. QED BY <1>1, <1>2, <1>3 DEF Next, Operator, PollStep, ReconcileStep

(* Where no backup is restored, a create whose outcome is unknown leaves    *)
(* the queue only when a receipt names the request.                        *)
THEOREM UnknownStays ==
  ASSUME Restores = FALSE
  PROVE  Spec => UnknownStaysParked
<1>1. ASSUME Base, PassInv, [Next]_vars,
             NEW k \in Key, UnknownCreate(k), queue'[k] # queue[k]
      PROVE  receipt[Owner[k]] = "id"
  <2> USE DEF jira, file, fireflow, pass
  <2>1. queue \in [Key -> Failure]
    BY <1>1 DEF Base, TypeInv, TypeOK, File
  <2>2. ~ \E x \in Key : Release(x) \/ Elapse(x) \/ MirrorKey(x)
    BY <1>1, <2>1 DEF Release, Elapse, MirrorKey, Blocked, IsBlocked, IsParked, UnknownCreate
  <2>3. ~(ClearFailure \/ RecordFailure)
    <3>1. SUFFICES ASSUME ClearFailure \/ RecordFailure PROVE FALSE
      OBVIOUS
    <3>2. pc \in Begun /\ (k = work.key \/ queue'[k] = queue[k])
      BY <2>1, <3>1 DEF ClearFailure, RecordFailure, Begun, Taken
    <3>. QED BY <1>1, <3>2 DEF PassInv, TakenNew
  <2>4. ~RestoreBackup
    BY <1>1 DEF PassInv, Grounded, RestoreBackup
  <2>5. PICK x \in left : ReconcileKey(x)
    BY <1>1, <2>2, <2>3, <2>4, QueueChanges
  <2>6. x = k
    BY <1>1, <2>1, <2>5 DEF ReconcileKey
  <2>7. Parked(k)
    BY <1>1 DEF Parked, IsParked, UnknownCreate
  <2>8. ReceiptOf(k) = "id"
    BY <1>1, <2>1, <2>5, <2>6, <2>7 DEF ReconcileKey
  <2>. QED BY <2>8 DEF ReceiptOf
<1>2. Base /\ PassInv /\ [Next]_vars =>
        [\A k \in Key : queue[k].stage = "create" /\ queue[k].hold = "unknown"
                          /\ queue'[k] # queue[k] => receipt[Owner[k]] = "id"]_vars
  BY <1>1 DEF UnknownCreate
<1>. QED BY <1>2, PassAlways, PTL DEF Spec, UnknownStaysParked

(* A create is parked for a person only while no entry of its issue has a  *)
(* request.                                                                *)
THEOREM ParksOnlyUnrecorded ==
  ASSUME Restores = FALSE
  PROVE  Spec => ParkedOnlyUnrecorded
<1>1. ASSUME Base, PassInv, [Next]_vars,
             NEW k \in Key, queue'[k].stage = "create", queue'[k].hold = "unknown",
             queue[k].hold # "unknown",
             NEW x \in Key, Owner[x] = Owner[k]
      PROVE  entries[x] # "id"
  <2> USE DEF jira, file, fireflow, pass
  <2>1. queue \in [Key -> Failure] /\ left \subseteq Key
    BY <1>1 DEF Base, TypeInv, TypeOK, File
  <2>2. ~ \E y \in Key : Release(y) \/ Elapse(y)
    <3>1. SUFFICES ASSUME NEW y \in Key, Release(y) \/ Elapse(y) PROVE FALSE
      OBVIOUS
    <3>2. \A f \in Failure : Released(f).hold = "due" /\ [f EXCEPT !.hold = "due"].hold = "due"
      BY DEF Released, Failure, FailureOf
    <3>3. PICK g : queue' = [queue EXCEPT ![y] = g] /\ g.hold = "due"
      <4>1. queue[y] \in Failure
        BY <2>1
      <4>2. CASE Release(y)
        BY <3>2, <4>1, <4>2 DEF Release
      <4>3. CASE Elapse(y)
        <5>1. queue' = [queue EXCEPT ![y] = [queue[y] EXCEPT !.hold = "due"]]
          BY <4>3 DEF Elapse
        <5>. QED BY <3>2, <4>1, <5>1
      <4>. QED BY <3>1, <4>2, <4>3
    <3>. QED BY <1>1, <2>1, <3>3
  <2>3. ~ \E y \in Key : MirrorKey(y)
    <3>1. SUFFICES ASSUME NEW y \in Key, MirrorKey(y) PROVE FALSE
      OBVIOUS
    <3>2. PICK f \in {NoFailure, Failed(queue[y], "mirror", TRUE),
                      Failed(queue[y], "mirror", FALSE)} : queue' = [queue EXCEPT ![y] = f]
      BY <3>1 DEF MirrorKey
    <3>3. f.stage # "create"
      BY <3>2 DEF NoFailure, Failed
    <3>. QED BY <1>1, <2>1, <3>2, <3>3
  <2>4. ~RestoreBackup
    BY <1>1 DEF PassInv, Grounded, RestoreBackup
  <2>5. ~ClearFailure
    BY <1>1, <2>1 DEF ClearFailure, NoFailure
  <2>6. CASE RecordFailure
    <3>1. pc \in Taken /\ pc \in Passing /\ k = work.key
      BY <1>1, <2>1, <2>6 DEF RecordFailure, Passing, Taken
    <3>2. Current = Owner[k] /\ Current \notin known
      BY <1>1, <3>1, TakenOwner DEF Base, PassInv, TakenNew
    <3>. QED BY <1>1, <3>1, <3>2 DEF PassInv, Knows
  <2>7. CASE \E y \in left : ReconcileKey(y)
    <3>1. PICK y \in left : ReconcileKey(y)
      BY <2>7
    <3>2. y = k
      BY <1>1, <2>1, <3>1 DEF ReconcileKey
    <3>3. ReceiptOf(k) = "started"
      BY <1>1, <2>1, <3>1, <3>2 DEF ReconcileKey, NoFailure
    <3>4. receipt[Owner[x]] = "started"
      BY <1>1, <3>3 DEF ReceiptOf
    <3>. QED BY <1>1, <3>4 DEF Base, IdsHeld
  <2>. QED BY <1>1, <2>2, <2>3, <2>4, <2>5, <2>6, <2>7, QueueChanges
<1>2. Base /\ PassInv /\ [Next]_vars =>
        [\A k \in Key : queue'[k].stage = "create" /\ queue'[k].hold = "unknown"
                          /\ queue[k].hold # "unknown"
           => \A x \in Key : Owner[x] = Owner[k] => entries[x] # "id"]_vars
  BY <1>1
<1>. QED BY <1>2, PassAlways, PTL DEF Spec, ParkedOnlyUnrecorded

(* No attempt starts while a failure holds the issue under any key it ever *)
(* had.                                                                    *)
THEOREM HoldsAcrossMoves ==
  ASSUME Restores = FALSE
  PROVE  Spec => HeldAcrossMoves
<1>1. ASSUME Base, PassInv, pc = "intent", NEW k \in intents, Owner[k] = Current
      PROVE  ~Blocked(k)
  <2>1. pc \in Passing /\ Current \notin held
    BY <1>1 DEF PassInv, TakenNew, Passing, Taken
  <2>. QED BY <1>1, <2>1 DEF PassInv, Knows
<1>2. Base /\ PassInv /\ [Next]_vars =>
        [pc = "intent" /\ pc' = "create" =>
           \A k \in intents : Owner[k] = Current => ~Blocked(k)]_vars
  BY <1>1
<1>. QED BY <1>2, PassAlways, PTL DEF Spec, HeldAcrossMoves

(* When reconciliation has gone through its keys, every change begun is     *)
(* recorded or parked.                                                     *)
THEOREM Reconciles ==
  ASSUME Restores = FALSE
  PROVE  Spec => ReconcileSettles
<1>1. ASSUME PassInv, EndReconcile, NEW k \in intents PROVE Settled(k)
  BY <1>1 DEF PassInv, DoneSettled, EndReconcile
<1>2. Base /\ PassInv /\ [Next]_vars =>
        [EndReconcile =>
           \A k \in intents :
             CASE ReceiptOf(k) = "started" -> Parked(k)
               [] ReceiptOf(k) = "noid" -> entries[k] # "absent"
               [] ReceiptOf(k) = "id" -> entries[k] = "id" /\ queue[k].stage # "create"
               [] OTHER -> TRUE]_vars
  BY <1>1 DEF Settled
<1>. QED BY <1>2, PassAlways, PTL DEF Spec, ReconcileSettles
-----------------------------------------------------------------------------
(* The entry of a key is there or not; one of the mirror's has a request to *)
(* mirror.  What is being created is not held back by its own key: since   *)
(* its issue has no entry, its failure would be one of a create, and those *)
(* hold the issue.                                                         *)
QueueShaped == \A k \in Key :
                 /\ queue[k].hold = "none" => queue[k] = NoFailure
                 /\ queue[k].stage = "none" => queue[k].hold = "none"
                 /\ queue[k].stage = "mirror" => entries[k] # "absent"

NotHeldBack == pc \in Begun => ~Blocked(work.key)

QueueInv == QueueShaped /\ NotHeldBack

(* Entries stay. *)
LEMMA EntriesStay ==
  ASSUME TypeInv, PassInv, [Next]_vars
  PROVE  \A k \in Key : entries[k] # "absent" => entries'[k] # "absent"
<1> USE DEF jira, file, fireflow, pass, TypeInv, TypeOK, File
<1>1. CASE UNCHANGED entries
  BY <1>1
<1>2. CASE RecordEntry
  BY <1>2 DEF RecordEntry, ReplyGiven
<1>3. ASSUME NEW x \in left, ReconcileKey(x)
      PROVE  \A k \in Key : entries[k] # "absent" => entries'[k] # "absent"
  BY <1>3 DEF ReconcileKey
<1>4. ~RestoreBackup
  BY DEF PassInv, Grounded, RestoreBackup
<1>5. Jira \/ Crash \/ BeginPoll \/ BeginReconcile \/ EndReconcile \/ UNCHANGED vars
      \/ TakeBackup \/ (\E i \in Issue : Capture(i))
      \/ (\E k \in Key : Release(k) \/ Elapse(k) \/ MirrorKey(k))
      => UNCHANGED entries
  BY DEF vars, Jira, Edit, Move, ChangeStatus, Crash, BeginPoll, BeginReconcile, EndReconcile,
         TakeBackup, Capture, Release, Elapse, MirrorKey
<1>6. SearchRest \/ SearchFails \/ ReadFails \/ EndPoll \/ Refuse \/ Accept \/ SaveIntent
      \/ (\E s \in todo : PassOver(s) \/ Take(s)) => UNCHANGED entries
  BY DEF SearchRest, SearchFails, ReadFails, EndPoll, Refuse, Accept, SaveIntent, PassOver, Take
<1>7. CreateChecked \/ CreateRefused \/ ClaimRefused \/ Claim \/ Post \/ WriteResult
      \/ ResultFails \/ ClearFailure \/ RecordFailure => UNCHANGED entries
  BY DEF CreateChecked, CreateRefused, ClaimRefused, Claim, Post, WriteResult, ResultFails,
         ClearFailure, RecordFailure
<1>. QED BY <1>1, <1>2, <1>3, <1>4, <1>5, <1>6, <1>7
         DEF Next, Operator, PollStep, ReconcileStep

(* What each of the queue's changes makes of an entry. *)
LEMMA EntryChanges ==
  ASSUME TypeInv, PassInv, [Next]_vars, NEW k \in Key, queue'[k] # queue[k]
  PROVE  \/ ClearFailure /\ k = work.key /\ queue'[k] = NoFailure
         \/ /\ RecordFailure /\ k = work.key
            /\ \E b \in BOOLEAN : queue'[k] = Failed(queue[k], "create", b)
         \/ Release(k) /\ queue'[k] = Released(queue[k])
         \/ Elapse(k) /\ queue'[k] = [queue[k] EXCEPT !.hold = "due"]
         \/ /\ MirrorKey(k)
            /\ \/ queue'[k] = NoFailure
               \/ \E b \in BOOLEAN : queue'[k] = Failed(queue[k], "mirror", b)
         \/ /\ k \in left /\ ReconcileKey(k)
            /\ \/ ~Parked(k) /\ queue'[k] = Failed(queue[k], "create", FALSE)
               \/ queue[k].stage = "create" /\ queue'[k] = NoFailure
<1> USE DEF jira, file, fireflow, pass
<1>1. queue \in [Key -> Failure] /\ left \subseteq Key
  BY DEF TypeInv, TypeOK, File
<1>2. ~RestoreBackup
  BY DEF PassInv, Grounded, RestoreBackup
<1>3. CASE ClearFailure
  BY <1>1, <1>3 DEF ClearFailure
<1>4. CASE RecordFailure
  <2>1. queue' = [queue EXCEPT ![work.key] =
                    Failed(queue[work.key], "create", ~SentAnything(Current))]
    BY <1>4 DEF RecordFailure
  <2>2. k = work.key
    BY <1>1, <2>1
  <2>3. PICK b \in BOOLEAN : b = ~SentAnything(Current)
    OBVIOUS
  <2>. QED BY <1>1, <1>4, <2>1, <2>2, <2>3
<1>5. ASSUME NEW x \in Key, Release(x)
      PROVE  Release(k) /\ queue'[k] = Released(queue[k])
  BY <1>1, <1>5 DEF Release
<1>6. ASSUME NEW x \in Key, Elapse(x)
      PROVE  Elapse(k) /\ queue'[k] = [queue[k] EXCEPT !.hold = "due"]
  <2>1. queue' = [queue EXCEPT ![x] = [queue[x] EXCEPT !.hold = "due"]]
    BY <1>6 DEF Elapse
  <2>2. x = k
    BY <1>1, <2>1
  <2>. QED BY <1>1, <1>6, <2>1, <2>2
<1>7. ASSUME NEW x \in Key, MirrorKey(x)
      PROVE  /\ MirrorKey(k)
             /\ \/ queue'[k] = NoFailure
                \/ \E b \in BOOLEAN : queue'[k] = Failed(queue[k], "mirror", b)
  <2>1. PICK f \in {NoFailure, Failed(queue[x], "mirror", TRUE),
                    Failed(queue[x], "mirror", FALSE)} : queue' = [queue EXCEPT ![x] = f]
    BY <1>7 DEF MirrorKey
  <2>2. x = k
    BY <1>1, <2>1
  <2>. QED BY <1>1, <1>7, <2>1, <2>2
<1>8. ASSUME NEW x \in left, ReconcileKey(x)
      PROVE  /\ k \in left /\ ReconcileKey(k)
             /\ \/ ~Parked(k) /\ queue'[k] = Failed(queue[k], "create", FALSE)
                \/ queue[k].stage = "create" /\ queue'[k] = NoFailure
  <2>1. x = k
    BY <1>1, <1>8 DEF ReconcileKey
  <2>. QED BY <1>1, <1>8, <2>1 DEF ReconcileKey
<1>. QED BY <1>2, <1>3, <1>4, <1>5, <1>6, <1>7, <1>8, QueueChanges
(* An entry that has failed is in the queue, under the stage that failed. *)
LEMMA ShapeStays ==
  ASSUME TypeInv, PassInv, QueueShaped, [Next]_vars
  PROVE  QueueShaped'
<1> SUFFICES ASSUME NEW k \in Key
             PROVE  /\ queue'[k].hold = "none" => queue'[k] = NoFailure
                    /\ queue'[k].stage = "none" => queue'[k].hold = "none"
                    /\ queue'[k].stage = "mirror" => entries'[k] # "absent"
  BY DEF QueueShaped
<1>1. /\ queue[k].hold = "none" => queue[k] = NoFailure
      /\ queue[k].stage = "none" => queue[k].hold = "none"
      /\ queue[k].stage = "mirror" => entries[k] # "absent"
      /\ entries[k] # "absent" => entries'[k] # "absent"
  BY EntriesStay DEF QueueShaped
<1>2. queue[k] \in Failure
  BY DEF TypeInv, TypeOK, File
<1>3. CASE queue'[k] = queue[k]
  BY <1>1, <1>3
<1>4. CASE queue'[k] = NoFailure
  BY <1>4 DEF NoFailure
<1>5. ASSUME NEW b \in BOOLEAN, queue'[k] = Failed(queue[k], "create", b)
      PROVE  queue'[k].hold # "none" /\ queue'[k].stage = "create"
  BY <1>5 DEF Failed
<1>6. ASSUME NEW b \in BOOLEAN, queue'[k] = Failed(queue[k], "mirror", b), MirrorKey(k)
      PROVE  queue'[k].hold # "none" /\ queue'[k].stage = "mirror" /\ entries[k] # "absent"
  BY <1>6 DEF Failed, MirrorKey
<1>7. ASSUME \/ Release(k) /\ queue'[k] = Released(queue[k])
             \/ Elapse(k) /\ queue'[k] = [queue[k] EXCEPT !.hold = "due"]
      PROVE  queue'[k].hold = "due" /\ queue'[k].stage = queue[k].stage /\ queue[k].hold # "none"
  <2>1. queue[k].hold \in {"exhausted", "waiting"}
    BY <1>7 DEF Release, Elapse
  <2>. QED BY <1>2, <1>7, <2>1 DEF Released, Failure, FailureOf
<1>. QED BY <1>1, <1>3, <1>4, <1>5, <1>6, <1>7, EntryChanges

(* What a step does to the issue that is being created. *)
LEMMA BegunSteps ==
  ASSUME [Next]_vars, pc' \in Begun
  PROVE  \/ SaveIntent
         \/ pc \in Begun /\ work' = work
<1> USE DEF Begun, Taken, jira, file, fireflow, pass
<1>1. CASE UNCHANGED <<pc, work>>
  BY <1>1
<1>2. Jira \/ UNCHANGED vars \/ Operator \/ (\E k \in Key : Elapse(k) \/ MirrorKey(k))
      => UNCHANGED <<pc, work>>
  BY DEF vars, Jira, Edit, Move, ChangeStatus, Operator, TakeBackup, RestoreBackup, Capture,
         Release, Elapse, MirrorKey
<1>3. ~(\/ Crash \/ BeginPoll \/ BeginReconcile \/ ReconcileStep \/ SearchRest \/ SearchFails
        \/ ReadFails \/ EndPoll \/ Refuse \/ Accept \/ RecordEntry \/ RecordFailure
        \/ \E s \in todo : PassOver(s) \/ Take(s))
  BY DEF Crash, BeginPoll, BeginReconcile, ReconcileStep, EndReconcile, ReconcileKey, SearchRest,
         SearchFails, ReadFails, EndPoll, Refuse, Accept, RecordEntry, RecordFailure, PassOver,
         Take, Idle
<1>4. CreateChecked \/ CreateRefused \/ ClaimRefused \/ Claim \/ Post \/ WriteResult
      \/ ResultFails \/ ClearFailure => pc \in Begun /\ work' = work
  BY DEF CreateChecked, CreateRefused, ClaimRefused, Claim, Post, WriteResult, ResultFails,
         ClearFailure
<1>. QED BY <1>1, <1>2, <1>3, <1>4 DEF Next, PollStep

(* The intent is saved only for a key that no failure holds back, and none *)
(* comes while the create is under way.                                    *)
LEMMA HoldStays ==
  ASSUME Base, PassInv, QueueInv, [Next]_vars
  PROVE  NotHeldBack'
<1> SUFFICES ASSUME pc' \in Begun PROVE ~Blocked(work.key)'
  BY DEF NotHeldBack
<1>1. queue \in [Key -> Failure]
  BY DEF Base, TypeInv, TypeOK, File
<1>2. CASE SaveIntent
  <2>1. pc = "intent" /\ UNCHANGED <<queue, work>>
    BY <1>2 DEF SaveIntent
  <2>2. pc \in Taken /\ pc \in Passing
    BY <2>1 DEF Taken, Passing
  <2>3. work.key \in Key /\ Current = Owner[work.key] /\ Current \notin known
        /\ Current \notin held
    BY <2>1, <2>2, TakenOwner DEF Base, PassInv, TakenNew
  <2>4. entries[work.key] = "absent"
    BY <2>2, <2>3 DEF PassInv, Knows
  <2>5. ASSUME Blocked(work.key) PROVE FALSE
    <3>1. queue[work.key].stage = "create"
      <4>1. queue[work.key] \in Failure /\ queue[work.key].hold # "none"
        BY <1>1, <2>3, <2>5 DEF Blocked, IsBlocked, IsParked
      <4>. QED BY <2>3, <2>4, <4>1 DEF QueueInv, QueueShaped, Failure, FailureOf
    <3>2. work.key \in intents
      BY <2>3, <3>1 DEF PassInv, Grounded
    <3>. QED BY <2>2, <2>3, <2>5, <3>2 DEF PassInv, Knows
  <2>. QED BY <2>1, <2>5 DEF Blocked
<1>3. CASE pc \in Begun /\ work' = work
  <2>1. pc \in Taken
    BY <1>3 DEF Begun
  <2>2. work.key \in Key /\ ~Blocked(work.key)
    BY <1>3, <2>1, TakenOwner DEF Base, QueueInv, NotHeldBack
  <2>3. CASE queue'[work.key] = queue[work.key]
    BY <1>3, <2>2, <2>3 DEF Blocked
  <2>4. CASE queue'[work.key] # queue[work.key]
    <3>1. ~MirrorKey(work.key) /\ ~Release(work.key) /\ ~ReconcileKey(work.key)
      BY <2>1 DEF Taken, MirrorKey, Release, ReconcileKey
    <3>2. ~RecordFailure
      BY DEF RecordFailure, Begun, Taken
    <3>3. ~Elapse(work.key)
      BY <2>2 DEF Elapse, Blocked, IsBlocked
    <3>4. queue'[work.key] = NoFailure
      BY <2>2, <2>4, <3>1, <3>2, <3>3, EntryChanges DEF Base
    <3>. QED BY <1>3, <3>4 DEF Blocked, IsBlocked, IsParked, NoFailure
  <2>. QED BY <2>3, <2>4
<1>. QED BY <1>2, <1>3, BegunSteps

LEMMA QueueInvAlways ==
  ASSUME Restores = FALSE
  PROVE  Spec => [](Base /\ PassInv /\ QueueInv)
<1>1. Init => QueueInv
  BY DEF Init, QueueInv, QueueShaped, NotHeldBack, NoFailure, Begun, Taken
<1>2. Base /\ PassInv /\ QueueInv /\ [Next]_vars => QueueInv'
  BY ShapeStays, HoldStays DEF QueueInv, Base
<1>. QED BY <1>1, <1>2, PassAlways, PTL DEF Spec
(* A failure, a success, a release or a wait of an entry is one of the     *)
(* queue it implements.                                                    *)
LEMMA EntrySteps ==
  ASSUME Base, PassInv, QueueInv, [Next]_vars, NEW k \in Key, queue'[k] # queue[k]
  PROVE  Queue(k)!QueueNext
<1> USE DEF Queue!QueueNext, Queue!Parked, Queue!Blocked, Queue!NextCount, Queue!Delay
<1>1. /\ queue[k] \in Failure /\ queue[k].attempts \in Nat
      /\ queue[k].hold = "none" => queue[k] = NoFailure
      /\ queue[k].stage = "none" => queue[k].hold = "none"
  BY DEF Base, TypeInv, TypeOK, File, Failure, FailureOf, QueueInv, QueueShaped
<1>2. NoFailure = [stage |-> "none", attempts |-> 0, hold |-> "none"]
  BY DEF NoFailure
<1>3. ASSUME queue'[k] = NoFailure PROVE Queue(k)!Gone
  BY <1>1, <1>2, <1>3 DEF Queue!Gone
<1>4. ASSUME ~Blocked(k), NEW s \in {"create", "mirror"}, NEW b \in BOOLEAN,
             queue'[k] = Failed(queue[k], s, b)
      PROVE  Queue(k)!Fail(s) \/ Queue(k)!FailUnknown(s)
  <2>1. ~Queue(k)!Blocked
    BY <1>4 DEF Blocked, IsBlocked, IsParked
  <2>2. /\ queue'[k].stage = s /\ queue'[k].attempts = queue[k].attempts + 1
        /\ queue'[k].hold = IF ~b THEN "unknown"
                            ELSE IF queue[k].attempts + 1 >= Attempts
                                 THEN "exhausted" ELSE "waiting"
    BY <1>4 DEF Failed
  <2>3. CASE ~b
    BY <2>1, <2>2, <2>3 DEF Queue!FailUnknown
  <2>4. CASE b /\ queue[k].attempts + 1 >= Attempts
    BY <2>1, <2>2, <2>4 DEF Queue!Fail
  <2>5. CASE b /\ ~(queue[k].attempts + 1 >= Attempts)
    <3>1. queue'[k].attempts < Attempts
      BY <1>1, <2>2, <2>5, AttemptsAssumption
    <3>. QED BY <1>4, <2>1, <2>2, <2>5, <3>1 DEF Queue!Fail
  <2>. QED BY <2>3, <2>4, <2>5
<1>5. CASE ClearFailure /\ k = work.key /\ queue'[k] = NoFailure
  <2>1. ~Blocked(k)
    BY <1>5 DEF ClearFailure, QueueInv, NotHeldBack, Begun, Taken
  <2>2. Queue(k)!Clear
    BY <1>3, <1>5, <2>1 DEF Queue!Clear, Blocked, IsBlocked, IsParked
  <2>. QED BY <2>2
<1>6. ASSUME RecordFailure, k = work.key, NEW b \in BOOLEAN,
             queue'[k] = Failed(queue[k], "create", b)
      PROVE  Queue(k)!QueueNext
  <2>1. ~Blocked(k)
    BY <1>6 DEF RecordFailure, QueueInv, NotHeldBack, Begun, Taken
  <2>. QED BY <1>4, <1>6, <2>1
<1>7. CASE Release(k) /\ queue'[k] = Released(queue[k])
  <2>1. /\ queue[k].hold = "exhausted"
        /\ queue'[k].hold = "due" /\ queue'[k].attempts = 0 /\ queue'[k].stage = queue[k].stage
    BY <1>1, <1>7 DEF Release, Released, Failure, FailureOf
  <2>2. Queue(k)!Release
    BY <2>1 DEF Queue!Release
  <2>. QED BY <2>2
<1>8. CASE Elapse(k) /\ queue'[k] = [queue[k] EXCEPT !.hold = "due"]
  <2>1. /\ queue[k].hold = "waiting" /\ queue'[k].hold = "due"
        /\ queue'[k].attempts = queue[k].attempts /\ queue'[k].stage = queue[k].stage
    BY <1>1, <1>8 DEF Elapse, Failure, FailureOf
  <2>2. Queue(k)!Waits
    BY <2>1 DEF Queue!Waits
  <2>. QED BY <2>2
<1>9. CASE MirrorKey(k) /\ queue'[k] = NoFailure
  <2>1. Queue(k)!Clear
    BY <1>3, <1>9 DEF Queue!Clear, MirrorKey, Blocked, IsBlocked, IsParked
  <2>. QED BY <2>1
<1>10. ASSUME MirrorKey(k), NEW b \in BOOLEAN, queue'[k] = Failed(queue[k], "mirror", b)
       PROVE  Queue(k)!QueueNext
  BY <1>4, <1>10 DEF MirrorKey
<1>11. CASE ~Parked(k) /\ queue'[k] = Failed(queue[k], "create", FALSE)
  <2>1. /\ queue'[k].stage = "create" /\ queue'[k].attempts = queue[k].attempts + 1
        /\ queue'[k].hold = "unknown"
    BY <1>11 DEF Failed
  <2>2. Queue(k)!FindUnknown("create")
    BY <1>11, <2>1 DEF Queue!FindUnknown, Parked, IsParked
  <2>. QED BY <2>2
<1>12. CASE queue[k].stage = "create" /\ queue'[k] = NoFailure
  <2>1. Queue(k)!Settle
    BY <1>3, <1>12 DEF Queue!Settle
  <2>. QED BY <2>1
<1>. QED BY <1>5, <1>6, <1>7, <1>8, <1>9, <1>10, <1>11, <1>12, EntryChanges DEF Base

(* To every key the failure queue is a RetryQueue: no command, in any mode *)
(* and however the issue moves, tries, counts or drops what is held back.  *)
THEOREM QueueRefinement ==
  ASSUME Restores = FALSE
  PROVE  Spec => QueuesSpec
<1>1. Init => \A k \in Key : Queue(k)!QueueInit
  BY DEF Init, NoFailure, Queue!QueueInit
<1>2. Base /\ PassInv /\ QueueInv /\ [Next]_vars
        => [\A k \in Key : [Queue(k)!QueueNext]_(Queue(k)!queue)]_vars
  <2> SUFFICES ASSUME Base, PassInv, QueueInv, [Next]_vars, NEW k \in Key
               PROVE  Queue(k)!QueueNext \/ UNCHANGED Queue(k)!queue
    OBVIOUS
  <2>1. CASE queue'[k] = queue[k]
    BY <2>1 DEF Queue!queue
  <2>. QED BY <2>1, EntrySteps
<1>. QED BY <1>1, <1>2, QueueInvAlways, PTL DEF Spec, QueuesSpec
(* The attempts of an entry that is tried again, or given up. *)
CountsOf(f) == /\ f.attempts <= Attempts
               /\ f.hold \in {"waiting", "due"} => f.attempts < Attempts
               /\ f.hold = "exhausted" => f.attempts = Attempts

LEMMA FailedCounts ==
  ASSUME NEW f \in Failure, CountsOf(f), ~IsParked(f), f.hold = "none" => f.attempts = 0,
         NEW s, NEW b \in BOOLEAN
  PROVE  CountsOf(Failed(f, s, b))
<1>1. f.attempts \in Nat /\ f.attempts < Attempts
  BY AttemptsAssumption DEF CountsOf, IsParked, Failure, FailureOf
<1>2. /\ Failed(f, s, b).attempts = f.attempts + 1
      /\ Failed(f, s, b).hold = IF ~b THEN "unknown"
                                ELSE IF f.attempts + 1 >= Attempts THEN "exhausted" ELSE "waiting"
  BY DEF Failed
<1>3. CASE ~b
  BY <1>1, <1>2, <1>3, AttemptsAssumption DEF CountsOf
<1>4. CASE b /\ f.attempts + 1 >= Attempts
  BY <1>1, <1>2, <1>4, AttemptsAssumption DEF CountsOf
<1>5. CASE b /\ ~(f.attempts + 1 >= Attempts)
  BY <1>1, <1>2, <1>5, AttemptsAssumption DEF CountsOf
<1>. QED BY <1>3, <1>4, <1>5

(* So what the queue promises holds of every key: all stages of the work   *)
(* together are tried Attempts times, unless the work succeeds or its      *)
(* outcome is unknown, and then parked (queue.py:105-165).                 *)
THEOREM AttemptsCounted ==
  ASSUME Restores = FALSE
  PROVE  Spec => [](\A k \in Key : Queue(k)!AttemptsAreCounted)
<1> DEFINE C == \A k \in Key : CountsOf(queue[k])
<1>1. Init => C
  BY AttemptsAssumption DEF Init, CountsOf, NoFailure
<1>2. ASSUME Base, PassInv, QueueInv, C, [Next]_vars, NEW k \in Key
      PROVE  CountsOf(queue'[k])
  <2>1. /\ queue[k] \in Failure /\ CountsOf(queue[k])
        /\ queue[k].hold = "none" => queue[k].attempts = 0
    BY <1>2 DEF Base, TypeInv, TypeOK, File, QueueInv, QueueShaped, NoFailure
  <2>2. CountsOf(NoFailure)
    BY AttemptsAssumption DEF CountsOf, NoFailure
  <2>3. ASSUME RecordFailure, k = work.key, NEW b \in BOOLEAN,
               queue'[k] = Failed(queue[k], "create", b)
        PROVE  CountsOf(queue'[k])
    <3>1. ~Blocked(k)
      BY <1>2, <2>3 DEF RecordFailure, QueueInv, NotHeldBack, Begun, Taken
    <3>. QED BY <2>1, <2>3, <3>1, FailedCounts DEF Blocked, IsBlocked
  <2>4. ASSUME MirrorKey(k), NEW b \in BOOLEAN, queue'[k] = Failed(queue[k], "mirror", b)
        PROVE  CountsOf(queue'[k])
    BY <2>1, <2>4, FailedCounts DEF MirrorKey, Blocked, IsBlocked
  <2>5. CASE ~Parked(k) /\ queue'[k] = Failed(queue[k], "create", FALSE)
    BY <2>1, <2>5, FailedCounts DEF Parked
  <2>6. CASE queue'[k] = Released(queue[k])
    <3>1. queue'[k].attempts = 0 /\ queue'[k].hold = "due"
      BY <2>1, <2>6 DEF Released, Failure, FailureOf
    <3>. QED BY <3>1, AttemptsAssumption DEF CountsOf
  <2>7. CASE Elapse(k) /\ queue'[k] = [queue[k] EXCEPT !.hold = "due"]
    <3>1. queue'[k].attempts = queue[k].attempts /\ queue'[k].hold = "due"
      BY <2>1, <2>7 DEF Failure, FailureOf
    <3>2. queue[k].hold = "waiting"
      BY <2>7 DEF Elapse
    <3>. QED BY <2>1, <3>1, <3>2 DEF CountsOf
  <2>8. CASE queue'[k] = queue[k]
    BY <2>1, <2>8
  <2>. QED BY <1>2, <2>2, <2>3, <2>4, <2>5, <2>6, <2>7, <2>8, EntryChanges DEF Base
<1>3. Base /\ PassInv /\ QueueInv /\ C /\ [Next]_vars => C'
  BY <1>2 DEF CountsOf
<1>4. ASSUME Base, C, QueueInv PROVE \A k \in Key : Queue(k)!AttemptsAreCounted
  <2> SUFFICES ASSUME NEW k \in Key PROVE Queue(k)!AttemptsAreCounted
    OBVIOUS
  <2>1. queue[k] \in Failure /\ CountsOf(queue[k])
    BY <1>4 DEF Base, TypeInv, TypeOK, File
  <2>2. queue[k].attempts = Attempts => queue[k].hold \in {"exhausted", "unknown"}
    BY <1>4, <2>1, AttemptsAssumption DEF CountsOf, Failure, FailureOf, QueueInv, QueueShaped,
       NoFailure
  <2>. QED BY <2>1, <2>2 DEF CountsOf, Queue!AttemptsAreCounted, Queue!Parked
<1>. HIDE DEF C
<1>5. Base /\ C /\ QueueInv => \A k \in Key : Queue(k)!AttemptsAreCounted
  BY <1>4
<1>. QED BY <1>1, <1>3, <1>5, QueueInvAlways, PTL DEF Spec
=============================================================================
