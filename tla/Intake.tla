-------------------------------- MODULE Intake --------------------------------
(***************************************************************************)
(* Jira issues become FireFlow change requests: the intake half of a poll  *)
(* (sync.run), the adapter's create with its receipts (fireflow.create and *)
(* _mutate), the failure queue (queue.Failures), reconciliation            *)
(* (reconcile.reconcile) and the operator's release and approval capture.  *)
(*                                                                         *)
(* Every command runs alone, under the flock StateFile.tla is about, and   *)
(* saves each change before its next step, so the state file is modelled   *)
(* by the variables entries, intents and queue, written in place.  Jira    *)
(* goes on changing between any two steps, and the process may be killed   *)
(* between any two steps.                                                  *)
(*                                                                         *)
(* An issue is its immutable id.  A key is its current name: a move gives  *)
(* it another of its own keys, and Jira never gives a key to another       *)
(* issue.  The operation id is made from the immutable id (sync.py:488),   *)
(* so receipts are per issue.                                              *)
(***************************************************************************)
EXTENDS Failures, FiniteSets, Integers

CONSTANTS Issue,       \* immutable Jira issue ids
          Key,         \* every key an issue ever has
          Owner,       \* the issue a key belongs to, for ever
          Content,     \* what the request fields of an issue may say
          Mappable,    \* the contents the mapping turns into a request
          None,        \* no content
          Mode,        \* "approval", "todo" or "plain" (no structured mapping)
          Cap,         \* max_per_pass; 0 lifts it
          Restores,    \* whether a backup of the state file may be restored
          MaxCrashes   \* bound: how often the process is killed

ASSUME KeyAssumption == /\ Owner \in [Key -> Issue]
                        /\ \A i \in Issue : \E k \in Key : Owner[k] = i
ASSUME ContentAssumption == Mappable \subseteq Content /\ None \notin Content
ASSUME ModeAssumption == Mode \in {"approval", "todo", "plain"}
ASSUME NumberAssumption == /\ Cap \in Nat
                           /\ MaxCrashes \in Nat
ASSUME RestoresAssumption == Restores \in BOOLEAN

VARIABLES
  \* Jira
  keyOf, content, ready,
  \* the state directory: state file, receipts, captured approvals, a backup
  entries, intents, queue, receipt, approved, backup,
  \* FireFlow: creates received, change requests made
  sends, tickets,
  \* the running command
  pc, todo, work, known, held, made, reply, left,
  \* history: how often the process was killed
  crashes

jira == <<keyOf, content, ready>>
file == <<entries, intents, queue>>
fireflow == <<sends, tickets>>
pass == <<known, held, made>>
vars == <<jira, file, receipt, approved, backup, fireflow, pc, todo, work, pass,
          reply, left, crashes>>

-----------------------------------------------------------------------------
Parked(k) == IsParked(queue[k])

(* Fault: what is parked holds nothing back. *)
BlockedByWait(k) == queue[k].hold = "waiting"

Blocked(k) == IsBlocked(queue[k])

(* existing_issue_ids and blocked_intent_issue_ids of run. *)
KnownIssues == {Owner[k] : k \in {x \in Key : entries[x] # "absent"}}

HeldIssues == {Owner[k] : k \in {x \in intents : Blocked(x)}}

(* sent_anything: a receipt of either kind for the issue's operation id. *)
SentAnything(i) == receipt[i] # "none"

(* What a search or a read by id returns of an issue. *)
Snapshot(i) == [key |-> keyOf[i], content |-> content[i]]

Current == Owner[work.key]

NoWork == [key |-> None, content |-> None]

Idle == /\ pc' = "idle"
        /\ todo' = {}
        /\ work' = NoWork
        /\ known' = {}
        /\ held' = {}
        /\ made' = 0
        /\ reply' = "none"
        /\ left' = {}

Init == /\ keyOf \in {f \in [Issue -> Key] : \A i \in Issue : Owner[f[i]] = i}
        /\ content \in [Issue -> Content]
        /\ ready = [i \in Issue |-> FALSE]
        /\ entries = [k \in Key |-> "absent"]
        /\ intents = {}
        /\ queue = [k \in Key |-> NoFailure]
        /\ receipt = [i \in Issue |-> "none"]
        /\ approved = [i \in Issue |-> None]
        /\ backup = {}
        /\ sends = [i \in Issue |-> 0]
        /\ tickets = [i \in Issue |-> 0]
        /\ pc = "idle"
        /\ todo = {}
        /\ work = NoWork
        /\ known = {}
        /\ held = {}
        /\ made = 0
        /\ reply = "none"
        /\ left = {}
        /\ crashes = 0

-----------------------------------------------------------------------------
(* People in Jira: they edit the request, move the issue to another key,   *)
(* and move it in and out of the status the intake takes ("Approved", or   *)
(* "To Do" in To Do mode).                                                 *)
Edit(i) == /\ \E c \in Content \ {content[i]} :
                content' = [content EXCEPT ![i] = c]
           /\ UNCHANGED <<keyOf, ready, file, receipt, approved, backup, fireflow,
                          pc, todo, work, pass, reply, left, crashes>>

Move(i) == /\ \E k \in Key \ {keyOf[i]} :
                Owner[k] = i /\ keyOf' = [keyOf EXCEPT ![i] = k]
           /\ UNCHANGED <<content, ready, file, receipt, approved, backup, fireflow,
                          pc, todo, work, pass, reply, left, crashes>>

ChangeStatus(i) == /\ ready' = [ready EXCEPT ![i] = ~@]
                   /\ UNCHANGED <<keyOf, content, file, receipt, approved, backup,
                                  fireflow, pc, todo, work, pass, reply, left, crashes>>

Jira == \E i \in Issue : Edit(i) \/ Move(i) \/ ChangeStatus(i)

-----------------------------------------------------------------------------
(* capture-approval: under the lock, rereads the issue, which must be      *)
(* Approved, and replaces its capture.                                     *)
Capture(i) == /\ pc = "idle"
              /\ Mode = "approval"
              /\ ready[i]
              /\ approved' = [approved EXCEPT ![i] = content[i]]
              /\ UNCHANGED <<jira, file, receipt, backup, fireflow, pc, todo, work,
                             pass, reply, left, crashes>>

(* The first page of the search of a poll. *)
BeginPoll == /\ pc = "idle"
             /\ \E S \in SUBSET {i \in Issue : ready[i]} :
                  todo' = {Snapshot(i) : i \in S}
             /\ pc' = "search"
             /\ UNCHANGED <<jira, file, receipt, approved, backup, fireflow, work,
                            pass, reply, left, crashes>>

(* Its later pages: an issue may be missed, or come again as it is by then.*)
(* Then run notes which issues the state file knows or holds.              *)
SearchRest == /\ pc = "search"
              /\ \E S \in SUBSET {i \in Issue : ready[i]} :
                   todo' = todo \union {Snapshot(i) : i \in S}
              /\ known' = KnownIssues
              /\ held' = HeldIssues
              /\ pc' = "poll"
              /\ UNCHANGED <<jira, file, receipt, approved, backup, fireflow, work,
                             made, reply, left, crashes>>

(* Any page fails: the whole pass ends (sync.py:420-424). *)
SearchFails == /\ pc = "search"
               /\ Idle
               /\ UNCHANGED <<jira, file, receipt, approved, backup, fireflow, crashes>>

(* Fault: an issue is known by its key only. *)
SkippedByKey(s) == entries[s.key] # "absent"

Skipped(s) == entries[s.key] # "absent" \/ Owner[s.key] \in known

(* Fault: a failure holds its key only. *)
DeferredByKey(s) == Blocked(s.key)

Deferred(s) == Blocked(s.key) \/ Owner[s.key] \in held

(* Fault: the cap counts what earlier passes created. *)
HeldBackForEver == Cap > 0 /\ Cardinality(KnownIssues) >= Cap

HeldBack == Cap > 0 /\ made >= Cap

PassOver(s) == /\ pc = "poll"
               /\ s \in todo
               /\ Skipped(s) \/ Deferred(s) \/ HeldBack
               /\ todo' = todo \ {s}
               /\ UNCHANGED <<jira, file, receipt, approved, backup, fireflow, pc,
                              work, pass, reply, left, crashes>>

Take(s) == /\ pc = "poll"
           /\ s \in todo
           /\ ~Skipped(s)
           /\ ~Deferred(s)
           /\ ~HeldBack
           /\ todo' = todo \ {s}
           /\ work' = s
           /\ pc' = "fresh"
           /\ UNCHANGED <<jira, file, receipt, approved, backup, fireflow, pass,
                          reply, left, crashes>>

(* The issue as mapped: the search snapshot when the request is not        *)
(* structured, otherwise what fresh_todo or ApprovalLedger.verify read.    *)
Reread == IF Mode = "plain" THEN work ELSE Snapshot(Current)

(* fresh_todo: the status is still To Do.  ApprovalLedger.verify: it is    *)
(* still Approved and the content is the captured one.  build: it maps.    *)
Acceptable == /\ Reread.content \in Mappable
              /\ Mode # "plain" => ready[Current]
              /\ Mode = "approval" => approved[Current] = Reread.content

(* Fault: the fresh read is checked, the search snapshot is sent. *)
AcceptStale == /\ pc = "fresh"
               /\ Acceptable
               /\ pc' = "intent"
               /\ UNCHANGED <<jira, file, receipt, approved, backup, fireflow, todo,
                              work, pass, reply, left, crashes>>

Accept == /\ pc = "fresh"
          /\ Acceptable
          /\ work' = Reread
          /\ pc' = "intent"
          /\ UNCHANGED <<jira, file, receipt, approved, backup, fireflow, todo,
                         pass, reply, left, crashes>>

(* A refusal changes nothing; in approval mode a failed read is one too    *)
(* (JiraError is a ValueError, sync.py:466-467).                           *)
Refuse == /\ pc = "fresh"
          /\ ~Acceptable \/ Mode = "approval"
          /\ work' = NoWork
          /\ pc' = "poll"
          /\ UNCHANGED <<jira, file, receipt, approved, backup, fireflow, todo,
                         pass, reply, left, crashes>>

(* In To Do mode a failed read is a JiraError that run does not catch:     *)
(* the pass ends there.                                                    *)
ReadFails == /\ pc = "fresh"
             /\ Mode = "todo"
             /\ Idle
             /\ UNCHANGED <<jira, file, receipt, approved, backup, fireflow, crashes>>

(* Fault: the intent is not saved. *)
IntentUnsaved == /\ pc = "intent"
                 /\ held' = held \union {Current}
                 /\ pc' = "create"
                 /\ UNCHANGED <<jira, file, receipt, approved, backup, fireflow, todo,
                                work, known, made, reply, left, crashes>>

(* The intent is saved before anything is sent. *)
SaveIntent == /\ pc = "intent"
              /\ intents' = intents \union {work.key}
              /\ held' = held \union {Current}
              /\ pc' = "create"
              /\ UNCHANGED <<jira, entries, queue, receipt, approved, backup,
                             fireflow, todo, work, known, made, reply,
                             left, crashes>>

-----------------------------------------------------------------------------
(* FireFlow.create up to the claim: its checks, the templates request and  *)
(* the first audit record.                                                 *)
CreateChecked == /\ pc = "create"
                 /\ pc' = "claim"
                 /\ UNCHANGED <<jira, file, receipt, approved, backup, fireflow,
                                todo, work, pass, reply, left, crashes>>

CreateRefused == /\ pc = "create"
                 /\ pc' = "failed"
                 /\ UNCHANGED <<jira, file, receipt, approved, backup, fireflow,
                                todo, work, pass, reply, left, crashes>>

(* _mutate: an operation id with any receipt is used up. *)
ClaimRefused == /\ pc = "claim"
                /\ SentAnything(Current)
                /\ pc' = "failed"
                /\ UNCHANGED <<jira, file, receipt, approved, backup, fireflow,
                               todo, work, pass, reply, left, crashes>>

(* Fault: a receipt that is there already is taken over. *)
ClaimAgain == /\ pc = "claim"
              /\ receipt' = [receipt EXCEPT ![Current] = "started"]
              /\ pc' \in {"post", "failed"}
              /\ UNCHANGED <<jira, file, approved, backup, fireflow, todo, work, pass,
                             reply, left, crashes>>

(* Fault: no started receipt, only a result afterwards. *)
ClaimUnwritten == /\ pc = "claim"
                  /\ ~SentAnything(Current)
                  /\ pc' = "post"
                  /\ UNCHANGED <<jira, file, receipt, approved, backup, fireflow, todo,
                                 work, pass, reply, left, crashes>>

(* Otherwise the started receipt is created; writing it or the next audit  *)
(* record may still fail, with the receipt in place.                       *)
Claim == /\ pc = "claim"
         /\ ~SentAnything(Current)
         /\ receipt' = [receipt EXCEPT ![Current] = "started"]
         /\ pc' \in {"post", "failed"}
         /\ UNCHANGED <<jira, file, approved, backup, fireflow, todo, work, pass,
                        reply, left, crashes>>

(* The POST.  FireFlow makes the change request or not; the bus sees an    *)
(* answer, with or without a usable request id, or an exception.           *)
Post == /\ pc = "post"
        /\ sends' = [sends EXCEPT ![Current] = @ + 1]
        /\ \/ /\ tickets' = [tickets EXCEPT ![Current] = @ + 1]
              /\ \/ reply' \in {"id", "noid"} /\ pc' = "result"
                 \/ UNCHANGED reply /\ pc' = "failed"
           \/ UNCHANGED <<tickets, reply>> /\ pc' = "failed"
        /\ UNCHANGED <<jira, file, receipt, approved, backup, todo, work, known,
                       held, made, left, crashes>>

(* The result receipt; the audit record after it may fail too. *)
WriteResult == /\ pc = "result"
               /\ receipt' = [receipt EXCEPT ![Current] = reply]
               /\ pc' \in {"created", "failed"}
               /\ UNCHANGED <<jira, file, approved, backup, fireflow, todo, work,
                              pass, reply, left, crashes>>

(* The result receipt cannot be written whole: a torn one does not count   *)
(* as a result (reconcile._load).                                          *)
ResultFails == /\ pc = "result"
               /\ pc' = "failed"
               /\ UNCHANGED <<jira, file, receipt, approved, backup, fireflow,
                              todo, work, pass, reply, left, crashes>>

-----------------------------------------------------------------------------
(* Back in run: failures.clear, a save of its own, then state.record. *)
ClearFailure == /\ pc = "created"
                /\ queue' = [queue EXCEPT ![work.key] = NoFailure]
                /\ pc' = "record"
                /\ UNCHANGED <<jira, entries, intents, receipt, approved, backup,
                               fireflow, todo, work, pass, reply, left, crashes>>

RecordEntry == /\ pc = "record"
               /\ entries' = [entries EXCEPT ![work.key] = reply]
               /\ known' = known \union {Current}
               /\ made' = made + 1
               /\ work' = NoWork
               /\ reply' = "none"
               /\ pc' = "poll"
               /\ UNCHANGED <<jira, intents, queue, receipt, approved, backup,
                              fireflow, todo, held, left, crashes>>

(* create raised: the receipts say whether it may ever be tried again. *)
RecordFailure ==
  /\ pc = "failed"
  /\ queue' = [queue EXCEPT ![work.key] =
                 Failed(@, "create", ~SentAnything(Current))]
  /\ work' = NoWork
  /\ reply' = "none"
  /\ pc' = "poll"
  /\ UNCHANGED <<jira, entries, intents, receipt, approved, backup, fireflow, todo,
                 pass, left, crashes>>

EndPoll == /\ pc = "poll"
           /\ todo = {}
           /\ Idle
           /\ UNCHANGED <<jira, file, receipt, approved, backup, fireflow, crashes>>

-----------------------------------------------------------------------------
(* Fault: reconciliation overlooks the intents. *)
LocalKeysWithoutIntents == {k \in Key : entries[k] # "absent" \/ queue[k] # NoFailure}

(* Reconciliation looks at every key the state file knows and at those a   *)
(* search of Jira returned, if it answered.                                *)
LocalKeys == intents \union {k \in Key : entries[k] # "absent" \/ queue[k] # NoFailure}

BeginReconcile == /\ pc = "idle"
                  /\ \E S \in SUBSET {i \in Issue : ready[i]} :
                       left' = LocalKeys \union {keyOf[i] : i \in S}
                  /\ pc' = "reconcile"
                  /\ UNCHANGED <<jira, file, receipt, approved, backup, fireflow,
                                 todo, work, pass, reply, crashes>>

(* Fault: a started receipt is read like a result. *)
ReceiptOfStarted(k) == IF k \notin intents /\ entries[k] = "absent" THEN "none"
                       ELSE IF receipt[Owner[k]] = "started" THEN "id"
                       ELSE receipt[Owner[k]]

(* The receipts of a key: by the operation id saved with its intent or     *)
(* entry.  Without one operation_for makes an id from the key, for which   *)
(* no receipt was ever written.                                            *)
ReceiptOf(k) == IF k \in intents \/ entries[k] # "absent"
                THEN receipt[Owner[k]] ELSE "none"

(* An unfinished receipt parks the key.  A finished one restores a lost    *)
(* entry or the id it lacks, and settles a create failure if it has an id. *)
ReconcileKey(k) ==
  LET seen == ReceiptOf(k) IN
  /\ pc = "reconcile"
  /\ k \in left
  /\ left' = left \ {k}
  /\ entries' = [entries EXCEPT ![k] =
                   IF \/ @ = "absent" /\ seen \in {"id", "noid"}
                      \/ @ = "noid" /\ seen = "id"
                   THEN seen ELSE @]
  /\ queue' = [queue EXCEPT ![k] =
                 IF seen = "started" /\ ~Parked(k) THEN Failed(@, "create", FALSE)
                 ELSE IF seen = "id" /\ @.stage = "create" THEN NoFailure ELSE @]
  /\ UNCHANGED <<jira, intents, receipt, approved, backup, fireflow, pc, todo, work,
                 pass, reply, crashes>>

EndReconcile == /\ pc = "reconcile"
                /\ left = {}
                /\ Idle
                /\ UNCHANGED <<jira, file, receipt, approved, backup, fireflow, crashes>>

-----------------------------------------------------------------------------
(* Fault: anything parked is released. *)
ReleaseAny(k) == /\ pc = "idle"
                 /\ Parked(k)
                 /\ queue' = [queue EXCEPT ![k] = Released(@)]
                 /\ UNCHANGED <<jira, entries, intents, receipt, approved, backup,
                                fireflow, pc, todo, work, pass, reply, left, crashes>>

(* Fault: the attempts of a released key start below zero. *)
ReleaseBelowZero(k) == /\ pc = "idle"
                       /\ queue[k].hold = "exhausted"
                       /\ queue' = [queue EXCEPT ![k].attempts = -1, ![k].hold = "due"]
                       /\ UNCHANGED <<jira, entries, intents, receipt, approved,
                                      backup, fireflow, pc, todo, work, pass, reply,
                                      left, crashes>>

(* release: a person lets a parked key be tried again, but never one whose *)
(* outcome is unknown.                                                     *)
Release(k) == /\ pc = "idle"
              /\ queue[k].hold = "exhausted"
              /\ queue' = [queue EXCEPT ![k] = Released(@)]
              /\ UNCHANGED <<jira, entries, intents, receipt, approved, backup,
                             fireflow, pc, todo, work, pass, reply, left, crashes>>

(* next_attempt arrives. *)
Elapse(k) == /\ queue[k].hold = "waiting"
             /\ queue' = [queue EXCEPT ![k].hold = "due"]
             /\ UNCHANGED <<jira, entries, intents, receipt, approved, backup,
                            fireflow, pc, todo, work, pass, reply, left, crashes>>

(* The mirror half of a poll shares the queue: for an entry with an id and *)
(* not blocked it may clear the failure or record one of its own, one      *)
(* whose outcome is unknown included.                                      *)
MirrorKey(k) ==
  /\ pc = "idle"
  /\ entries[k] = "id"
  /\ ~Blocked(k)
  /\ queue' \in {[queue EXCEPT ![k] = f] :
                   f \in {NoFailure, Failed(queue[k], "mirror", TRUE),
                          Failed(queue[k], "mirror", FALSE)}}
  /\ UNCHANGED <<jira, entries, intents, receipt, approved, backup, fireflow, pc,
                 todo, work, pass, reply, left, crashes>>

(* The process is killed; receipts and state file keep what was written.   *)
Crash == /\ pc # "idle"
         /\ crashes < MaxCrashes
         /\ crashes' = crashes + 1
         /\ Idle
         /\ UNCHANGED <<jira, file, receipt, approved, backup, fireflow>>

(* An operator copies the state file, and later puts the copy back.        *)
TakeBackup == /\ Restores
              /\ pc = "idle"
              /\ backup = {}
              /\ backup' = {[entries |-> entries, intents |-> intents, queue |-> queue]}
              /\ UNCHANGED <<jira, file, receipt, approved, fireflow, pc, todo,
                             work, pass, reply, left, crashes>>

RestoreBackup == /\ pc = "idle"
                 /\ \E f \in backup : /\ entries' = f.entries
                                     /\ intents' = f.intents
                                     /\ queue' = f.queue
                 /\ backup' = {}
                 /\ UNCHANGED <<jira, receipt, approved, fireflow, pc, todo, work,
                                pass, reply, left, crashes>>

-----------------------------------------------------------------------------
PollStep == \/ SearchRest \/ SearchFails
            \/ \E s \in todo : PassOver(s) \/ Take(s)
            \/ Accept \/ Refuse \/ ReadFails \/ SaveIntent
            \/ CreateChecked \/ CreateRefused \/ ClaimRefused \/ Claim
            \/ Post \/ WriteResult \/ ResultFails
            \/ ClearFailure \/ RecordEntry \/ RecordFailure
            \/ EndPoll

ReconcileStep == EndReconcile \/ \E k \in left : ReconcileKey(k)

Operator == \/ \E i \in Issue : Capture(i)
            \/ \E k \in Key : Release(k)
            \/ TakeBackup \/ RestoreBackup

Next == \/ Jira \/ Operator
        \/ BeginPoll \/ PollStep
        \/ BeginReconcile \/ ReconcileStep
        \/ \E k \in Key : Elapse(k) \/ MirrorKey(k)
        \/ Crash

Spec == Init /\ [][Next]_vars

(* A started command runs on: only a kill stops it, and those are counted. *)
(* The scheduler and the timers start polls and reconciliations for ever;  *)
(* each competes with the other commands for the lock, hence strong.       *)
Fairness == /\ WF_vars(PollStep)
            /\ WF_vars(ReconcileStep)
            /\ SF_vars(BeginPoll)
            /\ SF_vars(BeginReconcile)

FairSpec == Spec /\ Fairness

(* For the cap: also, Jira answers every page of a search again and again, *)
(* and time passes.                                                        *)
SearchComplete == /\ SearchRest
                  /\ \A i \in Issue : ready[i] => Snapshot(i) \in todo'

AnsweredSpec == /\ FairSpec
                /\ SF_vars(SearchComplete)
                /\ \A k \in Key : WF_vars(Elapse(k))
-----------------------------------------------------------------------------
Failure == FailureOf({"create", "mirror"})

File == [entries : [Key -> {"absent", "noid", "id"}], intents : SUBSET Key,
         queue : [Key -> Failure]]

Snapshots == [key : Key, content : Content]

(* The shape of every variable of the intake. *)
TypeOK ==
  /\ keyOf \in [Issue -> Key]
  /\ content \in [Issue -> Content]
  /\ ready \in [Issue -> BOOLEAN]
  /\ [entries |-> entries, intents |-> intents, queue |-> queue] \in File
  /\ receipt \in [Issue -> {"none", "started", "noid", "id"}]
  /\ approved \in [Issue -> Content \union {None}]
  /\ backup \in SUBSET File
  /\ sends \in [Issue -> Nat]
  /\ tickets \in [Issue -> Nat]
  /\ pc \in {"idle", "search", "poll", "fresh", "intent", "create", "claim", "post",
             "result", "created", "record", "failed", "reconcile"}
  /\ todo \in SUBSET Snapshots
  /\ work \in Snapshots \union {NoWork}
  /\ known \in SUBSET Issue
  /\ held \in SUBSET Issue
  /\ made \in Nat
  /\ reply \in {"none", "noid", "id"}
  /\ left \in SUBSET Key
  /\ crashes \in Nat

-----------------------------------------------------------------------------
(* Safety.                                                                 *)

(* Whatever is edited, moved, released, killed, retried or restored from a *)
(* backup, at most one create is ever sent for an issue (queue.py:8-15).   *)
AtMostOneSend == \A i \in Issue : sends[i] <= 1

(* A mirrored entry names a request FireFlow made, once, and whose answer  *)
(* is on this host: neither a crash nor reconciliation can invent an id.   *)
EntryHasRequest == \A k \in Key : entries[k] = "id" =>
                      receipt[Owner[k]] = "id" /\ tickets[Owner[k]] = 1

(* No change that may have reached FireFlow is ever forgotten: while its   *)
(* receipt exists the state file has an intent that leads to it            *)
(* (sync.py:494-499).                                                      *)
BegunIsOnRecord == \A i \in Issue : SentAnything(i) =>
                      \E k \in intents : Owner[k] = i

(* In approval mode what is sent is what the administrator captured, even  *)
(* when the issue is edited between the search and the send                *)
(* (approval_gate.py:110-123).                                             *)
SentAsApproved ==
  [][Mode = "approval" =>
       \A i \in Issue : sends'[i] > sends[i] => work.content = approved[i]]_vars

(* A create whose outcome is unknown leaves the queue only when a receipt  *)
(* names the request: no release, retry or later success of another step   *)
(* drops it (queue.py:153-165, reconcile.py:124-131).                      *)
UnknownStaysParked ==
  [][\A k \in Key : queue[k].stage = "create" /\ queue[k].hold = "unknown"
                       /\ queue'[k] # queue[k] => receipt[Owner[k]] = "id"]_vars

(* A create is parked for a person only while the state file has no        *)
(* request for that issue under any of its keys: two search results for    *)
(* one moved issue do not raise a false alarm.                             *)
ParkedOnlyUnrecorded ==
  [][\A k \in Key : queue'[k].stage = "create" /\ queue'[k].hold = "unknown"
                       /\ queue[k].hold # "unknown"
       => \A x \in Key : Owner[x] = Owner[k] => entries[x] # "id"]_vars

(* A failure that holds an issue holds it under every key it ever had: no  *)
(* attempt starts while a failed attempt under an old key waits or is      *)
(* parked (sync.py:429-433).                                               *)
HeldAcrossMoves ==
  [][pc = "intent" /\ pc' = "create" =>
       \A k \in intents : Owner[k] = Current => ~Blocked(k)]_vars

(* When reconciliation has gone through its keys, every change begun is    *)
(* either recorded, with its id if the receipt has one, or parked.         *)
ReconcileSettles ==
  [][EndReconcile =>
       \A k \in intents :
         CASE ReceiptOf(k) = "started" -> Parked(k)
           [] ReceiptOf(k) = "noid" -> entries[k] # "absent"
           [] ReceiptOf(k) = "id" -> entries[k] = "id" /\ queue[k].stage # "create"
           [] OTHER -> TRUE]_vars

(* To FireFlow the intake is a Submission: begun on record before the only *)
(* send, finished only on an answer.                                       *)
Phase == [i \in Issue |-> CASE receipt[i] = "none" -> "unsent"
                            [] receipt[i] = "started" -> "begun"
                            [] OTHER -> "finished"]

Abstract == INSTANCE Submission WITH phase <- Phase
SubmissionSpec == Abstract!Spec

(* To an issue key the failure queue is a RetryQueue, whichever of intake, *)
(* mirror, reconciliation and person comes to its entry: nothing that is   *)
(* held back is tried, counted again or dropped (queue.py:79-165,          *)
(* sync.py:449-451, reconcile.py:101-163).  Here all waits are one unit.   *)
Queue(k) == INSTANCE RetryQueue WITH
              Base <- 1, Factor <- 1, Cap <- 1,
              Stages <- {"create", "mirror"}, SlowStages <- {"create", "mirror"},
              Creates <- {"create"},
              state <- IF queue[k].hold = "due" THEN "waiting" ELSE queue[k].hold,
              stage <- queue[k].stage,
              attempts <- queue[k].attempts,
              wait <- IF queue[k].hold = "waiting" THEN 1 ELSE 0,
              tries <- queue[k].attempts
QueuesSpec == /\ \A k \in Key : Queue(k)!QueueInit
              /\ [][\A k \in Key : [Queue(k)!QueueNext]_(Queue(k)!queue)]_vars

-----------------------------------------------------------------------------
(* Liveness.                                                               *)

(* A change that may have reached FireFlow ends recorded or parked, even   *)
(* if the process is killed in the middle: nobody's request goes quiet.    *)
BegunIsSettled ==
  \A i \in Issue : SentAnything(i) ~>
    \E k \in Key : /\ Owner[k] = i
                   /\ entries[k] # "absent" \/ Parked(k)

(* What the cap holds back waits for a later pass and is never dropped     *)
(* (examples/jira-sync.json:56): an issue that stays ready is sent or its  *)
(* attempts end before a person.                                           *)
EveryoneIsServed ==
  \A i \in Issue : <>[]ready[i] =>
    <>(SentAnything(i) \/ \E k \in Key : Owner[k] = i /\ Parked(k))
=============================================================================
