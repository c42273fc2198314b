# A verification of jira-fireflow-bus in TLA+

The bus turns Jira issues into AlgoSec FireFlow change requests, carries Jira
comments and status changes to FireFlow, and carries FireFlow's status back to
Jira. It is a set of short commands (`poll`, `mirror`, `reconcile`, `release`,
...) that share one state file and a directory of receipts on one host. What
makes it hard is not concurrency inside a command but everything around it:
two remote systems that can carry out a request and lose the answer, people who
edit and move the issues meanwhile, a scheduler that kills a command that takes
too long, and operators who release, acknowledge and restore. FireFlow has no
idempotency key, so a second create is a second change request on a firewall.
Around the bus there is the container that runs it, the installer that replaces
that container, and the command that makes a Jira Space ready for it: each a
sequence of steps that can fail or be killed half way, with only what it left
behind to go on from.

This directory models those parts as TLA+ modules, checks them with TLC on small
instances, and proves the central properties with TLAPS for instances of any
size. `PROJECT.json` has the machine-readable side: which definition models
which lines, the runs, the faults each property is tested with, the hazards of
the code, the findings. Paths below are in `src/algosec_jira_bus/` unless they
start with another directory.

## The system

### Components

| Component | Code | State it keeps | Operations | Modelled in |
|---|---|---|---|---|
| State file, lock, CLI sessions | `sync.py` `State`, `bus.py` `session` | `jira-sync.json`, its `.lock` | lock, load, change, save, unlock; unlocked look | `StateFile`, `SerialStore` |
| Intake | `sync.py` `run` | `entries`, `intents` | one poll: search, skip, defer, cap, fresh read, intent, create, record | `Intake`, `Submission` |
| Failure queue | `queue.py` | `failures` | record, clear, blocked, release | `Failures` (one entry), `Intake` and `Mirror` (what it holds back), `RetryQueue` (what all of them keep to, and when) |
| Approval gate | `approval_gate.py` | captured approvals | capture, verify | `Intake` |
| FireFlow adapter, create | `fireflow.py` `create`, `_mutate`, `_receipt` | `<id>.started.json`, `<id>.result.json` | check, claim, POST, result | `Intake`, `Submission` |
| Reconciliation | `reconcile.py` | none of its own | compare state, receipts and Jira; restore, park, clear | `Intake` |
| Jira updates | `jira_updates.py` | `jira_sync` of an entry | read, bootstrap, pend, deliver, consume | `JiraUpdates`, `Delivery` |
| FireFlow adapter, RT | `fireflow.py` `_rt_*` | receipts of RT operations | replay, claim, POST, verify, result | `JiraUpdates` |
| Operator's way out | `bus.py` `acknowledge_jira_update`, `retry_jira_update`, `release` | the above | acknowledge, retry, release | `JiraUpdates`, `Intake` |
| Mirror | `sync.py` `mirror` | `status`, `pending_fields`, `pending_transition`, ... of an entry | deliver fields, finish a transition, read, comment, record, transition | `Mirror`, `Outbox` |
| Jira client | `jira.py` | none | paged search, bounded tail | `Intake` (search), `IssueTail` |
| Scheduler, health | `packaging/docker/scheduler.py` | results of the actions, `health.json` | doctor, poll, reconcile, time out, stop, report | `Scheduler`; `Service` with the queue |
| Installer | `packaging/docker/install-docker.sh`, `upgrade-config.py` | two containers, `bus.json` and its backup | upgrade, roll back | `Upgrade` |
| Provisioning of Jira | `jira_provision.py` | none; Jira's objects | look up, create, put right, assign, check | `JiraProvision` |
| Audit log | `runtime.py`, `journal.py` | `audit.jsonl` and rotations | append, rotate | not modelled |
| Transport, mapping, configuration, provisioning of FireFlow, wizards, forms | the rest | none that changes while the bus runs | | not modelled, reasons below |

### How they interact

- Every writing command runs in `bus.session`: it waits for an exclusive flock,
  loads the state file, and keeps the lock until it ends. `queue` and `doctor`
  load without the lock.
- Each change is saved at once (`State.save`): temporary file, fsync, replace.
- `run` saves an *intent* before it calls the adapter; the adapter creates a
  *started* receipt before the POST and a *result* receipt after the answer.
  Intake, queue and reconciliation all decide from these three.
- The queue is shared: a failure of any stage (create, read, comment,
  transition, fields) is one entry per issue key with one count of attempts.
- The operation id of a create is made from Jira's immutable issue id; entries,
  intents and failures are kept under the key, which changes when an issue moves.
- `sync_updates` saves a *pending* delivery before it calls the adapter and
  moves the cursor in the same save that removes it. Its events come from
  `_issue_tail`, several requests to a Jira that changes between them.
- The scheduler starts one command at a time, cuts one that takes too long, and
  writes how it ended to `health.json`; the exit code of a poll says whether
  anything in the queue waits for a person. The Docker probe sees only that file.
- The installer replaces the container and `bus.json` one after the other, and
  on failure puts both back. `prepare_jira` keeps nothing: each run starts from
  what Jira has.

### Which behaviours are hard

Kills between any two of those saves; a POST that is carried out and whose
answer is lost; an issue moved or edited between search, approval and send; a
search that returns one issue under two keys; releases, retries and
acknowledgements by people in any state; a restored old copy of the state file;
a receipt half written; deletes in the history that is read, between two pages of
it as well; a poll that is cut after it saved the queue and before it reported;
an upgrade whose way back fails too; a Space half prepared, whose missing request
arrives during the next run. The full list, each
at its line, is `hazards` in `PROJECT.json`.

### What makes each part correct

- *State file*: no saved update is ever lost; no reader sees half a document.
- *Intake*: at most one create is sent for an issue, ever; it is what was
  approved; what may have been sent is on record and ends recorded or before a
  person; one issue's trouble does not touch another's.
- *Queue*: work is neither tried for ever nor given up early, and an unknown
  outcome is never retried by the machine or by `release`.
- *Jira updates*: each event is applied at most once, in order, none is passed
  over, history from before the link is not replayed.
- *Mirror*: Jira ends with FireFlow's latest status; a transition is not lost and
  not overtaken by a later status; a comment is not repeated.
- *Tail of an issue's history*: an event the cursor passes was read.
- *Service*: the probe tells of work that waits for a person, of nothing else for
  ever, and never of an age that only the longest actions in a row explain.
- *Upgrade*: the version that was in service and its configuration are always
  somewhere; what runs, runs with its own configuration; a run that ends leaves a
  bus at work.
- *Provisioning of Jira*: the Space can be used at any moment; *ready* means ready;
  the marked schemes that are not ours are left alone; repeating the command gets
  there.

## The modules and how they correspond to the code

**`SerialStore`** is the abstract document: a set of updates that only grows,
and the set of its published versions. **`StateFile`** is the real thing: `pc`
of each process, the flock's `holder`, the file (`disk`), each process's
`State.data` (`memory`), the temporary file. One action per system-visible step
of `session` and `save`: `Lock`, `Load`, `Change`, `WriteTemporary`, `Replace`,
`SaveFails`, `Unlock`, `Look`, `Die`. A document is abstracted to the set of
updates it carries. `SerialSpec` says `StateFile` implements `SerialStore`.

This result is what the other modules build on: commands are serial, a saved
change is durable, so they model one command at a time and write the state file
in place, with a kill possible between any two steps.

**`Submission`** is what FireFlow should see: begun on record, sent once,
finished on an answer. **`Intake`** models `sync.run` with the adapter's create,
the queue, reconciliation and the operator commands:

| Variables | In the code |
|---|---|
| `keyOf`, `content`, `ready` | Jira: key, request fields and status of an issue |
| `entries`, `intents`, `queue` | members of `jira-sync.json`; an entry is absent, without an id, or with one |
| `receipt` | `none`, `started`, `noid` (a result without a request id), `id` |
| `approved`, `backup` | captured approvals; a copy of the state file |
| `sends`, `tickets` | POSTs sent; requests FireFlow made |
| `pc`, `todo`, `work`, `known`, `held`, `made`, `reply`, `left` | locals of the running command |
| `crashes` | history |

The actions of `PollStep` follow `run` from the search (two reads, since Jira
changes between pages) through `PassOver`/`Take` (skip, defer, cap), `Accept`/
`Refuse`/`ReadFails` (the fresh read of each mode), `SaveIntent`, the adapter
(`CreateChecked`, `CreateRefused`, `Claim`, `ClaimRefused`, `Post`,
`WriteResult`, `ResultFails`) to `ClearFailure`, `RecordEntry` or
`RecordFailure`. `ReconcileKey` is one key's turn of `reconcile` with heal.
`Edit`, `Move`, `ChangeStatus` are people in Jira; `Capture`, `Release`,
`TakeBackup`, `RestoreBackup` operators; `Elapse` is `next_attempt` arriving;
`MirrorKey` is what the mirror does to the shared queue; `Crash` the kill.
Content is a member of a small set, and `Mappable` says which of it `build`
can turn into a request. The queue's times are abstracted to waiting/due, and
`RetryQueue` has them.

**`Failures`** is one entry of the queue without its clock: what `record` and
`release` make of it, and when an issue is parked or blocked. `Intake` and
`Mirror` extend it.

**`RetryQueue`** is one entry with its clock, kept as what is left of the wait
(`wait`): how long each wait is (`Delay`), how attempts are counted, when the
entry is parked, what a release gives, and what reconciliation may do to it
(`FindUnknown`, `Settle`). It says nothing of when an attempt is made. Everything
that touches an entry keeps to it: `Intake` for the entry of each key
(`QueuesSpec`), `Mirror` and `Service`. Time is a unit there or a schedule, as the
module has it.

**`Scheduler`** is the container: `phase` is where `serve` stands, `child`
the process it watches and `elapsed` for how long, `results` and `health` are
`Health.value` and its file. `Record` is `Health.record`, `Exit`, `Cut` and
`KillChild` are the ways `Runner.run` ends, `After` the order of `serve`; `Tick`
lets time pass but never past a moment at which the code would act.
**`Service`** composes the two: a running poll looks at the entry (`Deferred`,
`Try`), the daily reconciliation may park it or settle it (`Reconciles`), the exit
code of either is `Outstanding` when its pass is complete, and one that is cut
leaves the queue saved and the health file as it was.

**`JiraUpdates`** models `sync_updates` for one linked issue with its two
streams and the RT adapter under it. An event is its numeric id; `cursor` is
`jira_sync` of one stream (`seen`, `pending`, the number of the operator's
retry, whether it is parked), `receipt` is per operation id (stream, event,
retry), `applied` what FireFlow's history shows. `NextStream`/`Over` follow the
loop and the `except` around it. An unknown outcome parks whatever is pending
in either stream, as `jira_updates.py:262-265` does. A torn result receipt is a
value of `receipt` (`Tears` turns it on). `Acknowledge` and `Retry` require what
the person is asked to look up in FireFlow: whether the event is there. A read of
a stream is one step here; **`IssueTail`** has it request by request: `events` is
what Jira has, `start`, `total` and `result` are the locals of `_issue_tail`, and
`Read` takes one page (`Jumps`, `Broken`, `Enough`, `Covered` are its conditions)
while `Add` and `Delete` happen between pages; `Hydrate` is the read of the
comments' properties; `cursor` is the durable high-water mark that the caller
moves. `newestFirst` tells the comments from the changelog.

**`Mirror`** models `sync.mirror` for one linked issue; issues share nothing
there but the pass, which has no cap, and an error of one is caught in its turn.

| Variables | In the code |
|---|---|
| `now` | what `fireflow.get` would show: status, owner, evidence |
| `board`, `shown`, `told` | Jira: place of the card, result fields, last comment |
| `byHand` | moves by people that `sync_updates` has not yet delivered |
| `entry` | `status` and `workflow_details` (`seen`), `workflow_target`, `pending_transition`, `pending_fields`, `delivered_fields`, `mirror_suppression` |
| `failure` | the issue's entry in the queue |
| `pc`, `obs`, `retried` | locals of the pass: what was read, `retried_transition` |
| `handled`, `doubled`, `crashes` | history |

An entry starts as a create or a reconciliation leaves it, or as one that was
written before targets and pending transitions were saved (`sync.py:822`). The actions follow the loop body: `Begin`
(not blocked), `PutFields`/`RecordFields`, `RetryMove`/`Unmapped`/`OwesNothing`,
`Read`, `SaveFields`, then `Unsuppress`, `Retarget`, `NothingNew` or `Comment`
and `RecordComment`, with `Transition`/`RecordTransition` where something is
owed. Each call has its outcomes: `CommentRefused` (a 4xx: nothing happened, try
again) and `CommentUnknown` (anything else: it may have, park), and likewise for
transitions; a failed PUT of fields may have been carried out and is repeated.
Jira only makes the moves in `Offered`. `Sync` is what `sync_updates` does as
far as the mirror sees it, in one step: `JiraUpdates` has the delivery itself.

**`Outbox`** is what those who look at the Jira issue may rely on (`OutboxSpec`):
fields and a place on the board are owed on file before they are sent, and struck
off only after Jira has them; a status is reported only when nothing is owed, and
recorded together with what it makes the bus owe; a card that people moved is owed
no new place until the next report. **`Delivery`** is the same for the way to
FireFlow, one stream at a time (`DeliverySpec`): a delivery is open on record before
it is sent, what is open is sent once, the mark moves past it only when FireFlow has
it, and what comes next is the next that can be read. Neither says anything of
receipts, parked work, attempts or which call failed; that is what `Mirror` and
`JiraUpdates` add, and where their steps are many or in doubt, the abstract ones are
one.

**`Upgrade`** has one action per command of `install-docker.sh --upgrade`:
`Stop`, `Rename`, `Save` and `Migrate` (`upgrade-config.py apply`), `Run`, `Watch`,
`InstallHelpers`, `Discard`, `RemovePrevious`, and the way back, `Remove`,
`Restore`, `Unlink`, `PutBack`, `StartAgain`. `pc` is the next command; each goes
well or fails (`Goes`, `Fault`) and says where the script goes on. A version
stands for an image and for the configuration migrated for it, so `bus`,
`previous`, `config` and `backup` hold versions. `Kill` ends the script anywhere;
`Repair` and `Tidy` are what it tells the administrator to do. Its checks, the
staged copy and the new image's doctor come before anything is touched, so
`Begin` follows them.

**`JiraProvision`** has the requests of `prepare_jira` as one list, `Tasks`, in
the order of the code. A run looks at its task (`Look`: refuse, report what is
missing, decide to send, or go on) and sends its request (`Send`); `Lose` is a
request without an answer, which Jira may carry out at once, never, or later
(`flying`, `Land`), `Kill` a run that is cut. `made`, `holds`, `assigned`,
`shared` are Jira: per kind of object what bears the name, the facts that hold, the
schemes the Space uses, what is used elsewhere. Two facts no run looks at: whether
the screen scheme shows our screen and whether the type screen scheme leads to our
screen scheme (`Maps`). The requests that make these schemes make them so; those
that `Beforehand` puts there before the first run, somebody else's, do not. The
Space itself, the work type, the fields and the objects of the screens are accepted
as they are found; `Marked` lists the kinds that must carry the marker. `todo` is
what the run has decided to assign, since the code decides that long before it does
it. `People` change the Space and use it: anything a run made may drift or be
unassigned, on the screens as elsewhere, and `Mend` puts the map of a scheme of the
screens right. The history variable `theirs` remembers what is not so because of
people: what they took away, or never had right, and no run has put right since.

`MC*.tla` give TLC its instances, `*Proofs.tla` hold the theorems. Definitions
whose comment calls them a *fault* are deliberately wrong variants of an action
or operator; no specification uses them. For each property one is named in
`PROJECT.json` that breaks it under the property's own run.

## What is checked

| Run | Question | Instance |
|---|---|---|
| `state_file` | Does the flock make the file a serial document, whatever processes die where? | 2 writers with 2 updates each, 1 unlocked reader |
| `intake_moves` | Is a create sent once, as approved, and never forgotten, while the issue is edited and moved? Does each key's entry in the queue keep the queue's promise? | approval mode, 1 issue with 2 keys, 2 contents, 2 attempts, 1 kill |
| `intake_pair` | Do two issues leave each other alone, does a begun create settle, is a capped issue served? | no structured mapping, 2 issues, cap 1, 1 attempt, 1 kill, fairness |
| `intake_restore` | Do the receipts alone prevent a second create after an old state file is put back? | To Do mode, 1 issue with 2 keys, a content that does not map |
| `jira_updates` | Is each stream a `Delivery`, once, in order and none passed over, and does each event arrive? | 2 comments, 1 status, deletions, torn receipts, 1 kill, 1 retry by a person, fairness |
| `tail` | Is every event that the cursor passes read, whatever happens between pages? | comments and changelog, 6 events, pages of at most 2, a tail of 4, fairness |
| `mirror` | Is the mirror an `Outbox`, and do card, comment and fields end with FireFlow's latest status, told once? | 1 issue, 2 statuses in 3 observations, 3 places, an outcome rule, 2 attempts, 1 move by hand, 1 kill, fairness |
| `service` | Is failing work tried as often as promised, does the probe tell the truth, does it recover? | 1 entry, 4 attempts, 2 stages, 2 faults, units of 30 seconds, fairness |
| `upgrade` | Is there always a way back, and is the old or the new bus at work at the end? | 3 versions, 3 failing commands, 2 kills |
| `provision` | Is the Space usable throughout, is *ready* true, does repeating the command get there? | 2 fields, 1 cut run, 1 change by hand, fairness |

The properties, by hazard:

- *Lost or repeated sends*: `AtMostOneSend`, `SubmissionSpec`, `BegunIsOnRecord`,
  `SentOnlyIfAbsent`, `DeliverySpec`, `CommentedOnce`.
- *Stale data*: `SentAsApproved` (edited after the search or the capture),
  `HeldAcrossMoves` and `ParkedOnlyUnrecorded` (moved), `SessionIsCurrent`,
  `ReaderSeesSaved`.
- *Operators and recovery in any state*: `UnknownStaysParked`,
  `ReconcileSettles`, `EntryHasRequest`, `BaselineNotReplayed`, `NothingSkipped`.
- *Two systems that move on meanwhile*: `OutboxSpec`, `CardFollows`,
  `FieldsFollow`.
- *History that changes while it is read*: `NothingOvertaken`, `EventsAreRead`.
- *Limits and what the probe says*: `AttemptsAreCounted`, `QueuesSpec`,
  `ProbeIsCurrent`, `ParkedIsSeen`.
- *Steps of an upgrade that fail*: `NothingLost`, `RunsWithItsConfig`,
  `CanTryAgain`, `EndsInService`.
- *A Space half prepared*: `UsableThroughout`, `ReadyMeansPrepared`,
  `OthersUntouched`.
- *Progress*: `BegunIsSettled`, `EveryoneIsServed`, `EventsArrive`,
  `EventsAreRead`, `CardFollows`, `FieldsFollow`, `WaitEnds`, `Recovers`, `Converges`;
  `WritesAreReconciled` does not hold (`find_torn`).

`OutOfReach`, `NothingOlder` and `blind` in `IssueTail`, `Obstacle` and the
excuses drawn from `theirs` in `JiraProvision`, and `Leaves` in `Upgrade` name the cases in which the property is
not claimed; each is a case that the code refuses aloud or that is listed below.

### Bounds, and why they are enough

- *One or two issues, two keys*: receipts are per issue, state is per key; the
  only coupling between issues is the pass (cap, order, a read that ends it) and
  its `known`/`held` sets, which two issues exercise. Two keys of one issue
  reach every old-key/new-key combination of intent, entry and failure.
- *Attempts 2 (1 in the pair)*: an entry that waits, is due, and is exhausted
  all occur. `AttemptsAreCounted` is proved for every schedule, the real eight
  attempts among them.
- *`MaxCrashes` 1*: a kill at every point, then recovery with everything else
  that may happen. The proofs put no bound on kills.
- *`MaxEvents`, `MaxRetries`*: two comments are needed for order and for a
  deleted event between cursor and pending; one status for coupling the streams.
  One retry gives two operation ids for one event. The code allows ten.
- *`MaxUpdates` 2*: one update that is saved and one that a failing save leaves
  in memory.
- *Mirror's observations*: two with the same status and other evidence (details
  changed, status not), and a status that an outcome rule decides, with and
  without its evidence. Two attempts: a failure that is tried again and one that
  parks. `CardFollows` claims nothing once a person has moved the card: see the
  findings for what happens then.
- *Service*: the real time limits of the scheduler in units of 30 seconds, with
  the grace of a child rounded up to one; waits of 2, 4, 6 units in the place of
  minutes to an hour, four attempts in the place of eight. Two faults: a crash
  during what another fault has left.
- *Tail*: pages of two or fewer (Jira may return short ones), a tail of two full
  pages and six events, so that a tail ends in the middle of a page, does not
  reach the cursor, or jumps over the beginning of the changelog.
- *Upgrade*: a third version is the upgrade after a rolled back one. Three
  failing commands: one that starts the way back and two on it; two kills.
- *Provision*: two fields, so that one may be there and the other not; before the
  first run nothing, the Forge app and any one thing more, both schemes of the
  screens, or the Space with all its screens (`MCBeforehand`); one cut run with its
  request in flight, and one change by hand, at any time between two runs and of
  anything, so that a preview can follow it, or the run that repairs it: 0.9
  million states.

All the safety properties are also proved without these bounds.

### Fairness

The scheduler (`packaging/docker/scheduler.py` `Runner.serve`) starts polls and
reconciliations for ever, and the systemd timers do the same. A started command
runs on unless it is killed, hence weak fairness of a command's steps, with kills
bounded. Commands wait for one lock, so each of them is only enabled again and
again: `BeginPoll` and `BeginReconcile` are strongly fair. `EveryoneIsServed`
also needs Jira to answer a complete search again and again and time to pass;
`EventsArrive` and `WritesAreReconciled` need Jira and FireFlow to answer again
and again. Nothing is assumed of people: no release, retry or acknowledgement is
fair, so "or a person is asked" in these properties is where the bus may stop.
`Mirror`'s liveness needs less: its passes run for ever (`Begin`, `PassStep`) and
time passes (`Elapse`). No answer of Jira or FireFlow is assumed, because a call
that keeps failing ends parked, which is "a person is asked".
`Service` assumes that children which do not hang end, that Docker starts the
container again (`--restart unless-stopped`), that a person starts it again after
a stop, and that time passes; the number of faults is bounded, so `Recovers` is about the time
after the last one. `IssueTail` assumes that polls come and pages are answered;
people need not write. `JiraProvision` assumes that a run goes on and that the
administrator repeats the command until it succeeds; lost requests need never arrive.
`Upgrade` has no liveness: `EndsInService` is about the end of a run.
For the same reason `JiraUpdates` is checked without deadlock detection: with
a parked delivery and no further event it really stops.

## What is proved

All proofs hold for every value of the constants that meets the named
assumptions: any number of processes, updates, issues, keys, contents, attempts
and kills. Every safety property that a passing run checks is also stated by a
theorem. Some theorems state properties that no run lists, because another
property of the run says more (`AppliedInOrder` and `FinishedBeforeNext` follow
from what `DeliverySpec` and `OutboxSpec` say, `NoLostUpdate` from `SerialSpec`) or
because the run already asks its one question: `RecordsAreTrue`,
`WritesAreOnRecord`, `TakenOver`, `PreparedLasts`, `ReadsAreWhole`. TLC agreed with
each of them on the instances above.

*State file* (`StateFileProofs`). The inductive invariant is `TypeOK` with
`Exclusive` (a process inside a session holds the lock), `SessionIsCurrent`,
`TemporaryComplete` (a finished temporary file is its writer's whole memory) and
`ReaderSeesSaved`. `SessionIsCurrent` alone is not inductive: another process
might replace the file; `Exclusive` excludes it. From it follow `Current`,
`ReadersSeeSaved`, `NoUpdateIsLost` and `Refinement`
(`Spec => SerialSpec`).

*Intake* (`IntakeProofs`), in all three modes, with moves, edits, releases,
kills, and backups restored:
- `TypeCorrect`: the types, with `WorkTaken` and `ReplyGiven` (which locals are
  set where), since those are needed at each later step.
- `AtMostOnce`: from `Counted`, which ties the number of sends to the receipt
  and the program counter: no receipt, no send; a send is only about to happen
  at `post`, with a started receipt. Receipts are not in the state file, so a
  restored backup does not touch this argument.
- `EntriesAreReal`: `IdsHeld` adds that an entry with an id, in the file or in a
  backup of it, has its result receipt; `ReceiptsStand` that such a receipt stays.
- `Refinement`: every step is a step of `Submission` or changes nothing there.
- `SendsAreApproved`: `HoldsApproved` follows the approved content from the
  fresh read to the POST. No capture can happen in between, because captures
  take the lock.
- `NothingForgotten`: `OnRecord`, only for `Restores = FALSE`: a restored backup
  does lose intents (see the end of "Disagreements").
- `UnknownStays`, `ParksOnlyUnrecorded`, `HoldsAcrossMoves` and `Reconciles`, for
  `Restores = FALSE` as well (the premise of each): `PassInv` says what a pass
  knows of the state file from its begin to its end (`Knows`: every entry's issue
  is known, every blocked key's issue is held), that what it takes up is neither
  known nor, until its intent is written, held (`TakenNew`), that an entry has an
  answer and a failed create an intent (`Grounded`), and that a key that
  reconciliation is done with is settled (`DoneSettled`).
- `QueueRefinement` and `AttemptsCounted`, for `Restores = FALSE`: the entry of every
  key is a `RetryQueue`, whichever of the pass, the mirror, reconciliation and people
  comes to it. `QueueShaped` is what an entry looks like at rest; `NotHeldBack` that
  whatever a pass works on under a key was not held back when it was taken up, and
  has not been since, because no other command runs meanwhile.

*Jira updates* (`JiraUpdatesProofs`), with streams of any length, deletions, torn
receipts, kills and retries: `EachOnceInOrder`, `HistoryStays`, `NonePassedOver`
and `SendsWhatIsAbsent`. None of these is inductive alone. What FireFlow has
(`applied`, `settled`), what the cursor says (`seen`, `pending`), the receipts and
what has been read of Jira are tied together: what is settled is at most the
pending event (`Marked`), so each new one is the greatest (`InOrder`); a settled
pending event has a receipt (`Answered`, `Filed`), so it is never claimed again;
what is read is a beginning of what there is (`Contiguous`, `Complete`), so the
next row skips nothing; `Placed` is what the delivery under way knows.
`DeliveryRefinement` puts the four together: every step is, for each stream, a step
of `Delivery` or none. `SendsAreOnRecord` is what an operator relies on: an event
that FireFlow has and the cursor is not past is the pending one, with a receipt.

*Mirror* (`MirrorProofs`), for any board, rules and observations: `ToldOnce`,
`OwedComesFirst`, `OutboxRefinement`, `FailuresQueued`, `AttemptsCounted` and
`RecordsTrue`. `Placed` is what a pass has in hand at each step. A comment that
Jira has and the entry does not is about to be recorded, or parked with an unknown
outcome, or the debt of one kill (`Told`); telling it again pays the debt. For the
`Outbox`, `Owing` says that what the pass is about to send is what is on file, and
that what Jira has just done and the file does not say yet is known by the program
counter. For the queue, `Shaped` is what its entry looks like, and `Counted` bounds
its attempts while it is tried. `RecordsTrue` is the converse of what is owed: what the file says Jira has,
Jira has. `FieldsTrue` and `CardTrue` are its parts; `Aimed` says that what is owed
or has just been carried out is the target. It claims nothing of a card that a person
has moved.

*Tail* (`IssueTailProofs`), for any page size and tail: `NoneOvertaken`. Comments
come newest first: the last page reaches down to the cursor, and all that was read
is still there when the properties are read (`Hydrate`), so deletions cannot have
moved an event past the pages (`NoGap`): what fills the places above the cursor is
all there is. The changelog only grows at its end, so what is read is an interval.
`ReadsWhole`: between the old cursor and the new one a read gives all that is on the
issue when it ends, although its pages are read at different times (`blind` apart).
That is why a read may be one step of `JiraUpdates`.

*Service* (`ServiceProofs`): `RetriesAreCounted` for every schedule of waits,
`ProbeStaysCurrent` for all time limits with `AgeAssumption` (which the numbers of
the code meet: 340 and 610 seconds in 900), `ParkedStaysSeen`. `Ages` bounds the
age of the health file by how long the phase has lasted; `Reported` says that the
last poll's result is a failure from the time the entry was parked, or that of the
reconciliation that parked it. `QueueIsKept`: to the entry the container is a
`RetryQueue`, and by `QueueKeepsItsPromise` anything that keeps to one tries work as
often as promised, parks it then, and never waits longer than the cap.

*Upgrade* (`UpgradeProofs`), for any number of versions, failures and kills:
`LosesNothing`, `ConfigurationFits`, `NextMayTry`, `RunEndsInService`. Each says what
it excepts: `ConfigurationFits` failing commands of the way back and a failed apply,
after which the old container runs with whatever `bus.json` then holds; `NextMayTry`
kills, commands that failed to remove what stops the next run, and again a failed
apply, whose backup stays although the way back succeeds; `RunEndsInService` failing
commands of the way back. All of it, `RunEndsInService` and the run's `EndsInService`
above all, rests on the assumption below that a Docker command that fails had no
effect: a `docker stop` that reports an error and stops the container all the same
leaves no bus at work. The
invariant says for each stage of the script where the good version is (`Ways`),
which container fits the configuration (`Matches`), that there is one at work or
to start (`Serves`), and what is left to trip over (`Leftovers`). `TakesOverAtWork`:
another version is taken for the one in service only when it is at work with its own
configuration and the one before is still kept.

*Provisioning of Jira* (`JiraProvisionProofs`), for any number of fields, cut runs
and changes: `AlwaysUsable`. What a request leaves stays (`Stays`; without people also
what holds and what is assigned, `Grows`), so an applying run has left what the tasks
before its task leave (`Passed`), and a scheme of the screens that a run made shows
what it should (`Mapped`). When the run comes to assign the field scheme, everything
it needs is there; once it is assigned, or its request in flight, everything is, but
for `theirs` (`Grounded`): whatever takes a fact away enters it there
(`WhatPeopleDo`). `Order` is the fact about the list of tasks that this rests on.
`SaysReadyTruly`: what a run or a preview has reached stays while it runs
(`AllReached`: people change nothing by hand meanwhile, requests that land late only
add), and the tasks leave nothing out (`AllIsTasked`) but what the schemes of the
screens show, for which there is `Mapped`; of the screens, which a preview does not
look at, the field scheme being assigned is enough, by `Grounded`, up to `theirs`.
`TouchesOnlyOwn`: a scheme and the object it is made of are both the run's own once
their first tasks are past (`OwnSoFar`), and what is done to either comes later
(`LooksFirst`); so a foreign configuration also protects the scheme that is made of
it. It says nothing of the objects taken by name, nor of late requests.
`PreparedForGood`: a Space that is prepared stays so through every further run, kill
and late request, until somebody changes it by hand (`WhoChangesJira` says which
steps change Jira at all); repeating the command is safe, as `README.md:476-477` of
the repository says. `TypeCorrect` for the types.

Model-checked only: the liveness properties (`BegunIsSettled`, `EveryoneIsServed`,
`EventsArrive`, `EventsAreRead`, `CardFollows`, `FieldsFollow`, `WaitEnds`, `Recovers`,
`Converges`). They rest on fairness and on when an action is enabled, which the
prover does not reason about. The refinements are of safety: none of the abstract
modules states fairness.
With restored backups (`intake_restore`) the results of the intake that need
`Restores = FALSE` are not claimed.

## Disagreements between the code and what is said of it

Two runs are expected to fail, each with one property that states what a
comment says:

- `find_torn`: a kill while the result receipt of an RT operation is written
  leaves a file that cannot be parsed; every later pass over that issue fails
  without parking anything, so neither operator command applies.
- `find_moved_back`: `mirror_suppression` is saved "so mirror will not transition
  it back" (`jira_updates.py:124`), but a transition that is still owed from
  before is carried out without a look at it. The card leaves the place the
  person chose; the same pass then reads the status that came from Jira, skips
  its transition because of the suppression and records its target as reached,
  so the card is not brought back.

Seen as well, without a run of their own. In the bus:

- In To Do mode a failed fresh read of one issue ends the pass for all later ones
  and is not queued (`fresh_todo` in `sync.py:457` lets the exception through),
  although "A failure on one issue never ends the pass and never disappears"
  (`sync.py:400`). A later poll that can read the issue serves the rest.
- After a backup of the state file is restored, reconciliation looks for receipts
  under an operation id made from the key (`reconcile.py:34`), while `run` makes
  it from the issue id; the request made after the backup is not found by it. No
  second one is made: `AtMostOneSend` holds in `intake_restore`.
- `queue.py:24-25` says eight attempts span a little over four hours; the waits
  of the code (1+2+4+8+16+32+60 minutes) are 123 minutes.
- `docs/DIAGNOSTICS.md:111` reserves *parked* for exhausted retries and ambiguous
  outcomes; an unknown outcome in one stream also parks a pending delivery of the
  other that was never sent (`jira_updates.py:262-265`).
- `README.md:266` says a poll creates at most `max_per_pass` requests; the code
  counts creates that returned (`sync.py:452`, `sync.py:529`), so a pass makes one
  more for each create that was carried out and whose answer was lost.
- An issue that failed under its old key and was created under its new one gets a
  second entry with the same request from reconciliation, because the receipt is
  looked up per key (`reconcile.py:112`). The mirror then serves both.
- Any new status clears the suppression (`sync.py:939-944`), not only the one it
  was saved for: if FireFlow moves on before the mirror looks, that later
  status's transition is skipped, and the card stays behind.
- After a status without a place on the board, the status before it is a new
  target again (`sync.py:933-936`): the mirror asks for a transition to the place
  the card already has, which Jira need not offer, and then the issue ends parked.
- The comment at `sync.py:826-830` says a release lets an unmapped transition move
  on; `Failures.release` resets only its attempts, the stage stays, and the next
  pass stops at the same place.

- `EventsArrive` and the cursor: an issue whose comments up to the cursor have all
  been deleted and which has more newer ones than a page is refused by every later
  read, although the comment at `jira.py:176-180` takes a complete collection within the
  bound for sufficient: `complete_collection` asks for `start == 0`, that is, for one
  page (`NothingOlder`).
- A stream that was empty when its baseline was taken has no cursor: if more events
  than the tail holds (1000) come before the next poll, the oldest of them are left
  out without an error (`blind`).

In the installer:

- If `apply` fails after it replaced `bus.json` (the fsync of the directory, or a
  signal), the script restarts the old container with the migrated configuration
  and says "previous service restored" (`install-docker.sh:418-423`);
  `README.md:137-138` promises the prior `bus.json`. `RunsWithItsConfig` therefore
  excepts a failed migration.
- The backup that such a failure leaves makes every later upgrade stop the service,
  fail and start it again, until somebody removes it.
- `restore || true`: a failing restore is followed by the old container with the
  migrated configuration.
- A kill between the rename and the run leaves no bus at work, and the next
  upgrade refuses because there is no container of that name.

In the provisioning of Jira:

- Screens, screen schemes and type screen schemes are found by name alone, without
  the marker that the other objects must carry, and used whatever they map
  (`jira_provision.py:963-966`, `983-986`). With a screen scheme of somebody else's,
  or one that people changed, a run says *ready* although the Space's screens do not
  show the field that its field configuration requires, and nobody can create an
  issue there. `ReadyMeansPrepared` and `UsableThroughout` excuse this case and no
  other: maps in `theirs`.
- For the same reason a run puts its fields on a screen of somebody else's
  (`952-956`) and assigns a type screen scheme of theirs (`1000-1003`);
  `README.md:475-477` says that the helper safely reuses the objects it manages and
  does not change the schemes of other Spaces. `OthersUntouched` is therefore about
  the marked schemes.
- A preview does not tell of fields that are missing on the screen, nor of a type
  screen scheme that is not assigned (`952-956`, `1000-1003`). What cut runs left
  undone there it need not tell of, because they left undone what comes after it as
  well, and that is told of. What people undid it hides: `ReadyMeansPrepared`
  excuses it, for previews only.
- Extra mappings of the field scheme that a cut run left are never removed.
- A create that Jira carries out late makes a second object of the name, and every
  later run refuses until a person removes one (`Obstacle`).

## What is not modelled

- The dry run of each command: it saves and sends nothing.
- Mapping (`build`, structured requests, ADF), configuration and validation:
  pure functions of one document; `Mappable` stands for their verdict.
- Transport: one request with no state; its outcomes are branches of `Post`.
- Audit log: several processes append and rotate, but nothing reads it back; a
  failing record is an error outcome of the adapter's steps.
- Provisioning of FireFlow (one account, one write), set-up wizards, release
  scripts, the Forge form, the shell helpers, the systemd units: run by a person
  or a build, or a timer.
- Of the installer: the first installation, `--config-file`, the checks before the
  container is touched, two installers at once. A command of Docker that fails is
  taken to have had no effect, except `docker run`; `EndsInService` depends on it.
- Of the provisioning: `--space-only`, a second administrator during a run, objects
  that are deleted, a team-managed Space (refused at once), pagination (a complete
  answer or an error).
- Receipts kept from before an upgrade under another origin: they are looked up
  like the others.
- The wall clock: `RetryQueue` and `Scheduler` measure time. A clock that is set
  back delays a retry by as much.

## Plan

1. `TwoWay`: `Mirror` and `JiraUpdates` composed, with the suppression's own event
   and target, for what a round trip of a status does.
2. `Upgrade` with `--config-file`, and with the two installers at once that nothing
   excludes.
3. `AuditLog`: append and rotation by several processes, should anything come to
   depend on its order.
