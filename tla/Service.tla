------------------------------- MODULE Service -------------------------------
(***************************************************************************)
(* The container at work: an entry of the failure queue is tried when one  *)
(* of the scheduler's polls finds it due, the daily reconciliation parks   *)
(* and settles creates, and the probe shows what both reported (bus.main's *)
(* exit code).                                                             *)
(*                                                                         *)
(* The queue is saved by the child as it goes, the health file only when   *)
(* the child has ended: a child that is cut, or a container that is        *)
(* killed, leaves the one without the other.                               *)
(***************************************************************************)
EXTENDS Scheduler, RetryQueue

CONSTANT MaxFaults   \* bound: crashes, stops, children that hang, other failures

ASSUME FaultsAssumption == MaxFaults \in Nat

VARIABLES looked,    \* the child has come to the entry
          failing,   \* the poll: its pass has failed on it; the
                     \* reconciliation: it has found something of it
          faults     \* history: counter

vars == <<scheduler, queue, looked, failing, faults>>

Init == /\ SchedulerInit
        /\ QueueInit
        /\ looked = FALSE
        /\ failing = FALSE
        /\ faults = 0

Polling == phase = "poll" /\ child = "running"

(* A pass comes to the entry once: it is held back, or tried.              *)
Deferred == /\ Polling /\ ~looked
            /\ Blocked
            /\ looked' = TRUE
            /\ UNCHANGED <<scheduler, queue, failing, faults>>

Tried(outcome, failed) == /\ Polling /\ ~looked
                          /\ outcome
                          /\ looked' = TRUE
                          /\ failing' = failed
                          /\ UNCHANGED <<scheduler, faults>>

Try == \/ Tried(Clear, FALSE)
       \/ \E s \in Stages : Tried(Fail(s), TRUE) \/ Tried(FailUnknown(s), TRUE)

Reconciling == phase = "reconcile" /\ child = "running"

(* reconcile looks at the receipts of the entry's issue.                   *)
Reconciles == /\ Reconciling /\ ~looked
              /\ Settle \/ \E s \in Stages : FindUnknown(s)
              /\ looked' = TRUE
              /\ failing' = TRUE
              /\ UNCHANGED <<scheduler, faults>>

(* bus.outstanding, what a complete pass reports: what failed now, and     *)
(* what is parked; work that waits is not left undone.  The findings of a  *)
(* reconciliation are what it has just changed, and what is parked.        *)
(* A fault, for the mutants: only what failed now. *)
OutstandingNow == failing

Outstanding == failing \/ Parked

(* A complete pass has come to the entry, if there is one.                 *)
Complete == phase = "poll" => looked \/ state = "none"

Fault == faults < MaxFaults /\ faults' = faults + 1

Fresh == looked' = FALSE /\ failing' = FALSE

ExitOk == /\ Complete
          /\ ~(phase \in {"poll", "reconcile"} /\ Outstanding)
          /\ Exit("ok")
          /\ Fresh
          /\ UNCHANGED <<queue, faults>>

ExitFailed == /\ Exit("failed")
              /\ \/ child = "terminated" /\ UNCHANGED faults
                 \/ /\ phase \in {"poll", "reconcile"} /\ Complete /\ Outstanding
                    /\ UNCHANGED faults
                 \/ Fault
              /\ Fresh
              /\ UNCHANGED queue

Time == Tick /\ Waits /\ UNCHANGED <<looked, failing, faults>>

CutChild == /\ Cut
            /\ IF stop THEN UNCHANGED faults ELSE Fault
            /\ UNCHANGED <<queue, looked, failing>>

Serve == \/ Boot /\ Fresh /\ UNCHANGED <<queue, faults>>
         \/ KillChild /\ Fresh /\ UNCHANGED <<queue, faults>>
         \/ PauseOver /\ Fresh /\ UNCHANGED <<queue, faults>>

Stops == /\ DockerStop \/ Crash
         /\ Fault
         /\ looked' = (looked /\ phase' # "off")
         /\ failing' = (failing /\ phase' # "off")
         /\ UNCHANGED queue

Restart == DockerStart /\ UNCHANGED <<queue, looked, failing, faults>>

NextDay == DayPasses /\ UNCHANGED <<queue, looked, failing, faults>>

(* release, while no child holds the lock. *)
PersonReleases == /\ Release
                  /\ ~Polling /\ ~Reconciling
                  /\ UNCHANGED <<scheduler, looked, failing, faults>>

Next == \/ Deferred \/ Try \/ Reconciles
        \/ ExitOk \/ ExitFailed
        \/ CutChild \/ Serve \/ Stops \/ Restart
        \/ NextDay \/ Time
        \/ PersonReleases

Spec == Init /\ [][Next]_vars

(* Children that do not hang end; Docker, and after a stop a person, start *)
(* the container; time passes.                                             *)
FairSpec == /\ Spec
            /\ WF_vars(Deferred \/ Try)
            /\ WF_vars(ExitOk \/ ExitFailed) /\ WF_vars(CutChild)
            /\ WF_vars(Serve) /\ WF_vars(Restart)
            /\ WF_vars(NextDay) /\ WF_vars(Time)

-----------------------------------------------------------------------------
TypeOK == /\ SchedulerTypeOK
          /\ QueueTypeOK
          /\ looked \in BOOLEAN /\ failing \in BOOLEAN
          /\ faults \in 0..MaxFaults

(* Work that waits for a person is never passed over in silence: from the  *)
(* end of the poll, or of the reconciliation, that parked it the probe     *)
(* fails, and every later one keeps it so until the entry is released or   *)
(* settled (bus.py:120-136, bus.py:409-413, reconcile.py:188-193).         *)
ParkedIsSeen == Parked /\ (phase = "pause" \/ (phase = "reconcile" /\ ~failing))
                  => ~ProbeOK

(* Work that waits is tried again, and settled or parked at last, even if  *)
(* every attempt fails and polls are cut or killed.                        *)
WaitEnds == state = "waiting" ~> state # "waiting"

(* The container gets well by itself: after the last fault, with nothing   *)
(* left in the queue, the probe succeeds for good, also if what failed was *)
(* the daily reconciliation (scheduler.py:94-99).                          *)
Recovers == <>[](state = "none") => <>[]ProbeOK
=============================================================================
