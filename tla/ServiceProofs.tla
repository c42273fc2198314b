---------------------------- MODULE ServiceProofs ----------------------------
(***************************************************************************)
(* What Service.tla says of the scheduler, its health file and the failure *)
(* queue, for any time limits that satisfy AgeAssumption, any schedule of  *)
(* retries, and any number of faults.                                      *)
(***************************************************************************)
EXTENDS Service, TLAPS

(* The failures that are counted are those there were, and an entry that   *)
(* waits has one left.                                                     *)
Counted == /\ attempts = tries
           /\ tries <= Attempts
           /\ state = "none" => tries = 0
           /\ state = "waiting" => tries < Attempts
           /\ state = "exhausted" => tries = Attempts
           /\ wait <= Cap

(* A child runs while there is an action, and not longer than it may.      *)
Limits == /\ child = "none" <=> phase \in {"pause", "off"}
          /\ phase \in Action /\ child = "running" => elapsed <= Timeout[phase]
          /\ child = "terminated" => elapsed <= Grace
          /\ phase = "pause" => elapsed <= Pause

(* How old the health file can be, in each phase.                          *)
Ages == /\ phase = "pause" => health.age <= elapsed
        /\ phase = "poll" /\ child = "running" => health.age <= Pause + elapsed
        /\ phase = "poll" /\ child = "terminated" =>
             health.age <= Pause + Timeout["poll"] + elapsed
        /\ phase = "reconcile" /\ child = "running" => health.age <= elapsed
        /\ phase = "reconcile" /\ child = "terminated" =>
             health.age <= Timeout["reconcile"] + elapsed

(* What the file says is what the last results say; and if anything is     *)
(* parked, the last poll failed, or the reconciliation that parked it.     *)
Reported == /\ phase \in {"poll", "reconcile", "pause"} => health.status = StatusOf(results)
            /\ phase = "reconcile" /\ Parked /\ ~failing => results["poll"] = "failed"
            /\ phase = "pause" /\ Parked =>
                 results["poll"] = "failed" \/ results["reconcile"] = "failed"

IInv == TypeOK /\ Counted /\ Limits /\ Ages /\ Reported

-----------------------------------------------------------------------------
(* The queue.                                                              *)

(* No wait is longer than the cap, and all are whole. *)
LEMMA DelayIsCapped ==
  ASSUME NEW n \in 1..Attempts, NEW s \in Stages
  PROVE  Delay(n, s) \in Nat /\ Delay(n, s) <= Cap
BY ScheduleAssumption, PowerAssumption DEF Delay, Lesser

(* An attempt that fails, or that reconciliation finds to have failed,     *)
(* counts, and keeps the queue's entry in shape.                           *)
LEMMA FailCounts ==
  ASSUME QueueTypeOK, Counted, NEW s \in Stages, Fail(s) \/ FailUnknown(s) \/ FindUnknown(s)
  PROVE  QueueTypeOK' /\ Counted'
<1>1. state \in {"none", "waiting"}
  BY DEF Fail, FailUnknown, FindUnknown, Blocked, Parked, QueueTypeOK
<1>2. attempts \in Nat /\ tries \in Nat /\ attempts = tries /\ tries < Attempts
  BY <1>1, ScheduleAssumption DEF Counted, QueueTypeOK
<1>3. attempts' = tries' /\ tries' = tries + 1 /\ stage' = s
  BY <1>2 DEF Fail, FailUnknown, FindUnknown, NextCount
<1>4. attempts' \in 1..Attempts /\ tries' \in 1..Attempts
  BY <1>2, <1>3, ScheduleAssumption
<1>5. Delay(attempts', s) \in Nat /\ Delay(attempts', s) <= Cap
  BY <1>4, DelayIsCapped
<1>6. CASE state' = "exhausted" /\ wait' = 0 /\ attempts' >= Attempts
  BY <1>3, <1>4, <1>6, ScheduleAssumption DEF QueueTypeOK, Counted
<1>7. CASE state' = "waiting" /\ wait' = Delay(attempts', s) /\ attempts' < Attempts
  BY <1>3, <1>4, <1>5, <1>7, ScheduleAssumption DEF QueueTypeOK, Counted
<1>8. CASE state' = "unknown" /\ wait' = 0
  BY <1>3, <1>4, <1>8, ScheduleAssumption DEF QueueTypeOK, Counted
<1>. QED BY <1>6, <1>7, <1>8 DEF Fail, FailUnknown, FindUnknown

(* An entry that goes takes its counts along. *)
LEMMA GoneCounts ==
  ASSUME QueueTypeOK, Counted, Gone
  PROVE  QueueTypeOK' /\ Counted'
BY ScheduleAssumption DEF Gone, QueueTypeOK, Counted

(* Every step of the queue keeps the count of the failures. *)
LEMMA QueueCounts ==
  ASSUME QueueTypeOK, Counted, [QueueNext]_queue
  PROVE  QueueTypeOK' /\ Counted'
<1> USE ScheduleAssumption
<1>1. CASE UNCHANGED queue
  BY <1>1 DEF queue, QueueTypeOK, Counted
<1>2. ASSUME NEW s \in Stages, Fail(s) \/ FailUnknown(s) \/ FindUnknown(s)
      PROVE  QueueTypeOK' /\ Counted'
  BY <1>2, FailCounts
<1>3. CASE Clear \/ Settle
  BY <1>3, GoneCounts DEF Clear, Settle
<1>4. CASE Release
  BY <1>4 DEF Release, QueueTypeOK, Counted
<1>5. CASE Waits
  BY <1>5 DEF Waits, QueueTypeOK, Counted
<1>. QED BY <1>1, <1>2, <1>3, <1>4, <1>5 DEF QueueNext

(* The count says what the queue promises. *)
LEMMA CountsSuffice ==
  ASSUME QueueTypeOK, Counted
  PROVE  AttemptsAreCounted
<1>1. /\ tries \in Nat /\ tries <= Attempts /\ wait <= Cap
      /\ state \in {"none", "waiting", "exhausted", "unknown"}
  BY DEF QueueTypeOK, Counted
<1>2. tries = Attempts => Parked
  BY <1>1, ScheduleAssumption DEF Counted, Parked
<1>3. state = "exhausted" => tries = Attempts
  BY DEF Counted
<1>. QED BY <1>1, <1>2, <1>3 DEF AttemptsAreCounted

(* The queue keeps its promise whoever tries the work, and whenever: for   *)
(* every schedule of retries, between two decisions of a person the work is *)
(* tried as often as promised and then parked, and no wait is longer than  *)
(* the cap (queue.py:105-165).                                             *)
THEOREM QueueKeepsItsPromise == QueueSpec => []AttemptsAreCounted
<1>1. QueueInit => QueueTypeOK /\ Counted
  BY ScheduleAssumption DEF QueueInit, QueueTypeOK, Counted
<1>2. QueueTypeOK /\ Counted /\ [QueueNext]_queue => QueueTypeOK' /\ Counted'
  BY QueueCounts
<1>3. QueueTypeOK /\ Counted => AttemptsAreCounted
  BY CountsSuffice
<1>. QED BY <1>1, <1>2, <1>3, PTL DEF QueueSpec

(* What a step of the service does to the entry is a step of the queue. *)
LEMMA StepQueue ==
  ASSUME [Next]_vars
  PROVE  [QueueNext]_queue
<1>1. Try => QueueNext
  BY DEF Try, Tried, QueueNext
<1>2. Reconciles => QueueNext
  BY ScheduleAssumption DEF Reconciles, QueueNext
<1>. QED
  BY <1>1, <1>2 DEF Next, vars, QueueNext, Deferred, ExitOk, ExitFailed, CutChild, Serve,
     Stops, Restart, NextDay, Time, PersonReleases

(* The container is one of those who try the work: polls, reconciliation   *)
(* and a person make the steps of a RetryQueue, whatever is cut or killed. *)
THEOREM QueueIsKept == Spec => QueueSpec
<1>1. Init => QueueInit
  BY DEF Init
<1>2. [Next]_vars => [QueueNext]_queue
  BY StepQueue
<1>. QED BY <1>1, <1>2, PTL DEF Spec, QueueSpec

-----------------------------------------------------------------------------
(* The scheduler.                                                          *)
Kept == SchedulerTypeOK /\ Limits /\ Ages

(* What an action leaves when it has ended: a file that is current, and    *)
(* its result in it.                                                       *)
LEMMA EndRecords ==
  ASSUME SchedulerTypeOK, phase \in Action, NEW code \in {"ok", "failed"}, Ended(code)
  PROVE  /\ Kept'
         /\ health'.status = StatusOf(results')
         /\ results' = [results EXCEPT ![phase] = code]
         /\ phase' = After(phase, code)
<1>1. After(phase, code) \in {"poll", "reconcile", "pause", "off"}
  BY DEF After, Action
<1>2. /\ phase' = After(phase, code) /\ elapsed' = 0
      /\ child' = IF phase' \in Action THEN "running" ELSE "none"
  BY DEF Ended, Begin
<1>3. results' = [results EXCEPT ![phase] = code] /\ results' \in [Action -> {"none", "ok", "failed"}]
  BY DEF Ended, Record, SchedulerTypeOK
<1>4. StatusOf(results') \in {"not_ready", "degraded", "healthy"}
  BY DEF StatusOf
<1>5. health' = [status |-> StatusOf(results'), age |-> 0]
  BY DEF Ended, Record
<1>6. due' \in BOOLEAN /\ stop' \in BOOLEAN
  BY DEF Ended, SchedulerTypeOK
<1>7. SchedulerTypeOK'
  BY <1>1, <1>2, <1>3, <1>4, <1>5, <1>6 DEF SchedulerTypeOK, Action
<1>8. Limits'
  BY <1>1, <1>2, TimeAssumption DEF Limits, Action
<1>9. Ages'
  BY <1>1, <1>2, <1>5, TimeAssumption DEF Ages, Action
<1>. QED BY <1>2, <1>3, <1>5, <1>7, <1>8, <1>9 DEF Kept

(* While a child runs or is told to end, an action is under way.           *)
LEMMA ChildHasAction ==
  ASSUME SchedulerTypeOK, Limits, child # "none"
  PROVE  phase \in Action
BY DEF SchedulerTypeOK, Limits, Action

(* Each way an action can end is Ended.                                    *)
LEMMA EndsOfChild ==
  ASSUME SchedulerTypeOK, Limits, ExitOk \/ ExitFailed \/ KillChild
  PROVE  /\ phase \in Action
         /\ \E code \in {"ok", "failed"} : Ended(code)
<1>1. child # "none"
  BY DEF ExitOk, ExitFailed, KillChild, Exit
<1>2. \E code \in {"ok", "failed"} : Ended(code)
  BY DEF ExitOk, ExitFailed, KillChild, Exit
<1>. QED BY <1>1, <1>2, ChildHasAction

(* Time adds at most as much to the age of the file as to the phase, and   *)
(* stops where the code would act.                                         *)
LEMMA TickKeeps ==
  ASSUME Kept, Tick
  PROVE  Kept'
<1> USE TimeAssumption DEF Kept
<1>1. elapsed \in Nat /\ health.age \in Nat
  BY DEF SchedulerTypeOK
<1>2. /\ health' = [health EXCEPT !.age = IF @ > MaxHealthAge THEN @ ELSE @ + 1]
      /\ UNCHANGED <<phase, child, stop, due, results>>
  BY DEF Tick
<1>3. health'.age \in Nat /\ health'.age <= health.age + 1 /\ health'.status = health.status
  BY <1>1, <1>2 DEF SchedulerTypeOK
<1>4. elapsed' \in Nat /\ (phase # "off" => elapsed' = elapsed + 1)
  BY <1>1 DEF Tick
<1>5. SchedulerTypeOK'
  <2>1. health' \in [status : {"none", "not_ready", "degraded", "healthy"}, age : Nat]
    BY <1>1, <1>2 DEF SchedulerTypeOK
  <2>. QED BY <1>2, <1>4, <2>1 DEF SchedulerTypeOK
<1>6. /\ phase \in Action => Timeout[phase] \in Nat
      /\ Timeout["poll"] \in Nat /\ Timeout["reconcile"] \in Nat
  BY DEF Action
<1>7. /\ child = "running" /\ phase \in Action => elapsed < Timeout[phase]
      /\ child = "terminated" => elapsed < Grace
      /\ phase = "pause" => elapsed < Pause
  BY <1>1, <1>6 DEF Tick, Overdue
<1>8. child # "none" => phase \in Action
  BY ChildHasAction
<1>9. Limits'
  BY <1>1, <1>2, <1>4, <1>6, <1>7, <1>8 DEF Limits, Action
<1>10. Ages'
  BY <1>1, <1>2, <1>3, <1>4, <1>6 DEF Ages
<1>. QED BY <1>5, <1>9, <1>10

(* The steps that begin a phase without a result.                          *)
LEMMA BeginKeeps ==
  ASSUME Kept, Boot \/ PauseOver \/ Crash
  PROVE  Kept'
<1> USE TimeAssumption DEF Kept
<1>1. elapsed \in Nat /\ health.age \in Nat
  BY DEF SchedulerTypeOK
<1>2. CASE Boot
  <2>1. results' \in [Action -> {"none", "ok", "failed"}]
    BY <1>2 DEF Boot
  <2>2. phase' = "doctor" /\ child' = "running" /\ elapsed' = 0 /\ due' = FALSE
        /\ UNCHANGED <<stop, health>>
    BY <1>2 DEF Boot, Begin, Action
  <2>3. SchedulerTypeOK'
    BY <2>1, <2>2 DEF SchedulerTypeOK, Action
  <2>4. Limits' /\ Ages'
    BY <2>2 DEF Limits, Ages, Action
  <2>. QED BY <2>3, <2>4
<1>3. CASE PauseOver
  <2>1. /\ \/ phase' = "off" /\ child' = "none"
           \/ phase' = "poll" /\ child' = "running"
        /\ elapsed' = 0 /\ UNCHANGED <<stop, due, results, health>>
    BY <1>3 DEF PauseOver, Begin, Action
  <2>2. health.age <= Pause
    BY <1>1, <1>3 DEF PauseOver, Limits, Ages
  <2>3. SchedulerTypeOK'
    BY <2>1 DEF SchedulerTypeOK, Action
  <2>4. Limits' /\ Ages'
    BY <1>1, <2>1, <2>2 DEF Limits, Ages, Action
  <2>. QED BY <2>3, <2>4
<1>4. CASE Crash
  <2>1. phase' = "off" /\ child' = "none" /\ elapsed' = 0
        /\ UNCHANGED <<stop, due, results, health>>
    BY <1>4 DEF Crash, Begin, Action
  <2>2. SchedulerTypeOK'
    BY <2>1 DEF SchedulerTypeOK
  <2>3. Limits' /\ Ages'
    BY <2>1 DEF Limits, Ages, Action
  <2>. QED BY <2>2, <2>3
<1>. QED BY <1>2, <1>3, <1>4

(* A child that is told to end has its own time for it.                    *)
LEMMA CutKeeps ==
  ASSUME Kept, Cut
  PROVE  Kept'
<1> USE TimeAssumption DEF Kept
<1>1. elapsed \in Nat /\ health.age \in Nat
  BY DEF SchedulerTypeOK
<1>2. /\ child = "running" /\ child' = "terminated" /\ elapsed' = 0
      /\ UNCHANGED <<phase, stop, due, results, health>>
  BY DEF Cut
<1>3. phase \in Action /\ elapsed <= Timeout[phase]
  BY <1>2, ChildHasAction DEF Limits
<1>4. SchedulerTypeOK'
  BY <1>2 DEF SchedulerTypeOK
<1>5. Limits'
  BY <1>2, <1>3 DEF Limits, Action
<1>6. Timeout["poll"] \in Nat /\ Timeout["reconcile"] \in Nat
  BY DEF Action
<1>7. phase = "poll" => health.age <= Pause + Timeout["poll"]
  BY <1>1, <1>2, <1>3, <1>6 DEF Ages
<1>8. phase = "reconcile" => health.age <= Timeout["reconcile"]
  BY <1>1, <1>2, <1>3, <1>6 DEF Ages
<1>9. phase # "pause"
  BY <1>3 DEF Action
<1>10. Ages'
  BY <1>1, <1>2, <1>6, <1>7, <1>8, <1>9 DEF Ages
<1>. QED BY <1>4, <1>5, <1>10

(* No step of the service breaks the limits of the scheduler.              *)
LEMMA StepScheduler ==
  ASSUME Kept, [Next]_vars
  PROVE  Kept'
<1>1. CASE UNCHANGED scheduler
  BY <1>1 DEF Kept, SchedulerTypeOK, Limits, Ages, scheduler, serve
<1>2. CASE ExitOk \/ ExitFailed \/ KillChild
  <2>1. PICK code \in {"ok", "failed"} : Ended(code)
    BY <1>2, EndsOfChild DEF Kept
  <2>. QED BY <1>2, <2>1, EndsOfChild, EndRecords DEF Kept
<1>3. CASE DayPasses \/ DockerStop \/ DockerStart
  BY <1>3 DEF Kept, SchedulerTypeOK, Limits, Ages, DayPasses, DockerStop, DockerStart, serve
<1>. QED
  BY <1>1, <1>2, <1>3, TickKeeps, BeginKeeps, CutKeeps
     DEF Next, vars, Deferred, Try, Tried, Reconciles, CutChild, Serve, Stops, Restart, NextDay,
         Time, PersonReleases

-----------------------------------------------------------------------------
(* The composition.                                                        *)

(* The variables of the pass keep their types. *)
LEMMA StepPass ==
  ASSUME TypeOK, [Next]_vars
  PROVE  looked' \in BOOLEAN /\ failing' \in BOOLEAN /\ faults' \in 0..MaxFaults
<1>1. looked \in BOOLEAN /\ failing \in BOOLEAN /\ faults \in 0..MaxFaults
  BY DEF TypeOK
<1>2. looked' \in BOOLEAN /\ failing' \in BOOLEAN
  BY <1>1 DEF Next, vars, Deferred, Try, Tried, Reconciles, ExitOk, ExitFailed, CutChild, Serve,
     Stops, Restart, NextDay, Time, PersonReleases, Fresh
<1>3. Fault \/ UNCHANGED faults
  BY DEF Next, vars, Deferred, Try, Tried, Reconciles, ExitOk, ExitFailed, CutChild, Serve,
     Stops, Restart, NextDay, Time, PersonReleases
<1>. QED BY <1>1, <1>2, <1>3, FaultsAssumption DEF Fault

(* A poll that ends while an entry is parked has failed, and so has a      *)
(* reconciliation.                                                         *)
LEMMA ParkedFails ==
  ASSUME TypeOK, Limits, Parked, phase \in {"poll", "reconcile"},
         ExitOk \/ ExitFailed \/ KillChild
  PROVE  Ended("failed")
<1>1. ~ExitOk
  BY DEF ExitOk, Outstanding
<1>. QED BY <1>1 DEF ExitFailed, Exit, KillChild

(* What the file says, and what a parked entry makes of it, after any step. *)
LEMMA StepReported ==
  ASSUME IInv, [Next]_vars
  PROVE  Reported'
<1> USE DEF IInv, TypeOK
<1>1. CASE ExitOk \/ ExitFailed \/ (KillChild /\ UNCHANGED queue)
  <2>1. /\ phase \in Action
        /\ \E code \in {"ok", "failed"} : Ended(code)
    BY <1>1, EndsOfChild
  <2>2. PICK code \in {"ok", "failed"} : Ended(code) /\ 
            (phase \in {"poll", "reconcile"} /\ Parked => code = "failed")
    BY <1>1, <2>1, ParkedFails
  <2>3. /\ health'.status = StatusOf(results')
        /\ results' = [results EXCEPT ![phase] = code]
        /\ phase' = After(phase, code)
    BY <2>1, <2>2, EndRecords
  <2>4. Parked' = Parked
    BY <1>1 DEF ExitOk, ExitFailed, Parked, queue
  <2>5. CASE phase = "poll"
    <3>1. results'["poll"] = code
      BY <2>3, <2>5 DEF SchedulerTypeOK, Action
    <3>. QED BY <2>2, <2>3, <2>4, <2>5, <3>1 DEF Reported
  <2>6. CASE phase = "reconcile"
    <3>1. results'["reconcile"] = code
      BY <2>3, <2>6 DEF SchedulerTypeOK, Action
    <3>2. phase' # "reconcile"
      BY <2>3, <2>6 DEF After, SchedulerTypeOK
    <3>. QED BY <2>2, <2>3, <2>4, <2>6, <3>1, <3>2 DEF Reported
  <2>7. CASE phase = "doctor"
    <3>1. phase' \in {"off", "poll"}
      BY <2>2, <2>3, <2>7 DEF After, SchedulerTypeOK
    <3>. QED BY <2>3, <3>1 DEF Reported
  <2>. QED BY <2>1, <2>5, <2>6, <2>7 DEF Action
<1>2. CASE phase' \in {"off", "doctor"}
  BY <1>2 DEF Reported
<1>3. CASE phase' = "poll" /\ phase \in {"poll", "pause"} /\ UNCHANGED <<results, health>>
  BY <1>3 DEF Reported
<1>4. CASE /\ UNCHANGED <<phase, results>> /\ health'.status = health.status
           /\ Parked' => Parked /\ failing' = failing
  BY <1>4 DEF Reported
<1>5. CASE Try
  BY <1>3, <1>5 DEF Try, Tried, Polling, scheduler, serve
<1>6. CASE Deferred \/ CutChild \/ Restart \/ NextDay \/ UNCHANGED vars
  BY <1>4, <1>6 DEF Deferred, CutChild, Cut, Restart, DockerStart, NextDay, DayPasses, vars,
     scheduler, serve, queue, Parked
<1>7. CASE Time
  <2>1. UNCHANGED <<phase, results, state, failing>> /\ health'.status = health.status
    BY <1>7 DEF Time, Tick, Waits, SchedulerTypeOK
  <2>. QED BY <1>4, <2>1 DEF Parked
<1>8. CASE PersonReleases
  BY <1>4, <1>8 DEF PersonReleases, Release, Parked, scheduler, serve
<1>9. CASE Serve
  <2>1. CASE Boot
    BY <1>2, <2>1 DEF Boot, Begin
  <2>2. CASE PauseOver
    BY <1>2, <1>3, <2>2 DEF PauseOver, Begin
  <2>. QED BY <1>1, <1>9, <2>1, <2>2 DEF Serve
<1>10. CASE Stops
  <2>1. CASE DockerStop
    BY <1>4, <1>10, <2>1 DEF Stops, DockerStop, serve, queue, Parked
  <2>2. CASE Crash
    BY <1>2, <2>2 DEF Crash, Begin
  <2>. QED BY <1>10, <2>1, <2>2 DEF Stops
<1>11. CASE Reconciles
  BY <1>11 DEF Reconciles, Reconciling, Reported, scheduler, serve
<1>. QED BY <1>1, <1>5, <1>6, <1>7, <1>8, <1>9, <1>10, <1>11 DEF Next

(* It holds at the start.                                                  *)
LEMMA InitIInv == Init => IInv
<1> SUFFICES ASSUME Init PROVE IInv
  OBVIOUS
<1>1. QueueTypeOK /\ Counted
  BY ScheduleAssumption DEF Init, QueueInit, QueueTypeOK, Counted
<1>2. SchedulerTypeOK
  BY DEF Init, SchedulerInit, SchedulerTypeOK
<1>3. Limits /\ Ages /\ Reported
  BY DEF Init, SchedulerInit, Limits, Ages, Reported, Action
<1>4. looked \in BOOLEAN /\ failing \in BOOLEAN /\ faults = 0
  BY DEF Init
<1>5. faults \in 0..MaxFaults
  BY <1>4, FaultsAssumption
<1>. QED BY <1>1, <1>2, <1>3, <1>4, <1>5 DEF IInv, TypeOK

(* The inductive invariant: the counts of the queue, the limits of the     *)
(* scheduler, the age of its file and what the file says, together.        *)
THEOREM Invariant == Spec => []IInv
<1>1. ASSUME IInv, [Next]_vars PROVE IInv'
  <2>1. QueueTypeOK' /\ Counted'
    BY <1>1, StepQueue, QueueCounts DEF IInv, TypeOK
  <2>2. Kept'
    BY <1>1, StepScheduler DEF IInv, TypeOK, Kept
  <2>3. Reported'
    BY <1>1, StepReported
  <2>4. looked' \in BOOLEAN /\ failing' \in BOOLEAN /\ faults' \in 0..MaxFaults
    BY <1>1, StepPass DEF IInv
  <2>. QED BY <2>1, <2>2, <2>3, <2>4 DEF IInv, TypeOK, Kept
<1>. QED BY <1>1, InitIInv, PTL DEF Spec

(* Every variable of the scheduler, the queue and the pass keeps its type. *)
THEOREM TypeCorrect == Spec => []TypeOK
<1>. QED BY Invariant, PTL DEF IInv

(* For every schedule of retries: between two decisions of a person the    *)
(* work is tried as often as the queue promises and then parked, and no    *)
(* wait is longer than the cap (queue.py:153-165).                         *)
THEOREM RetriesAreCounted == Spec => []AttemptsAreCounted
<1>. QED BY QueueIsKept, QueueKeepsItsPromise, PTL

(* For all time limits that satisfy AgeAssumption: while the container     *)
(* serves, the probe reads a file that is not too old and that says how    *)
(* the last actions ended (scheduler.py:22, 180-192).                      *)
THEOREM ProbeStaysCurrent == Spec => []ProbeIsCurrent
<1>1. IInv => ProbeIsCurrent
  <2> SUFFICES ASSUME IInv, phase \in {"poll", "reconcile", "pause"} PROVE ProbeIsCurrent
    BY DEF ProbeIsCurrent
  <2>1. health.status = StatusOf(results)
    BY DEF IInv, Reported
  <2>2. /\ elapsed \in Nat /\ health.age \in Nat
        /\ Pause \in Nat /\ Grace \in Nat /\ MaxHealthAge \in Nat
        /\ Timeout["poll"] \in Nat /\ Timeout["reconcile"] \in Nat
    BY TimeAssumption DEF IInv, TypeOK, SchedulerTypeOK, Action
  <2>3. /\ child = "terminated" => elapsed <= Grace
        /\ phase = "pause" => elapsed <= Pause
        /\ phase \in {"poll", "reconcile"} => child \in {"running", "terminated"}
    BY DEF IInv, TypeOK, SchedulerTypeOK, Limits
  <2>4. /\ phase = "poll" /\ child = "running" => elapsed <= Timeout["poll"]
        /\ phase = "reconcile" /\ child = "running" => elapsed <= Timeout["reconcile"]
    BY DEF IInv, Limits, Action
  <2>5. health.age <= MaxHealthAge
    <3>1. CASE phase = "pause"
      BY <2>2, <2>3, <3>1, AgeAssumption DEF IInv, Ages
    <3>2. CASE phase = "poll"
      BY <2>2, <2>3, <2>4, <3>2, AgeAssumption DEF IInv, Ages
    <3>3. CASE phase = "reconcile"
      BY <2>2, <2>3, <2>4, <3>3, AgeAssumption DEF IInv, Ages
    <3>. QED BY <3>1, <3>2, <3>3
  <2>. QED BY <2>1, <2>5 DEF ProbeIsCurrent
<1>. QED BY <1>1, Invariant, PTL

(* From the end of the poll or the reconciliation that parked work the     *)
(* probe fails, until a person releases it or it is settled                *)
(* (bus.py:120-136, bus.py:409-413).                                       *)
THEOREM ParkedStaysSeen == Spec => []ParkedIsSeen
<1>1. IInv => ParkedIsSeen
  <2> SUFFICES ASSUME IInv, Parked, phase = "pause" \/ (phase = "reconcile" /\ ~failing)
               PROVE  ~ProbeOK
    BY DEF ParkedIsSeen
  <2>1. /\ results["poll"] = "failed" \/ results["reconcile"] = "failed"
        /\ health.status = StatusOf(results)
    BY DEF IInv, Reported
  <2>2. StatusOf(results) # "healthy"
    BY <2>1 DEF StatusOf, Action
  <2>. QED BY <2>1, <2>2 DEF ProbeOK
<1>. QED BY <1>1, Invariant, PTL
=============================================================================
