------------------------------ MODULE Scheduler ------------------------------
(***************************************************************************)
(* The container (packaging/docker/scheduler.py): the doctor at the start, *)
(* then polls with a pause between them, a reconciliation once a day, each *)
(* a child process with a time limit; the health file that the Docker      *)
(* probe reads; and the ways the container stops and starts.  Service.tla  *)
(* adds what the children do.                                              *)
(***************************************************************************)
EXTENDS Integers

CONSTANTS Timeout,       \* of each action, its time limit
          Grace,         \* what a child is given to end once it is told to
          Pause,         \* between two polls
          MaxHealthAge   \* MAX_HEALTH_AGE

Action == {"doctor", "poll", "reconcile"}

ASSUME TimeAssumption == /\ Timeout \in [Action -> Nat]
                         /\ Grace \in Nat /\ Pause \in Nat /\ MaxHealthAge \in Nat

(* The numbers of the code: 30 + 300 + 10 and 600 + 10 seconds, in 900.    *)
ASSUME AgeAssumption == /\ Pause + Timeout["poll"] + Grace <= MaxHealthAge
                        /\ Timeout["reconcile"] + Grace <= MaxHealthAge

VARIABLES
  phase,     \* serve: the action under way, "pause", or "off"
  child,     \* run: its process, "none", "running" or "terminated" (told to end)
  elapsed,   \* time since the phase began, or the child was told to end
  stop,      \* docker stop: nothing starts the container again but a person
  due,       \* serve: the day since the last reconciliation is over
  results,   \* Health.value: how each action last ended, in this container run
  health     \* health.json: its status, and its age

serve == <<phase, child, elapsed, due>>
scheduler == <<serve, stop, results, health>>

SchedulerInit == /\ phase = "off"
                 /\ child = "none"
                 /\ elapsed = 0
                 /\ stop = FALSE
                 /\ due = FALSE
                 /\ results = [a \in Action |-> "none"]
                 /\ health = [status |-> "none", age |-> 0]

Begin(p) == /\ phase' = p
            /\ child' = IF p \in Action THEN "running" ELSE "none"
            /\ elapsed' = 0

(* Docker starts the container, which forgets but for the file.            *)
Boot == /\ phase = "off"
        /\ ~stop
        /\ Begin("doctor")
        /\ due' = FALSE
        /\ results' = [a \in Action |-> "none"]
        /\ UNCHANGED <<stop, health>>

(* Health.record *)
StatusOf(res) == IF res["doctor"] = "failed" THEN "not_ready"
                 ELSE IF \E a \in Action : res[a] = "failed" THEN "degraded"
                 ELSE "healthy"

(* A fault: a failure is not recorded. *)
RecordSuccess(a, code) ==
  /\ results' = IF code = "ok" THEN [results EXCEPT ![a] = code] ELSE results
  /\ health' = IF code = "ok" THEN [status |-> StatusOf(results'), age |-> 0] ELSE health

Record(a, code) == /\ results' = [results EXCEPT ![a] = code]
                   /\ health' = [status |-> StatusOf(results'), age |-> 0]

(* What serve does next.  Only a failed doctor ends it, and a stop.         *)
After(a, code) == CASE stop \/ (a = "doctor" /\ code = "failed") -> "off"
                    [] a = "doctor" /\ code = "ok" /\ ~stop -> "poll"
                    [] a = "poll" /\ due /\ ~stop -> "reconcile"
                    [] OTHER -> "pause"

Ended(code) == /\ Record(phase, code)
               /\ Begin(After(phase, code))
               /\ due' = (due /\ phase # "reconcile")
               /\ UNCHANGED stop

(* The child ends by itself.  Once it was told to, the result is a failure. *)
Exit(code) == /\ \/ child = "running"
                 \/ child = "terminated" /\ code = "failed"
              /\ Ended(code)

Overdue == child = "running" /\ elapsed >= Timeout[phase]

Cut == /\ child = "running"
       /\ stop \/ Overdue
       /\ child' = "terminated"
       /\ elapsed' = 0
       /\ UNCHANGED <<phase, stop, due, results, health>>

(* It does not end, and is killed. *)
KillChild == /\ child = "terminated"
             /\ elapsed >= Grace
             /\ Ended("failed")

PauseOver == /\ phase = "pause"
             /\ stop \/ elapsed >= Pause
             /\ Begin(IF stop THEN "off" ELSE "poll")
             /\ UNCHANGED <<stop, due, results, health>>

(* A fault: next_reconcile is not set again. *)
DayPassesOnce == /\ phase # "off"
                 /\ ~due
                 /\ results["reconcile"] = "none"
                 /\ due' = TRUE
                 /\ UNCHANGED <<phase, child, elapsed, stop, results, health>>

DayPasses == /\ phase # "off"
             /\ ~due
             /\ due' = TRUE
             /\ UNCHANGED <<phase, child, elapsed, stop, results, health>>

(* Time does not pass where the code would act.                             *)
Tick == /\ ~Overdue /\ ~(child = "terminated" /\ elapsed >= Grace)
        /\ ~(phase = "pause" /\ elapsed >= Pause)
        /\ phase # "off" /\ stop => child = "terminated"
        /\ elapsed' = IF phase = "off" THEN 0 ELSE elapsed + 1
        /\ health' = [health EXCEPT !.age = IF @ > MaxHealthAge THEN @ ELSE @ + 1]
        /\ UNCHANGED <<phase, child, stop, due, results>>

DockerStop == /\ phase # "off"
              /\ ~stop
              /\ stop' = TRUE
              /\ UNCHANGED <<serve, results, health>>

DockerStart == /\ phase = "off"
               /\ stop
               /\ stop' = FALSE
               /\ UNCHANGED <<serve, results, health>>

(* The container is killed, with its children. *)
Crash == /\ phase # "off"
         /\ Begin("off")
         /\ UNCHANGED <<stop, due, results, health>>

-----------------------------------------------------------------------------
SchedulerTypeOK == /\ phase \in Action \union {"pause", "off"}
                   /\ child \in {"none", "running", "terminated"}
                   /\ elapsed \in Nat
                   /\ stop \in BOOLEAN /\ due \in BOOLEAN
                   /\ results \in [Action -> {"none", "ok", "failed"}]
                   /\ health \in [status : {"none", "not_ready", "degraded", "healthy"},
                                  age : Nat]

(* healthcheck *)
ProbeOK == health.status = "healthy" /\ health.age <= MaxHealthAge

(* While serve goes on, its file never gets too old for the probe, however *)
(* long an action takes and whichever follow each other: what the probe    *)
(* then says is what the last results say (scheduler.py:22, 180-192).      *)
ProbeIsCurrent == phase \in {"poll", "reconcile", "pause"} =>
                    /\ health.age <= MaxHealthAge
                    /\ health.status = StatusOf(results)
=============================================================================
