------------------------------ MODULE RetryQueue ------------------------------
(***************************************************************************)
(* The schedule of the failure queue (queue.Failures): when the work of    *)
(* one issue is tried again, and when it is given up.  Entries of different *)
(* issues do not touch, so one entry is modelled.  Time is kept relative,  *)
(* as what is left of the wait.                                            *)
(*                                                                         *)
(* What is tried, and what else a failure or a success changes, is in      *)
(* Intake.tla and Mirror.tla, which implement this queue; here an attempt  *)
(* simply succeeds or fails, in whichever stage of the work the issue is.  *)
(* Service.tla says when attempts are made.                                *)
(***************************************************************************)
EXTENDS Integers

CONSTANTS Base,       \* the wait before the first retry
          Factor,     \* each wait is so many times the one before
          Cap,        \* no wait is longer
          Attempts,   \* failures after which the entry is parked
          Stages,     \* the stages of the work that can fail
          SlowStages, \* those retried at the slow pace
          Creates     \* those of which the adapter's receipts tell

ASSUME ScheduleAssumption == /\ Base \in Nat \ {0}
                             /\ Factor \in Nat \ {0}
                             /\ Cap \in Nat \ {0}
                             /\ Attempts \in Nat \ {0}
                             /\ SlowStages \subseteq Stages
                             /\ Creates \subseteq Stages
                             /\ "none" \notin Stages
ASSUME PowerAssumption == \A n \in 1..Attempts : Base * Factor^(n - 1) \in Nat

VARIABLES
  state,     \* of the entry: "none", "waiting", "exhausted" or "unknown"
  stage,     \* the stage that failed last, "none" without an entry
  attempts,  \* the entry's attempt count
  wait,      \* time left before the next attempt is due
  tries      \* history: failures since the entry began or was released

queue == <<state, stage, attempts, wait, tries>>

QueueInit == /\ state = "none"
             /\ stage = "none"
             /\ attempts = 0
             /\ wait = 0
             /\ tries = 0

Lesser(a, b) == IF a < b THEN a ELSE b

(* Two faults, for the mutants: the wait is not capped; the count starts   *)
(* again when another stage fails.                                         *)
DelayUncapped(n, s) == IF s \in SlowStages THEN Cap ELSE Base * Factor^(n - 1)

NextCountByStage(s) == IF s = stage THEN attempts + 1 ELSE 1

Delay(n, s) == IF s \in SlowStages THEN Cap ELSE Lesser(Cap, Base * Factor^(n - 1))

(* The stage that fails does not matter: the attempts of an entry are one  *)
(* number.                                                                 *)
NextCount(s) == attempts + 1

Parked == state \in {"exhausted", "unknown"}

Blocked == Parked \/ (state = "waiting" /\ wait > 0)

-----------------------------------------------------------------------------
(* A poll tries the work and it fails in stage s.                          *)
Fail(s) == /\ ~Blocked
           /\ attempts' = NextCount(s)
           /\ stage' = s
           /\ tries' = tries + 1
           /\ \/ /\ attempts' >= Attempts
                 /\ state' = "exhausted"
                 /\ wait' = 0
              \/ /\ attempts' < Attempts
                 /\ state' = "waiting"
                 /\ wait' = Delay(attempts', s)

(* ... in a way that leaves the outcome unknown.                           *)
FailUnknown(s) == /\ ~Blocked
                  /\ attempts' = NextCount(s)
                  /\ stage' = s
                  /\ tries' = tries + 1
                  /\ state' = "unknown"
                  /\ wait' = 0

Gone == /\ state # "none"
        /\ state' = "none"
        /\ stage' = "none"
        /\ attempts' = 0
        /\ wait' = 0
        /\ tries' = 0

(* ... and it succeeds: the entry goes.                                    *)
Clear == ~Blocked /\ Gone

(* Reconciliation does not wait for an entry to be due.  It finds that a   *)
(* create was begun and never finished, and parks it;                      *)
FindUnknown(s) == /\ ~Parked
                  /\ s \in Creates
                  /\ attempts' = NextCount(s)
                  /\ stage' = s
                  /\ tries' = tries + 1
                  /\ state' = "unknown"
                  /\ wait' = 0

(* or that a create FireFlow answered is only thought to have failed.      *)
Settle == stage \in Creates /\ Gone

(* A person lets an exhausted entry be tried again.                        *)
Release == /\ state = "exhausted"
           /\ state' = "waiting"
           /\ attempts' = 0
           /\ wait' = 0
           /\ tries' = 0
           /\ UNCHANGED stage

(* A fault: a poll that finds the entry blocked starts its wait again.     *)
WaitStartsAgain == /\ wait' = IF wait > 0 THEN Delay(attempts, stage) ELSE 0
                   /\ UNCHANGED <<state, stage, attempts, tries>>

(* Time passes; an entry that is due may have to wait for the poll.        *)
Waits == /\ wait' = IF wait > 0 THEN wait - 1 ELSE 0
         /\ UNCHANGED <<state, stage, attempts, tries>>

QueueNext == \/ \E s \in Stages : Fail(s) \/ FailUnknown(s) \/ FindUnknown(s)
             \/ Clear \/ Settle \/ Release \/ Waits

QueueSpec == QueueInit /\ [][QueueNext]_queue

-----------------------------------------------------------------------------
(* The shape of the queue entry. *)
QueueTypeOK == /\ state \in {"none", "waiting", "exhausted", "unknown"}
               /\ stage \in Stages \union {"none"}
               /\ attempts \in 0..Attempts
               /\ wait \in Nat
               /\ tries \in Nat

(* Between two decisions of a person the work is tried Attempts times,     *)
(* whichever stages fail, unless it succeeds or its outcome is unknown;    *)
(* never more often, and never less before it is given up                  *)
(* (queue.py:21, queue.py:153-165).  No wait is longer than the cap        *)
(* (queue.py:23-25).                                                       *)
AttemptsAreCounted == /\ tries <= Attempts
                      /\ tries = Attempts => Parked
                      /\ state = "exhausted" => tries = Attempts
                      /\ wait <= Cap
=============================================================================
