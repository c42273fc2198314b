------------------------------- MODULE Failures -------------------------------
(***************************************************************************)
(* One entry of the failure queue (queue.Failures), without its clock:     *)
(* it waits for its next_attempt, is due, or is parked, "exhausted"        *)
(* (attempts_exhausted) or "unknown" (outcome_unknown).  All stages of the *)
(* work on an issue share its one entry and the attempts counted there.    *)
(* RetryQueue.tla has the times.                                           *)
(***************************************************************************)
EXTENDS Naturals

CONSTANT Attempts   \* queue.ATTEMPTS

ASSUME AttemptsAssumption == Attempts \in Nat \ {0}

NoFailure == [stage |-> "none", attempts |-> 0, hold |-> "none"]

(* Failures.record *)
Failed(f, stage, retryable) ==
  [stage    |-> stage,
   attempts |-> f.attempts + 1,
   hold     |-> IF ~retryable THEN "unknown"
                ELSE IF f.attempts + 1 >= Attempts THEN "exhausted" ELSE "waiting"]

(* Failures.release, for f exhausted. *)
Released(f) == [f EXCEPT !.attempts = 0, !.hold = "due"]

IsParked(f) == f.hold \in {"exhausted", "unknown"}

IsBlocked(f) == IsParked(f) \/ f.hold = "waiting"

(* The entries of a queue whose work has these stages. *)
FailureOf(stages) == [stage : {"none"} \union stages, attempts : Nat,
                      hold : {"none", "waiting", "due", "exhausted", "unknown"}]
=============================================================================
