------------------------------ MODULE MCService ------------------------------
(* Times in units of 30 seconds, the grace of a child counted as one; waits *)
(* shorter than the real ones; one stage of two at the slow pace.           *)
EXTENDS Service

MCTimeout == [a \in Action |-> IF a = "reconcile" THEN 20 ELSE 10]

IntakeStages == {"create", "read"}
=============================================================================
