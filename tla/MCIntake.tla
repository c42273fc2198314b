------------------------------- MODULE MCIntake -------------------------------
(* One issue with two keys, or two issues that are never moved. *)
EXTENDS Intake, TLC

CONSTANTS i1, i2, k1, k2, a, b

OneOwner == (k1 :> i1) @@ (k2 :> i1)
TwoOwners == (k1 :> i1) @@ (k2 :> i2)
=============================================================================
