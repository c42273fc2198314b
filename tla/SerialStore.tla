----------------------------- MODULE SerialStore -----------------------------
(***************************************************************************)
(* What the bus expects of its state file: one document to which updates   *)
(* are only ever added.  A saved update is never undone by another writer, *)
(* and no reader ever sees anything but a document somebody saved.         *)
(*                                                                         *)
(* An update stands for one call of State.record, Failures.record and the  *)
(* like: which fields it touches does not matter here, only whether a      *)
(* later version of the document still has it.                             *)
(***************************************************************************)
CONSTANT Update

VARIABLES committed,    \* the updates the durable document carries
          published     \* every version of the document so far

vars == <<committed, published>>

Init == /\ committed = {}
        /\ published = {{}}

(* A writer makes a superset of the document durable. *)
Commit(new) == /\ committed \subseteq new
               /\ committed' = new
               /\ published' = published \union {new}

Next == \E new \in SUBSET Update : Commit(new)

Spec == Init /\ [][Next]_vars
=============================================================================
