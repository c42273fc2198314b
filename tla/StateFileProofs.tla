--------------------------- MODULE StateFileProofs ---------------------------
(***************************************************************************)
(* Proofs about the state file for any number of processes and updates:    *)
(* its inductive invariant, that no update is lost, and that it implements *)
(* SerialStore.                                                            *)
(***************************************************************************)
EXTENDS StateFile, TLAPS

InSession == {"locked", "working", "saving", "replacing"}

(* Only the holder of the flock is in a session. *)
Exclusive == \A p \in Proc : pc[p] \in InSession => holder = p

(* The temporary file about to be renamed is the whole of memory. *)
TemporaryComplete == \A p \in Proc :
                        pc[p] = "replacing" => temporary[p] = memory[p]

IInv == /\ TypeOK
        /\ Exclusive
        /\ SessionIsCurrent
        /\ TemporaryComplete
        /\ ReaderSeesSaved

-----------------------------------------------------------------------------
(* The shape of the variables is kept by every step of any process. *)
LEMMA TypeInvariant == Spec => []TypeOK
<1>1. Init => TypeOK
  BY DEF Init, TypeOK
<1>2. TypeOK /\ [Next]_vars => TypeOK'
  <2> SUFFICES ASSUME TypeOK, [Next]_vars PROVE TypeOK'
    OBVIOUS
  <2> USE DEF TypeOK
  <2>1. ASSUME NEW p \in Proc, Change(p) PROVE TypeOK'
    <3>1. <<p, made[p] + 1>> \in Update
      BY <2>1, MaxUpdatesAssumption DEF Change, Update
    <3> QED BY <2>1, <3>1 DEF Change
  <2>2. ASSUME NEW p \in Proc,
               Lock(p) \/ Load(p) \/ WriteTemporary(p) \/ SaveFails(p) \/ Unlock(p)
        PROVE  TypeOK'
    BY <2>2 DEF Lock, Load, WriteTemporary, SaveFails, Unlock
  <2>3. ASSUME NEW p \in Proc, Replace(p) PROVE TypeOK'
    BY <2>3 DEF Replace
  <2>4. ASSUME NEW p \in Proc, Look(p) \/ LookDone(p) \/ Die(p) PROVE TypeOK'
    BY <2>4 DEF Look, LookDone, Die
  <2>5. CASE UNCHANGED vars
    BY <2>5 DEF vars
  <2> QED BY <2>1, <2>2, <2>3, <2>4, <2>5 DEF Next
<1> QED BY <1>1, <1>2, PTL DEF Spec

-----------------------------------------------------------------------------
(* Every step keeps the inductive invariant: the flock is what makes the   *)
(* memory of a session a superset of the file it will replace.             *)
LEMMA StepKeepsIInv == IInv /\ TypeOK' /\ [Next]_vars => IInv'
<1> SUFFICES ASSUME IInv, TypeOK', [Next]_vars PROVE IInv'
  OBVIOUS
<1> USE DEF IInv, TypeOK, Exclusive, InSession, SessionIsCurrent,
            TemporaryComplete, ReaderSeesSaved
<1>1. ASSUME NEW p \in Proc, Lock(p) PROVE IInv'
  BY <1>1, NobodyAssumption DEF Lock
<1>2. ASSUME NEW p \in Proc, Load(p) PROVE IInv'
  BY <1>2 DEF Load
<1>3. ASSUME NEW p \in Proc, Change(p) PROVE IInv'
  BY <1>3 DEF Change
<1>4. ASSUME NEW p \in Proc, WriteTemporary(p) PROVE IInv'
  BY <1>4 DEF WriteTemporary
<1>5. ASSUME NEW p \in Proc, Replace(p) PROVE IInv'
  <2>1. \A q \in Proc : pc[q] \in InSession => q = p
    BY <1>5 DEF Replace
  <2> QED BY <1>5, <2>1 DEF Replace
<1>6. ASSUME NEW p \in Proc, SaveFails(p) PROVE IInv'
  BY <1>6 DEF SaveFails
<1>7. ASSUME NEW p \in Proc, Unlock(p) PROVE IInv'
  BY <1>7 DEF Unlock
<1>8. ASSUME NEW p \in Proc, Look(p) \/ LookDone(p) PROVE IInv'
  BY <1>8 DEF Look, LookDone
<1>9. ASSUME NEW p \in Proc, Die(p) PROVE IInv'
  BY <1>9 DEF Die
<1>10. CASE UNCHANGED vars
  BY <1>10 DEF vars
<1> QED BY <1>1, <1>2, <1>3, <1>4, <1>5, <1>6, <1>7, <1>8, <1>9, <1>10 DEF Next

(* The inductive invariant holds of every behaviour. *)
LEMMA Invariant == Spec => []IInv
<1>1. Init => IInv
  BY DEF Init, IInv, TypeOK, Exclusive, InSession, SessionIsCurrent,
         TemporaryComplete, ReaderSeesSaved
<1> QED BY <1>1, TypeInvariant, StepKeepsIInv, PTL DEF Spec

(* Nothing is saved behind the back of a session that may still save. *)
THEOREM Current == Spec => []SessionIsCurrent
BY Invariant, PTL DEF IInv

(* `queue` and `doctor` only ever report documents that were saved. *)
THEOREM ReadersSeeSaved == Spec => []ReaderSeesSaved
BY Invariant, PTL DEF IInv

(* The document only grows: for every number of processes no interleaving  *)
(* of loads, saves, failures and kills loses an update.                    *)
THEOREM NoUpdateIsLost == Spec => NoLostUpdate
<1>1. IInv /\ [Next]_vars => [disk \subseteq disk']_disk
  <2> SUFFICES ASSUME IInv, [Next]_vars PROVE disk \subseteq disk'
    OBVIOUS
  <2>1. ASSUME NEW p \in Proc, Replace(p) PROVE disk \subseteq disk'
    BY <2>1 DEF Replace, IInv, SessionIsCurrent, TemporaryComplete
  <2> QED
    BY <2>1 DEF Next, vars, Lock, Load, Change, WriteTemporary, SaveFails, Unlock,
                Look, LookDone, Die
<1> QED BY <1>1, Invariant, PTL DEF Spec, NoLostUpdate

(* The file with its lock implements the serial document. *)
THEOREM Refinement == Spec => SerialSpec
<1>1. Init => Serial!Init
  BY DEF Init, Serial!Init
<1>2. IInv /\ TypeOK' /\ [Next]_vars => [Serial!Next]_<<disk, versions>>
  <2> SUFFICES ASSUME IInv, TypeOK', [Next]_vars
               PROVE  Serial!Next \/ UNCHANGED <<disk, versions>>
    OBVIOUS
  <2>1. ASSUME NEW p \in Proc, Replace(p) PROVE Serial!Next
    <3>1. temporary[p] \in SUBSET Update /\ disk \subseteq temporary[p]
      BY <2>1 DEF Replace, IInv, TypeOK, SessionIsCurrent, TemporaryComplete
    <3>2. Serial!Commit(temporary[p])
      BY <2>1, <3>1 DEF Replace, Serial!Commit
    <3> QED BY <3>1, <3>2 DEF Serial!Next
  <2> QED
    BY <2>1 DEF Next, vars, Lock, Load, Change, WriteTemporary, SaveFails, Unlock,
                Look, LookDone, Die
<1> QED BY <1>1, <1>2, Invariant, TypeInvariant, PTL
        DEF Spec, SerialSpec, Serial!Spec, Serial!vars
=============================================================================
