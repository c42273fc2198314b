------------------------------ MODULE StateFile ------------------------------
(***************************************************************************)
(* The state file jira-sync.json, its flock and the CLI processes that use *)
(* it (algosec_jira_bus/sync.py class State, algosec_jira_bus/bus.py       *)
(* session, show_queue and examine).                                       *)
(*                                                                         *)
(* Every writing command (poll, mirror, reconcile, release, ...) runs in   *)
(* bus.session: it takes an exclusive flock, loads the file, and only then *)
(* calls Jira and FireFlow and saves the whole document after each change, *)
(* through a temporary file and os.replace.  `queue` and `doctor` load the *)
(* file without the lock and never write it.  A process may die anywhere;  *)
(* the kernel then drops its flock and its memory is gone.                 *)
(*                                                                         *)
(* The document is the set of the updates it carries.                      *)
(***************************************************************************)
EXTENDS Integers

CONSTANTS Proc,        \* the bus processes of one host
          Reader,      \* those that run `queue` or `doctor`
          Nobody,      \* the holder of a free lock
          MaxUpdates   \* bound: updates one process makes in its life

ASSUME ReaderAssumption == Reader \subseteq Proc
ASSUME NobodyAssumption == Nobody \notin Proc
ASSUME MaxUpdatesAssumption == MaxUpdates \in Nat

(* The n-th update of process p. *)
Update == Proc \X (1..MaxUpdates)

VARIABLES pc,          \* where each process is
          holder,      \* who has the flock
          disk,        \* the document in jira-sync.json
          memory,      \* State.data of each process
          temporary,   \* the temporary file of a save in progress
          made,        \* how many updates each process has made
          versions     \* history: every document jira-sync.json has been

vars == <<pc, holder, disk, memory, temporary, made, versions>>

Init == /\ pc = [p \in Proc |-> "stopped"]
        /\ holder = Nobody
        /\ disk = {}
        /\ memory = [p \in Proc |-> {}]
        /\ temporary = [p \in Proc |-> {}]
        /\ made = [p \in Proc |-> 0]
        /\ versions = {{}}

-----------------------------------------------------------------------------
(* Fault, for the mutant runs: flock taken without waiting for its holder. *)
LockUnwaited(p) == /\ pc[p] = "stopped"
                   /\ p \notin Reader
                   /\ holder' = p
                   /\ pc' = [pc EXCEPT ![p] = "locked"]
                   /\ UNCHANGED <<disk, memory, temporary, made, versions>>

(* State.lock: flock(LOCK_EX) returns to one waiter once nobody holds it.  *)
Lock(p) == /\ pc[p] = "stopped"
           /\ p \notin Reader
           /\ holder = Nobody
           /\ holder' = p
           /\ pc' = [pc EXCEPT ![p] = "locked"]
           /\ UNCHANGED <<disk, memory, temporary, made, versions>>

(* build inside session: State.__init__ reads the file under the lock. *)
Load(p) == /\ pc[p] = "locked"
           /\ memory' = [memory EXCEPT ![p] = disk]
           /\ pc' = [pc EXCEPT ![p] = "working"]
           /\ UNCHANGED <<holder, disk, temporary, made, versions>>

(* State.record, Failures.record, ...: change State.data in memory. *)
Change(p) == /\ pc[p] = "working"
             /\ made[p] < MaxUpdates
             /\ made' = [made EXCEPT ![p] = @ + 1]
             /\ memory' = [memory EXCEPT ![p] = @ \union {<<p, made[p] + 1>>}]
             /\ pc' = [pc EXCEPT ![p] = "saving"]
             /\ UNCHANGED <<holder, disk, temporary, versions>>

(* Fault: the state file itself is rewritten, and is half written a while. *)
WriteInPlace(p) == /\ pc[p] = "saving"
                   /\ disk' \in SUBSET memory[p]
                   /\ temporary' = [temporary EXCEPT ![p] = memory[p]]
                   /\ pc' = [pc EXCEPT ![p] = "replacing"]
                   /\ UNCHANGED <<holder, memory, made, versions>>

(* State.save, first half: the whole of State.data goes to a temporary     *)
(* file beside the state file.                                             *)
WriteTemporary(p) == /\ pc[p] = "saving"
                     /\ temporary' = [temporary EXCEPT ![p] = memory[p]]
                     /\ pc' = [pc EXCEPT ![p] = "replacing"]
                     /\ UNCHANGED <<holder, disk, memory, made, versions>>

(* State.save, second half: os.replace. *)
Replace(p) == /\ pc[p] = "replacing"
              /\ disk' = temporary[p]
              /\ versions' = versions \union {temporary[p]}
              /\ temporary' = [temporary EXCEPT ![p] = {}]
              /\ pc' = [pc EXCEPT ![p] = "working"]
              /\ UNCHANGED <<holder, memory, made>>

(* A save that raises (a full disk): the temporary file is removed, the    *)
(* change stays in State.data.  The caller may catch the exception, as     *)
(* sync_updates and mirror do for one issue, and save again later.         *)
SaveFails(p) == /\ pc[p] \in {"saving", "replacing"}
                /\ temporary' = [temporary EXCEPT ![p] = {}]
                /\ pc' = [pc EXCEPT ![p] = "working"]
                /\ UNCHANGED <<holder, disk, memory, made, versions>>

(* The session ends: os.close drops the flock. *)
Unlock(p) == /\ pc[p] = "working"
             /\ holder = p
             /\ holder' = Nobody
             /\ pc' = [pc EXCEPT ![p] = "stopped"]
             /\ memory' = [memory EXCEPT ![p] = {}]
             /\ UNCHANGED <<disk, temporary, made, versions>>

(* show_queue and examine: build without the lock, then only look. *)
Look(p) == /\ pc[p] = "stopped"
           /\ p \in Reader
           /\ memory' = [memory EXCEPT ![p] = disk]
           /\ pc' = [pc EXCEPT ![p] = "looking"]
           /\ UNCHANGED <<holder, disk, temporary, made, versions>>

LookDone(p) == /\ pc[p] = "looking"
               /\ memory' = [memory EXCEPT ![p] = {}]
               /\ pc' = [pc EXCEPT ![p] = "stopped"]
               /\ UNCHANGED <<holder, disk, temporary, made, versions>>

(* The process is killed: by the scheduler's timeout, a signal, the host.  *)
Die(p) == /\ pc[p] # "stopped"
          /\ pc' = [pc EXCEPT ![p] = "stopped"]
          /\ holder' = IF holder = p THEN Nobody ELSE holder
          /\ memory' = [memory EXCEPT ![p] = {}]
          /\ temporary' = [temporary EXCEPT ![p] = {}]
          /\ UNCHANGED <<disk, made, versions>>

Next == \E p \in Proc : \/ Lock(p)
                        \/ Load(p)
                        \/ Change(p)
                        \/ WriteTemporary(p)
                        \/ Replace(p)
                        \/ SaveFails(p)
                        \/ Unlock(p)
                        \/ Look(p)
                        \/ LookDone(p)
                        \/ Die(p)

Spec == Init /\ [][Next]_vars
-----------------------------------------------------------------------------
(* The shape of every variable of the state file and its processes; the    *)
(* file is always one of its recorded versions.                            *)
TypeOK == /\ pc \in [Proc -> {"stopped", "locked", "working", "saving",
                              "replacing", "looking"}]
          /\ holder \in Proc \union {Nobody}
          /\ disk \in SUBSET Update
          /\ memory \in [Proc -> SUBSET Update]
          /\ temporary \in [Proc -> SUBSET Update]
          /\ made \in [Proc -> Nat]
          /\ versions \in SUBSET SUBSET Update
          /\ disk \in versions

(* No save ever drops an update that some process had already saved, in    *)
(* whatever order the processes load, change, save and die                 *)
(* (sync.py:305-308: a blocked writer loads fresh state only after the     *)
(* previous process finishes).                                             *)
NoLostUpdate == [][disk \subseteq disk']_disk

(* What an unlocked `queue` or `doctor` reports is a document that was     *)
(* really saved, never half of one (bus.py:172-179 load without the lock). *)
ReaderSeesSaved == \A p \in Proc :
                      pc[p] = "looking" => memory[p] \in versions

(* While a session may still save, its memory has everything the file has: *)
(* nobody saved behind its back since it loaded, although every save       *)
(* replaces the whole document (sync.py:332-356).                          *)
SessionIsCurrent == \A p \in Proc : pc[p] \in {"working", "saving", "replacing"}
                                      => disk \subseteq memory[p]

(* Every step of the processes is, to the outside, a commit of SerialStore *)
(* or no step at all: the flock around load and save makes the file one    *)
(* serial document.                                                        *)
Serial == INSTANCE SerialStore WITH committed <- disk, published <- versions
SerialSpec == Serial!Spec
=============================================================================
