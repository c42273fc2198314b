------------------------------- MODULE Upgrade -------------------------------
(***************************************************************************)
(* install-docker.sh --upgrade, with upgrade-config.py: the working        *)
(* container is stopped and renamed, its configuration is saved and        *)
(* migrated, the new image is started and watched, and whatever does not   *)
(* get ready is rolled back.  Any command may fail, the script may be      *)
(* killed anywhere, and the administrator puts things right and tries      *)
(* again.  A version stands for an image and for the configuration that    *)
(* was migrated for it.                                                    *)
(***************************************************************************)
EXTENDS Integers

CONSTANTS MaxVersion,  \* bound: versions are released up to this one
          MaxFaults,   \* bound: commands that fail
          MaxKills     \* bound: kills of the script

ASSUME BoundAssumption == MaxVersion \in Nat \ {0} /\ MaxFaults \in Nat /\ MaxKills \in Nat

VARIABLES
  bus,      \* the container algosec-jira-bus
  previous, \* the container algosec-jira-bus-previous
  config,   \* the version of config/bus.json
  backup,   \* the version in .bus-json.upgrade-backup, or 0
  pc,       \* the script's next command, or "idle"
  target,   \* the version of the new image, and of the staged bus.json
  failed,   \* history: what failed since all was last in order
  good,     \* history: the version that was last taken into service
  faults, kills

disk == <<config, backup>>
counts == <<faults, kills>>
vars == <<bus, previous, disk, pc, target, failed, good, counts>>

Version == 1..MaxVersion
Nothing == [image |-> 0, up |-> FALSE]
Exists(container) == container.image # 0

Init == /\ bus = [image |-> 1, up |-> TRUE]
        /\ previous = Nothing
        /\ config = 1
        /\ backup = 0
        /\ pc = "idle"
        /\ target = 1
        /\ failed = {}
        /\ good = 1
        /\ faults = 0
        /\ kills = 0

InService == bus.up /\ bus.image = good /\ config = good /\ ~Exists(previous)
InOrder == InService /\ backup = 0

-----------------------------------------------------------------------------
(* How a command ends. *)
Goes(from, to) == /\ pc = from
                  /\ pc' = to
                  /\ UNCHANGED <<failed, counts>>

Fault(from, to) == /\ pc = from
                   /\ faults < MaxFaults
                   /\ faults' = faults + 1
                   /\ failed' = failed \union {from}
                   /\ pc' = to
                   /\ UNCHANGED kills

(* Faults, for the mutants: a leftover backup is overwritten; a restored    *)
(* backup stays; a failed start is followed by the old container at once;  *)
(* a failed rename ends the script.                                        *)
SaveOver == /\ \/ Goes("apply", "migrate") /\ backup' = config
               \/ Fault("apply", "put back") /\ backup' \in {backup, config}
            /\ UNCHANGED <<bus, previous, config, target, good>>
RestoreOnly == /\ \/ Goes("restore", "put back") /\ config' = backup
                  \/ Fault("restore", "put back") /\ UNCHANGED config
               /\ UNCHANGED <<bus, previous, backup, target, good>>
PutBackAtOnce == /\ \/ Goes("run", "watch") /\ bus' = [image |-> target, up |-> TRUE]
                    \/ Fault("run", "put back") /\ UNCHANGED bus
                 /\ UNCHANGED <<previous, disk, target, good>>
RenameOrLeave == /\ \/ /\ Goes("rename", "apply")
                       /\ previous' = bus
                       /\ bus' = Nothing
                    \/ Fault("rename", "idle") /\ UNCHANGED <<bus, previous>>
                 /\ UNCHANGED <<disk, target, good>>

(* The checks, the migrated copy and the new image's doctor come before    *)
(* the working container is touched: a run they refuse changes nothing.    *)
Begin(v) == /\ pc = "idle"
            /\ bus.up /\ ~Exists(previous)
            /\ v >= config
            /\ pc' = "stop"
            /\ target' = v
            /\ failed' = IF InOrder THEN {} ELSE failed
            /\ UNCHANGED <<bus, previous, disk, good, counts>>

Stop == /\ \/ Goes("stop", "rename") /\ bus' = [bus EXCEPT !.up = FALSE]
           \/ Fault("stop", "idle") /\ UNCHANGED bus
        /\ UNCHANGED <<previous, disk, target, good>>

Rename == /\ \/ /\ Goes("rename", "apply")
                /\ previous' = bus
                /\ bus' = Nothing
             \/ Fault("rename", "start") /\ UNCHANGED <<bus, previous>>
          /\ UNCHANGED <<disk, target, good>>

(* upgrade-config.py apply: two atomic writes; a backup that is there      *)
(* already is left alone.  A write can fail after it replaced the file.    *)
Save == /\ \/ backup = 0 /\ Goes("apply", "migrate") /\ backup' = config
           \/ backup # 0 /\ Goes("apply", "put back") /\ UNCHANGED backup
           \/ backup = 0 /\ Fault("apply", "put back") /\ backup' \in {0, config}
        /\ UNCHANGED <<bus, previous, config, target, good>>

Migrate == /\ \/ Goes("migrate", "run") /\ config' = target
              \/ Fault("migrate", "put back") /\ config' \in {config, target}
           /\ UNCHANGED <<bus, previous, backup, target, good>>

(* A container that does not start may have been created all the same.     *)
Run == /\ \/ Goes("run", "watch") /\ bus' = [image |-> target, up |-> TRUE]
          \/ /\ Fault("run", "remove")
             /\ bus' \in {Nothing, [image |-> target, up |-> FALSE]}
       /\ UNCHANGED <<previous, disk, target, good>>

(* Its doctor passes within the time, or not; that is no fault of a        *)
(* command.  A container that ends is restarted by Docker.                 *)
Watch == /\ Goes("watch", "helpers") \/ Goes("watch", "remove")
         /\ UNCHANGED <<bus, previous, disk, target, good>>

InstallHelpers == /\ \/ Goes("helpers", "discard") /\ good' = target
                     \/ Fault("helpers", "remove") /\ UNCHANGED good
                  /\ UNCHANGED <<bus, previous, disk, target>>

Discard == /\ \/ Goes("discard", "remove previous") /\ backup' = 0
              \/ Fault("discard", "idle") /\ UNCHANGED backup
           /\ UNCHANGED <<bus, previous, config, target, good>>

RemovePrevious == /\ \/ Goes("remove previous", "idle") /\ previous' = Nothing
                     \/ Fault("remove previous", "idle") /\ UNCHANGED previous
                  /\ UNCHANGED <<bus, disk, target, good>>

-----------------------------------------------------------------------------
(* The way back: a command that fails is passed over. *)
Remove == /\ \/ Goes("remove", "restore") /\ bus' = Nothing
             \/ Fault("remove", "restore") /\ UNCHANGED bus
          /\ UNCHANGED <<previous, disk, target, good>>

(* upgrade-config.py restore: a write, then the backup is removed. *)
Restore == /\ \/ Goes("restore", "unlink") /\ config' = backup
              \/ Fault("restore", "put back") /\ config' \in {config, backup}
           /\ UNCHANGED <<bus, previous, backup, target, good>>

Unlink == /\ \/ Goes("unlink", "put back") /\ backup' = 0
             \/ Fault("unlink", "put back") /\ UNCHANGED backup
          /\ UNCHANGED <<bus, previous, config, target, good>>

PutBack == /\ \/ /\ Goes("put back", "start")
                 /\ IF Exists(bus) THEN UNCHANGED <<bus, previous>>
                    ELSE bus' = previous /\ previous' = Nothing
              \/ Fault("put back", "start") /\ UNCHANGED <<bus, previous>>
           /\ UNCHANGED <<disk, target, good>>

StartAgain == /\ \/ Goes("start", "idle") /\ bus' = [bus EXCEPT !.up = Exists(bus)]
                 \/ Fault("start", "idle") /\ UNCHANGED bus
              /\ UNCHANGED <<previous, disk, target, good>>

-----------------------------------------------------------------------------
Kill == /\ pc # "idle"
        /\ kills < MaxKills
        /\ kills' = kills + 1
        /\ pc' = "idle"
        /\ failed' = failed \union {"the script"}
        /\ UNCHANGED <<bus, previous, disk, target, good, faults>>

(* What the script asks for, "inspect it before upgrading": the            *)
(* administrator puts the good version into service with its own           *)
(* configuration, from wherever they were left.  The backup may stay.      *)
Repair == /\ pc = "idle"
          /\ ~InService
          /\ good \in {bus.image, previous.image} /\ good \in {config, backup}
          /\ bus' = [image |-> good, up |-> TRUE]
          /\ previous' = Nothing
          /\ config' = good
          /\ backup' \in {0, backup}
          /\ failed' = IF backup' = 0 THEN {} ELSE failed
          /\ UNCHANGED <<pc, target, good, counts>>

Tidy == /\ pc = "idle"
        /\ InService
        /\ backup' = 0
        /\ failed' = {}
        /\ UNCHANGED <<bus, previous, config, pc, target, good, counts>>

Next == \/ \E v \in Version : Begin(v)
        \/ Stop \/ Rename \/ Save \/ Migrate \/ Run \/ Watch
        \/ InstallHelpers \/ Discard \/ RemovePrevious
        \/ Remove \/ Restore \/ Unlink \/ PutBack \/ StartAgain
        \/ Kill \/ Repair \/ Tidy

Spec == Init /\ [][Next]_vars

-----------------------------------------------------------------------------
Container == [image : 0..MaxVersion, up : BOOLEAN]

Commands == {"stop", "rename", "apply", "migrate", "run", "watch", "helpers", "discard",
             "remove previous", "remove", "restore", "unlink", "put back", "start"}

(* The shape of the state. *)
TypeOK == /\ bus \in Container /\ previous \in Container
          /\ config \in Version /\ backup \in 0..MaxVersion
          /\ pc \in Commands \union {"idle"}
          /\ target \in Version /\ good \in Version
          /\ failed \subseteq Commands \union {"the script"}
          /\ faults \in 0..MaxFaults /\ kills \in 0..MaxKills

(* Whatever fails and wherever the script is killed, the version that was  *)
(* last in service can be put back: its container and its configuration    *)
(* are somewhere (README.md:137, install-docker.sh:383-460).               *)
NothingLost == /\ good \in {bus.image, previous.image}
               /\ good \in {config, backup}

(* Another version is taken into service only when it is at work with its  *)
(* own configuration, and while the one before and its configuration are   *)
(* still kept (install-docker.sh:446-448).                                 *)
TakenOver == [][good' # good => /\ bus.up /\ bus.image = good' /\ config = good'
                                /\ previous.image = good /\ backup = good]_vars

WayBack == {"remove", "restore", "put back", "start"}

(* A bus that runs, runs with the configuration that was migrated for it,  *)
(* unless a command of the way back failed, or the migration failed after  *)
(* it replaced the file: the script then starts the old container again    *)
(* but does not restore its configuration (install-docker.sh:418-423).     *)
RunsWithItsConfig ==
  bus.up /\ failed \intersect (WayBack \union {"migrate"}) = {} => bus.image = config

Ends == pc # "idle" /\ pc' = "idle" /\ kills' = kills

(* A run that ends by itself leaves a bus at work, the new or the old one, *)
(* unless a command of the way back failed (README.md:137-138).            *)
EndsInService == [][Ends /\ failed' \intersect WayBack = {} => bus'.up]_vars

(* It also leaves nothing that makes every later upgrade refuse, unless it *)
(* was killed or a command failed that had that to remove.  A failed apply *)
(* (the steps "apply" and "migrate") is such a case: it leaves its backup  *)
(* for good, although the way back succeeds (upgrade-config.py:133-142).   *)
Leaves == WayBack \union {"apply", "migrate", "unlink", "discard",
                          "remove previous", "the script"}
CanTryAgain ==
  pc = "idle" /\ (backup # 0 \/ Exists(previous)) => failed \intersect Leaves # {}
=============================================================================
