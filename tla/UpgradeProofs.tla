---------------------------- MODULE UpgradeProofs ----------------------------
(***************************************************************************)
(* What Upgrade.tla says of install-docker.sh --upgrade, for any number of *)
(* versions, failing commands and kills.                                   *)
(*                                                                         *)
(* A run goes through a few stages, and each has its own reason why the    *)
(* good version is not lost: before the rename it is in its place, then in *)
(* the previous container and, once the configuration was saved, in the    *)
(* backup; when the helpers are installed the new one has become the good  *)
(* one.  Ways, Matches, Serves and Leftovers say so, stage by stage.       *)
(***************************************************************************)
EXTENDS Upgrade, TLAPS

(* Where the good version is. *)
Ways ==
  /\ pc \in {"stop", "rename"} => bus.image = good
  /\ pc \in {"apply", "migrate", "run", "watch", "helpers", "remove", "restore", "unlink"} =>
       previous.image = good
  /\ pc \in {"migrate", "run", "watch", "helpers", "remove", "restore"} => backup = good
  /\ pc \in {"run", "watch", "helpers"} => config = target
  /\ pc \in {"watch", "helpers"} => bus.image = target
  /\ pc \in {"discard", "remove previous"} => bus.image = good /\ config = good
  /\ pc = "unlink" => config = good

Clean == failed \intersect (WayBack \union {"migrate"}) = {}

(* The container in its place, or coming back to it, fits the configuration. *)
Matches ==
  /\ pc \in {"apply", "migrate", "run"} => bus = Nothing
  /\ Clean => /\ bus.up => bus.image = config
              /\ pc \in {"stop", "rename"} => bus.image = config
              /\ pc \in {"apply", "put back"} => previous.image = config
              /\ pc \in {"restore", "unlink", "put back"} => bus = Nothing
              /\ pc = "start" => bus.image = config

(* The bus is up, or there is one to start. *)
Serves ==
  /\ pc \in {"stop", "watch", "helpers", "discard", "remove previous"} => bus.up
  /\ pc = "start" /\ failed \intersect WayBack = {} => Exists(bus)

(* What is left for the next run to trip over. *)
Leftovers ==
  failed \intersect Leaves = {} =>
    /\ pc \in {"idle", "stop", "rename", "apply", "put back", "start", "remove previous"} =>
         backup = 0
    /\ pc \in {"idle", "stop", "rename", "start"} => ~Exists(previous)

IInv == TypeOK /\ NothingLost /\ Ways /\ Matches /\ Serves /\ Leftovers

-----------------------------------------------------------------------------
(* The two halves of TypeOK: the script, and what it works on. *)
ScriptOK == /\ pc \in Commands \union {"idle"}
            /\ failed \subseteq Commands \union {"the script"}
            /\ faults \in 0..MaxFaults /\ kills \in 0..MaxKills

PlacesOK == /\ bus \in Container /\ previous \in Container
            /\ config \in Version /\ backup \in 0..MaxVersion
            /\ target \in Version /\ good \in Version

(* A command ends in one of its two ways, and keeps the script's half. *)
LEMMA CommandEnds ==
  ASSUME ScriptOK, NEW from \in Commands, NEW to \in Commands \union {"idle"},
         Goes(from, to) \/ Fault(from, to)
  PROVE  ScriptOK'
<1>1. CASE Goes(from, to)
  BY <1>1 DEF ScriptOK, Goes, counts
<1>2. CASE Fault(from, to)
  <2>1. faults \in 0..MaxFaults /\ kills \in 0..MaxKills
    BY DEF ScriptOK
  <2>2. faults < MaxFaults /\ faults' = faults + 1 /\ kills' = kills
    BY <1>2 DEF Fault
  <2>3. faults' \in 0..MaxFaults /\ kills' \in 0..MaxKills
    BY <2>1, <2>2, BoundAssumption
  <2>. QED BY <1>2, <2>3 DEF ScriptOK, Fault
<1>. QED BY <1>1, <1>2

(* What the actions put into the places. *)
LEMMA Places ==
  /\ Nothing \in Container
  /\ 0 \in 0..MaxVersion
  /\ \A v \in Version : v \in 0..MaxVersion
  /\ \A v \in Version, u \in BOOLEAN : [image |-> v, up |-> u] \in Container
  /\ \A c \in Container, u \in BOOLEAN : [c EXCEPT !.up = u] \in Container
BY BoundAssumption DEF Nothing, Container, Version

(* Every step keeps the shape of the state. *)
LEMMA StepTypeOK ==
  ASSUME IInv, [Next]_vars PROVE TypeOK'
<1> DEFINE Shape == ScriptOK /\ PlacesOK
<1>. SUFFICES Shape'
  BY DEF TypeOK, ScriptOK, PlacesOK
<1>0. Shape
  BY DEF IInv, TypeOK, ScriptOK, PlacesOK
<1>1. ASSUME NEW v \in Version, Begin(v) PROVE Shape'
  <2>1. ScriptOK'
    BY <1>0, <1>1 DEF Begin, ScriptOK, counts, Commands
  <2>. QED BY <1>0, <1>1, <2>1 DEF Begin, PlacesOK, disk
<1>2. CASE Stop
  <2>1. Goes("stop", "rename") \/ Fault("stop", "idle")
    BY <1>2 DEF Stop
  <2>2. ScriptOK'
    BY <1>0, <2>1, CommandEnds DEF Commands
  <2>. QED BY <1>0, <1>2, <2>2, Places DEF Stop, PlacesOK, disk
<1>3. CASE Rename
  <2>1. Goes("rename", "apply") \/ Fault("rename", "start")
    BY <1>3 DEF Rename
  <2>2. ScriptOK'
    BY <1>0, <2>1, CommandEnds DEF Commands
  <2>. QED BY <1>0, <1>3, <2>2, Places DEF Rename, PlacesOK, disk
<1>4. CASE Save
  <2>1. Goes("apply", "migrate") \/ Goes("apply", "put back") \/ Fault("apply", "put back")
    BY <1>4 DEF Save
  <2>2. ScriptOK'
    BY <1>0, <2>1, CommandEnds DEF Commands
  <2>. QED BY <1>0, <1>4, <2>2, Places DEF Save, PlacesOK, disk
<1>5. CASE Migrate
  <2>1. Goes("migrate", "run") \/ Fault("migrate", "put back")
    BY <1>5 DEF Migrate
  <2>2. ScriptOK'
    BY <1>0, <2>1, CommandEnds DEF Commands
  <2>. QED BY <1>0, <1>5, <2>2 DEF Migrate, PlacesOK, disk
<1>6. CASE Run
  <2>1. Goes("run", "watch") \/ Fault("run", "remove")
    BY <1>6 DEF Run
  <2>2. ScriptOK'
    BY <1>0, <2>1, CommandEnds DEF Commands
  <2>. QED BY <1>0, <1>6, <2>2, Places DEF Run, PlacesOK, disk
<1>7. CASE Watch
  <2>1. Goes("watch", "helpers") \/ Goes("watch", "remove")
    BY <1>7 DEF Watch
  <2>2. ScriptOK'
    BY <1>0, <2>1, CommandEnds DEF Commands
  <2>. QED BY <1>0, <1>7, <2>2 DEF Watch, PlacesOK, disk
<1>8. CASE InstallHelpers
  <2>1. Goes("helpers", "discard") \/ Fault("helpers", "remove")
    BY <1>8 DEF InstallHelpers
  <2>2. ScriptOK'
    BY <1>0, <2>1, CommandEnds DEF Commands
  <2>. QED BY <1>0, <1>8, <2>2 DEF InstallHelpers, PlacesOK, disk
<1>9. CASE Discard
  <2>1. Goes("discard", "remove previous") \/ Fault("discard", "idle")
    BY <1>9 DEF Discard
  <2>2. ScriptOK'
    BY <1>0, <2>1, CommandEnds DEF Commands
  <2>. QED BY <1>0, <1>9, <2>2, Places DEF Discard, PlacesOK, disk
<1>10. CASE RemovePrevious
  <2>1. Goes("remove previous", "idle") \/ Fault("remove previous", "idle")
    BY <1>10 DEF RemovePrevious
  <2>2. ScriptOK'
    BY <1>0, <2>1, CommandEnds DEF Commands
  <2>. QED BY <1>0, <1>10, <2>2, Places DEF RemovePrevious, PlacesOK, disk
<1>11. CASE Remove
  <2>1. Goes("remove", "restore") \/ Fault("remove", "restore")
    BY <1>11 DEF Remove
  <2>2. ScriptOK'
    BY <1>0, <2>1, CommandEnds DEF Commands
  <2>. QED BY <1>0, <1>11, <2>2, Places DEF Remove, PlacesOK, disk
<1>12. CASE Restore
  <2>1. Goes("restore", "unlink") \/ Fault("restore", "put back")
    BY <1>12 DEF Restore
  <2>2. ScriptOK'
    BY <1>0, <2>1, CommandEnds DEF Commands
  <2>3. backup = good
    BY <2>1 DEF Goes, Fault, IInv, Ways
  <2>. QED BY <1>0, <1>12, <2>2, <2>3 DEF Restore, PlacesOK, disk
<1>13. CASE Unlink
  <2>1. Goes("unlink", "put back") \/ Fault("unlink", "put back")
    BY <1>13 DEF Unlink
  <2>2. ScriptOK'
    BY <1>0, <2>1, CommandEnds DEF Commands
  <2>. QED BY <1>0, <1>13, <2>2, Places DEF Unlink, PlacesOK, disk
<1>14. CASE PutBack
  <2>1. Goes("put back", "start") \/ Fault("put back", "start")
    BY <1>14 DEF PutBack
  <2>2. ScriptOK'
    BY <1>0, <2>1, CommandEnds DEF Commands
  <2>. QED BY <1>0, <1>14, <2>2, Places DEF PutBack, PlacesOK, disk
<1>15. CASE StartAgain
  <2>1. Goes("start", "idle") \/ Fault("start", "idle")
    BY <1>15 DEF StartAgain
  <2>2. ScriptOK'
    BY <1>0, <2>1, CommandEnds DEF Commands
  <2>. QED BY <1>0, <1>15, <2>2, Places DEF StartAgain, PlacesOK, disk, Exists
<1>16. CASE Kill
  <2>1. kills \in 0..MaxKills
    BY <1>0 DEF ScriptOK
  <2>2. kills < MaxKills /\ kills' = kills + 1
    BY <1>16 DEF Kill
  <2>3. kills' \in 0..MaxKills
    BY <2>1, <2>2, BoundAssumption
  <2>4. ScriptOK'
    BY <1>0, <1>16, <2>3 DEF Kill, ScriptOK, counts
  <2>. QED BY <1>0, <1>16, <2>4 DEF Kill, PlacesOK, disk
<1>17. CASE Repair
  <2>1. ScriptOK'
    BY <1>0, <1>17 DEF Repair, ScriptOK, counts
  <2>. QED BY <1>0, <1>17, <2>1, Places DEF Repair, PlacesOK, disk
<1>18. CASE Tidy
  <2>1. ScriptOK'
    BY <1>0, <1>18 DEF Tidy, ScriptOK, counts
  <2>. QED BY <1>0, <1>18, <2>1, Places DEF Tidy, PlacesOK, disk
<1>19. CASE UNCHANGED vars
  <2>1. ScriptOK'
    BY <1>0, <1>19 DEF vars, counts, ScriptOK
  <2>. QED BY <1>0, <1>19, <2>1 DEF vars, disk, PlacesOK
<1>20. QED
  BY <1>1, <1>2, <1>3, <1>4, <1>5, <1>6, <1>7, <1>8, <1>9, <1>10, <1>11, <1>12, <1>13, <1>14, <1>15, <1>16, <1>17, <1>18, <1>19 DEF Next

(* No container is up in an empty place. *)
LEMMA NothingIsDown ==
  Nothing.image = 0 /\ ~Nothing.up
BY DEF Nothing

(* There is a good version. *)
LEMMA GoodIsSome ==
  TypeOK => good # 0
<1>1. TypeOK => good \in 1..MaxVersion
  BY DEF TypeOK, Version
<1>. QED BY <1>1, BoundAssumption

(* Every step keeps the good version, and the stage's reason for it.        *)
LEMMA StepWays ==
  ASSUME IInv, [Next]_vars PROVE NothingLost' /\ Ways'
<1>0. good # 0
  BY GoodIsSome DEF IInv
<1> USE <1>0, NothingIsDown DEF IInv, Exists, disk, counts, Ways, NothingLost
<1>1. ASSUME NEW v \in Version, Begin(v) PROVE NothingLost' /\ Ways'
  <2>1. bus.image = good /\ previous.image = 0
    BY <1>1 DEF Begin
  <2>. QED BY <1>1, <2>1 DEF Begin
<1>2. CASE Stop
  BY <1>2 DEF Stop, Goes, Fault, TypeOK, Container
<1>3. CASE Rename
  BY <1>3 DEF Rename, Goes, Fault
<1>4. CASE Save
  <2>1. UNCHANGED <<bus, previous, config, target, good>>
    BY <1>4 DEF Save, disk
  <2>2. CASE backup = 0 /\ Goes("apply", "migrate") /\ backup' = config
    BY <2>1, <2>2 DEF Goes
  <2>3. CASE backup # 0 /\ Goes("apply", "put back") /\ UNCHANGED backup
    BY <2>1, <2>3 DEF Goes
  <2>4. CASE backup = 0 /\ Fault("apply", "put back") /\ backup' \in {0, config}
    <3>1. pc = "apply" /\ failed' = failed \union {"apply"}
      BY <2>4 DEF Fault
    <3>. QED BY <2>1, <2>4, <3>1 DEF Fault
  <2>. QED BY <1>4, <2>2, <2>3, <2>4 DEF Save
<1>5. CASE Migrate
  BY <1>5 DEF Migrate, Goes, Fault
<1>6. CASE Run
  <2>1. UNCHANGED <<previous, disk, target, good>>
    BY <1>6 DEF Run, disk
  <2>2. CASE Goes("run", "watch") /\ bus' = [image |-> target, up |-> TRUE]
    BY <2>1, <2>2 DEF Goes
  <2>3. CASE Fault("run", "remove") /\ bus' = Nothing
    <3>1. pc = "run" /\ failed' = failed \union {"run"}
      BY <2>3 DEF Fault
    <3>. QED BY <2>1, <2>3, <3>1 DEF Fault
  <2>4. CASE Fault("run", "remove") /\ bus' = [image |-> target, up |-> FALSE]
    <3>1. pc = "run" /\ failed' = failed \union {"run"}
      BY <2>4 DEF Fault
    <3>. QED BY <2>1, <2>4, <3>1 DEF Fault
  <2>. QED BY <1>6, <2>2, <2>3, <2>4 DEF Run
<1>7. CASE Watch
  BY <1>7 DEF Watch, Goes
<1>8. CASE InstallHelpers
  BY <1>8 DEF InstallHelpers, Goes, Fault
<1>9. CASE Discard
  BY <1>9 DEF Discard, Goes, Fault
<1>10. CASE RemovePrevious
  BY <1>10 DEF RemovePrevious, Goes, Fault
<1>11. CASE Remove
  BY <1>11 DEF Remove, Goes, Fault
<1>12. CASE Restore
  BY <1>12 DEF Restore, Goes, Fault
<1>13. CASE Unlink
  BY <1>13 DEF Unlink, Goes, Fault
<1>14. CASE PutBack
  <2>1. UNCHANGED <<disk, target, good>>
    BY <1>14 DEF PutBack, disk
  <2>2. CASE Goes("put back", "start") /\ Exists(bus) /\ UNCHANGED <<bus, previous>>
    BY <2>1, <2>2 DEF Goes
  <2>3. CASE Goes("put back", "start") /\ ~Exists(bus) /\ bus' = previous /\ previous' = Nothing
    BY <2>1, <2>3 DEF Goes
  <2>4. CASE Fault("put back", "start") /\ UNCHANGED <<bus, previous>>
    <3>1. pc = "put back" /\ failed' = failed \union {"put back"}
      BY <2>4 DEF Fault
    <3>. QED BY <2>1, <2>4, <3>1 DEF Fault
  <2>. QED BY <1>14, <2>2, <2>3, <2>4 DEF PutBack
<1>15. CASE StartAgain
  BY <1>15 DEF StartAgain, Goes, Fault, TypeOK, Container
<1>16. CASE Kill
  BY <1>16 DEF Kill
<1>17. CASE Repair
  BY <1>17 DEF Repair, InService
<1>18. CASE Tidy
  BY <1>18 DEF Tidy, InService
<1>19. CASE UNCHANGED vars
  BY <1>19 DEF vars, disk, counts
<1>20. QED
  BY <1>1, <1>2, <1>3, <1>4, <1>5, <1>6, <1>7, <1>8, <1>9, <1>10, <1>11, <1>12, <1>13, <1>14, <1>15, <1>16, <1>17, <1>18, <1>19 DEF Next

(* Every step keeps what runs, and what will be started, fit to the configuration. *)
LEMMA StepMatches ==
  ASSUME IInv, [Next]_vars PROVE Matches'
<1>0. good # 0
  BY GoodIsSome DEF IInv
<1> USE <1>0, NothingIsDown DEF IInv, Exists, disk, counts, Ways, NothingLost, Matches, Clean, WayBack
<1>1. ASSUME NEW v \in Version, Begin(v) PROVE Matches'
  BY <1>1 DEF Begin, InOrder, InService
<1>2. CASE Stop
  BY <1>2 DEF Stop, Goes, Fault, TypeOK, Container
<1>3. CASE Rename
  <2>1. UNCHANGED <<disk, target, good>>
    BY <1>3 DEF Rename, disk
  <2>2. CASE Goes("rename", "apply") /\ previous' = bus /\ bus' = Nothing
    BY <2>1, <2>2 DEF Goes
  <2>3. CASE Fault("rename", "start") /\ UNCHANGED <<bus, previous>>
    <3>1. pc = "rename" /\ failed' = failed \union {"rename"}
      BY <2>3 DEF Fault
    <3>. QED BY <2>1, <2>3, <3>1 DEF Fault
  <2>. QED BY <1>3, <2>2, <2>3 DEF Rename
<1>4. CASE Save
  BY <1>4 DEF Save, Goes, Fault
<1>5. CASE Migrate
  <2>1. UNCHANGED <<bus, previous, backup, target, good>>
    BY <1>5 DEF Migrate, disk
  <2>2. CASE Goes("migrate", "run") /\ config' = target
    BY <2>1, <2>2 DEF Goes
  <2>3. CASE Fault("migrate", "put back") /\ config' \in {config, target}
    <3>1. pc = "migrate" /\ failed' = failed \union {"migrate"}
      BY <2>3 DEF Fault
    <3>. QED BY <2>1, <2>3, <3>1 DEF Fault
  <2>. QED BY <1>5, <2>2, <2>3 DEF Migrate
<1>6. CASE Run
  <2>1. UNCHANGED <<previous, disk, target, good>>
    BY <1>6 DEF Run, disk
  <2>2. CASE Goes("run", "watch") /\ bus' = [image |-> target, up |-> TRUE]
    BY <2>1, <2>2 DEF Goes
  <2>3. CASE Fault("run", "remove") /\ bus' = Nothing
    <3>1. pc = "run" /\ failed' = failed \union {"run"}
      BY <2>3 DEF Fault
    <3>. QED BY <2>1, <2>3, <3>1 DEF Fault
  <2>4. CASE Fault("run", "remove") /\ bus' = [image |-> target, up |-> FALSE]
    <3>1. pc = "run" /\ failed' = failed \union {"run"}
      BY <2>4 DEF Fault
    <3>. QED BY <2>1, <2>4, <3>1 DEF Fault
  <2>. QED BY <1>6, <2>2, <2>3, <2>4 DEF Run
<1>7. CASE Watch
  BY <1>7 DEF Watch, Goes
<1>8. CASE InstallHelpers
  BY <1>8 DEF InstallHelpers, Goes, Fault
<1>9. CASE Discard
  BY <1>9 DEF Discard, Goes, Fault
<1>10. CASE RemovePrevious
  BY <1>10 DEF RemovePrevious, Goes, Fault
<1>11. CASE Remove
  <2>1. UNCHANGED <<previous, disk, target, good>>
    BY <1>11 DEF Remove, disk
  <2>2. CASE Goes("remove", "restore") /\ bus' = Nothing
    BY <2>1, <2>2 DEF Goes
  <2>3. CASE Fault("remove", "restore") /\ UNCHANGED bus
    <3>1. pc = "remove" /\ failed' = failed \union {"remove"}
      BY <2>3 DEF Fault
    <3>. QED BY <2>1, <2>3, <3>1 DEF Fault
  <2>. QED BY <1>11, <2>2, <2>3 DEF Remove
<1>12. CASE Restore
  <2>1. UNCHANGED <<bus, previous, backup, target, good>>
    BY <1>12 DEF Restore, disk
  <2>2. CASE Goes("restore", "unlink") /\ config' = backup
    BY <2>1, <2>2 DEF Goes
  <2>3. CASE Fault("restore", "put back") /\ config' \in {config, backup}
    <3>1. pc = "restore" /\ failed' = failed \union {"restore"}
      BY <2>3 DEF Fault
    <3>. QED BY <2>1, <2>3, <3>1 DEF Fault
  <2>. QED BY <1>12, <2>2, <2>3 DEF Restore
<1>13. CASE Unlink
  BY <1>13 DEF Unlink, Goes, Fault
<1>14. CASE PutBack
  <2>1. UNCHANGED <<disk, target, good>>
    BY <1>14 DEF PutBack, disk
  <2>2. CASE Goes("put back", "start") /\ Exists(bus) /\ UNCHANGED <<bus, previous>>
    BY <2>1, <2>2 DEF Goes
  <2>3. CASE Goes("put back", "start") /\ ~Exists(bus) /\ bus' = previous /\ previous' = Nothing
    BY <2>1, <2>3 DEF Goes
  <2>4. CASE Fault("put back", "start") /\ UNCHANGED <<bus, previous>>
    <3>1. pc = "put back" /\ failed' = failed \union {"put back"}
      BY <2>4 DEF Fault
    <3>. QED BY <2>1, <2>4, <3>1 DEF Fault
  <2>. QED BY <1>14, <2>2, <2>3, <2>4 DEF PutBack
<1>15. CASE StartAgain
  BY <1>15 DEF StartAgain, Goes, Fault, TypeOK, Container
<1>16. CASE Kill
  BY <1>16 DEF Kill
<1>17. CASE Repair
  BY <1>17 DEF Repair, InService
<1>18. CASE Tidy
  BY <1>18 DEF Tidy, InService
<1>19. CASE UNCHANGED vars
  BY <1>19 DEF vars, disk, counts
<1>20. QED
  BY <1>1, <1>2, <1>3, <1>4, <1>5, <1>6, <1>7, <1>8, <1>9, <1>10, <1>11, <1>12, <1>13, <1>14, <1>15, <1>16, <1>17, <1>18, <1>19 DEF Next

(* Every step keeps a bus to serve, or to start. *)
LEMMA StepServes ==
  ASSUME IInv, [Next]_vars PROVE Serves'
<1>0. good # 0
  BY GoodIsSome DEF IInv
<1> USE <1>0, NothingIsDown DEF IInv, Exists, disk, counts, Ways, NothingLost, Serves, WayBack
<1>1. ASSUME NEW v \in Version, Begin(v) PROVE Serves'
  BY <1>1 DEF Begin, InOrder, InService
<1>2. CASE Stop
  BY <1>2 DEF Stop, Goes, Fault, TypeOK, Container
<1>3. CASE Rename
  <2>1. UNCHANGED <<disk, target, good>>
    BY <1>3 DEF Rename, disk
  <2>2. CASE Goes("rename", "apply") /\ previous' = bus /\ bus' = Nothing
    BY <2>1, <2>2 DEF Goes
  <2>3. CASE Fault("rename", "start") /\ UNCHANGED <<bus, previous>>
    <3>1. pc = "rename" /\ failed' = failed \union {"rename"}
      BY <2>3 DEF Fault
    <3>. QED BY <2>1, <2>3, <3>1 DEF Fault
  <2>. QED BY <1>3, <2>2, <2>3 DEF Rename
<1>4. CASE Save
  BY <1>4 DEF Save, Goes, Fault
<1>5. CASE Migrate
  BY <1>5 DEF Migrate, Goes, Fault
<1>6. CASE Run
  <2>1. UNCHANGED <<previous, disk, target, good>>
    BY <1>6 DEF Run, disk
  <2>2. CASE Goes("run", "watch") /\ bus' = [image |-> target, up |-> TRUE]
    BY <2>1, <2>2 DEF Goes
  <2>3. CASE Fault("run", "remove") /\ bus' = Nothing
    <3>1. pc = "run" /\ failed' = failed \union {"run"}
      BY <2>3 DEF Fault
    <3>. QED BY <2>1, <2>3, <3>1 DEF Fault
  <2>4. CASE Fault("run", "remove") /\ bus' = [image |-> target, up |-> FALSE]
    <3>1. pc = "run" /\ failed' = failed \union {"run"}
      BY <2>4 DEF Fault
    <3>. QED BY <2>1, <2>4, <3>1 DEF Fault
  <2>. QED BY <1>6, <2>2, <2>3, <2>4 DEF Run
<1>7. CASE Watch
  BY <1>7 DEF Watch, Goes
<1>8. CASE InstallHelpers
  BY <1>8 DEF InstallHelpers, Goes, Fault
<1>9. CASE Discard
  BY <1>9 DEF Discard, Goes, Fault
<1>10. CASE RemovePrevious
  BY <1>10 DEF RemovePrevious, Goes, Fault
<1>11. CASE Remove
  BY <1>11 DEF Remove, Goes, Fault
<1>12. CASE Restore
  BY <1>12 DEF Restore, Goes, Fault
<1>13. CASE Unlink
  BY <1>13 DEF Unlink, Goes, Fault
<1>14. CASE PutBack
  <2>1. UNCHANGED <<disk, target, good>>
    BY <1>14 DEF PutBack, disk
  <2>2. CASE Goes("put back", "start") /\ Exists(bus) /\ UNCHANGED <<bus, previous>>
    BY <2>1, <2>2 DEF Goes
  <2>3. CASE Goes("put back", "start") /\ ~Exists(bus) /\ bus' = previous /\ previous' = Nothing
    BY <2>1, <2>3 DEF Goes
  <2>4. CASE Fault("put back", "start") /\ UNCHANGED <<bus, previous>>
    <3>1. pc = "put back" /\ failed' = failed \union {"put back"}
      BY <2>4 DEF Fault
    <3>. QED BY <2>1, <2>4, <3>1 DEF Fault
  <2>. QED BY <1>14, <2>2, <2>3, <2>4 DEF PutBack
<1>15. CASE StartAgain
  BY <1>15 DEF StartAgain, Goes, Fault, TypeOK, Container
<1>16. CASE Kill
  BY <1>16 DEF Kill
<1>17. CASE Repair
  BY <1>17 DEF Repair, InService
<1>18. CASE Tidy
  BY <1>18 DEF Tidy, InService
<1>19. CASE UNCHANGED vars
  BY <1>19 DEF vars, disk, counts
<1>20. QED
  BY <1>1, <1>2, <1>3, <1>4, <1>5, <1>6, <1>7, <1>8, <1>9, <1>10, <1>11, <1>12, <1>13, <1>14, <1>15, <1>16, <1>17, <1>18, <1>19 DEF Next

(* Every step keeps the way of the next run free. *)
LEMMA StepLeftovers ==
  ASSUME IInv, [Next]_vars PROVE Leftovers'
<1>0. good # 0
  BY GoodIsSome DEF IInv
<1> USE <1>0, NothingIsDown DEF IInv, Exists, disk, counts, Ways, NothingLost, Matches, Clean, WayBack, Leaves, Leftovers
<1>1. ASSUME NEW v \in Version, Begin(v) PROVE Leftovers'
  BY <1>1 DEF Begin, InOrder, InService
<1>2. CASE Stop
  BY <1>2 DEF Stop, Goes, Fault, TypeOK, Container
<1>3. CASE Rename
  BY <1>3 DEF Rename, Goes, Fault
<1>4. CASE Save
  BY <1>4 DEF Save, Goes, Fault
<1>5. CASE Migrate
  BY <1>5 DEF Migrate, Goes, Fault
<1>6. CASE Run
  BY <1>6 DEF Run, Goes, Fault
<1>7. CASE Watch
  BY <1>7 DEF Watch, Goes
<1>8. CASE InstallHelpers
  BY <1>8 DEF InstallHelpers, Goes, Fault
<1>9. CASE Discard
  BY <1>9 DEF Discard, Goes, Fault
<1>10. CASE RemovePrevious
  <2>1. UNCHANGED <<bus, disk, target, good>>
    BY <1>10 DEF RemovePrevious, disk
  <2>2. CASE Goes("remove previous", "idle") /\ previous' = Nothing
    BY <2>1, <2>2 DEF Goes
  <2>3. CASE Fault("remove previous", "idle") /\ UNCHANGED previous
    <3>1. pc = "remove previous" /\ failed' = failed \union {"remove previous"}
      BY <2>3 DEF Fault
    <3>. QED BY <2>1, <2>3, <3>1 DEF Fault
  <2>. QED BY <1>10, <2>2, <2>3 DEF RemovePrevious
<1>11. CASE Remove
  BY <1>11 DEF Remove, Goes, Fault
<1>12. CASE Restore
  BY <1>12 DEF Restore, Goes, Fault
<1>13. CASE Unlink
  BY <1>13 DEF Unlink, Goes, Fault
<1>14. CASE PutBack
  <2>1. UNCHANGED <<disk, target, good>>
    BY <1>14 DEF PutBack, disk
  <2>2. CASE Goes("put back", "start") /\ Exists(bus) /\ UNCHANGED <<bus, previous>>
    BY <2>1, <2>2 DEF Goes
  <2>3. CASE Goes("put back", "start") /\ ~Exists(bus) /\ bus' = previous /\ previous' = Nothing
    BY <2>1, <2>3 DEF Goes
  <2>4. CASE Fault("put back", "start") /\ UNCHANGED <<bus, previous>>
    <3>1. pc = "put back" /\ failed' = failed \union {"put back"}
      BY <2>4 DEF Fault
    <3>. QED BY <2>1, <2>4, <3>1 DEF Fault
  <2>. QED BY <1>14, <2>2, <2>3, <2>4 DEF PutBack
<1>15. CASE StartAgain
  BY <1>15 DEF StartAgain, Goes, Fault, TypeOK, Container
<1>16. CASE Kill
  BY <1>16 DEF Kill
<1>17. CASE Repair
  BY <1>17 DEF Repair, InService
<1>18. CASE Tidy
  BY <1>18 DEF Tidy, InService
<1>19. CASE UNCHANGED vars
  BY <1>19 DEF vars, disk, counts
<1>20. QED
  BY <1>1, <1>2, <1>3, <1>4, <1>5, <1>6, <1>7, <1>8, <1>9, <1>10, <1>11, <1>12, <1>13, <1>14, <1>15, <1>16, <1>17, <1>18, <1>19 DEF Next

-----------------------------------------------------------------------------
(* Every upgrade, in every reachable state: Spec keeps the invariant.       *)
THEOREM Invariant == Spec => []IInv
<1>1. Init => IInv
  BY BoundAssumption DEF Init, IInv, TypeOK, Container, Commands, Version, NothingLost, Ways,
     Matches, Serves, Leftovers, Nothing, Exists, Clean
<1>2. IInv /\ [Next]_vars => IInv'
  BY StepTypeOK, StepWays, StepMatches, StepServes, StepLeftovers DEF IInv
<1>. QED BY <1>1, <1>2, PTL DEF Spec

(* The shape of the state. *)
THEOREM TypeCorrect == Spec => []TypeOK
<1>1. IInv => TypeOK
  BY DEF IInv
<1>. QED BY <1>1, Invariant, PTL

(* Whatever fails and wherever the script is killed, however often, the     *)
(* version last in service and its configuration are somewhere              *)
(* (install-docker.sh:383-460).                                             *)
THEOREM LosesNothing == Spec => []NothingLost
<1>1. IInv => NothingLost
  BY DEF IInv
<1>. QED BY <1>1, Invariant, PTL

(* A bus that runs, runs with its own configuration, unless a command of the *)
(* way back failed, or the migration did: after a failed apply the script   *)
(* starts the old container with whatever bus.json then holds               *)
(* (install-docker.sh:418-423).                                             *)
THEOREM ConfigurationFits == Spec => []RunsWithItsConfig
<1>1. IInv => RunsWithItsConfig
  BY DEF IInv, Matches, Clean, RunsWithItsConfig
<1>. QED BY <1>1, Invariant, PTL

(* What a run leaves that makes the next refuse, it leaves because it was   *)
(* killed, a command failed that had to remove it, or the apply failed: its *)
(* backup stays, and stops every later upgrade, although the way back       *)
(* succeeded (install-docker.sh:418-423, upgrade-config.py:133-142).        *)
THEOREM NextMayTry == Spec => []CanTryAgain
<1>1. IInv => CanTryAgain
  BY DEF IInv, Leftovers, CanTryAgain
<1>. QED BY <1>1, Invariant, PTL

(* A run that ends by itself leaves a bus at work, unless a command of the  *)
(* way back failed (README.md:137-138).                                     *)
THEOREM RunEndsInService == Spec => EndsInService
<1>1. ASSUME IInv, [Next]_vars, Ends, failed' \intersect WayBack = {}
      PROVE  bus'.up
  <2>1. pc # "idle" /\ pc' = "idle" /\ kills' = kills
    BY <1>1 DEF Ends
  <2>2. CASE Stop
    BY <1>1, <2>1, <2>2 DEF Stop, Goes, Fault, IInv, Serves
  <2>3. CASE Discard
    BY <1>1, <2>1, <2>3 DEF Discard, Goes, Fault, IInv, Serves
  <2>4. CASE RemovePrevious
    BY <1>1, <2>1, <2>4 DEF RemovePrevious, Goes, Fault, IInv, Serves, disk
  <2>5. CASE StartAgain
    <3>1. CASE Goes("start", "idle") /\ bus' = [bus EXCEPT !.up = Exists(bus)]
      <4>1. Exists(bus)
        BY <1>1, <3>1 DEF Goes, IInv, Serves
      <4>. QED BY <1>1, <3>1, <4>1 DEF IInv, TypeOK, Container
    <3>2. CASE Fault("start", "idle")
      BY <1>1, <3>2 DEF Fault, WayBack
    <3>. QED BY <2>5, <3>1, <3>2 DEF StartAgain
  <2>6. CASE Kill
    <3>0. kills \in 0..MaxKills
      BY <1>1 DEF IInv, TypeOK
    <3>1. kills \in Int
      BY <3>0, BoundAssumption
    <3>2. kills' = kills + 1
      BY <2>6 DEF Kill
    <3>. QED BY <2>1, <3>1, <3>2
  <2>7. CASE Rename \/ Save \/ Migrate \/ Run \/ Watch \/ InstallHelpers
    BY <2>1, <2>7 DEF Rename, Save, Migrate, Run, Watch, InstallHelpers, Goes, Fault
  <2>8. CASE Remove \/ Restore \/ Unlink \/ PutBack
    BY <2>1, <2>8 DEF Remove, Restore, Unlink, PutBack, Goes, Fault
  <2>9. CASE (\E v \in Version : Begin(v)) \/ Repair \/ Tidy \/ UNCHANGED vars
    BY <2>1, <2>9 DEF Begin, Repair, Tidy, vars
  <2>. QED BY <1>1, <2>2, <2>3, <2>4, <2>5, <2>6, <2>7, <2>8, <2>9 DEF Next
<1>2. IInv /\ [Next]_vars => [Ends /\ failed' \intersect WayBack = {} => bus'.up]_vars
  BY <1>1
<1>. QED BY <1>2, Invariant, PTL DEF Spec, EndsInService
(* Another version is taken into service only when it is at work with its   *)
(* own configuration, and while the one before and its configuration are    *)
(* still kept (install-docker.sh:446-448).                                  *)
THEOREM TakesOverAtWork == Spec => TakenOver
<1>1. ASSUME IInv, [Next]_vars, good' # good
      PROVE  /\ bus.up /\ bus.image = good' /\ config = good'
             /\ previous.image = good /\ backup = good
  <2>1. InstallHelpers
    BY <1>1 DEF Next, Begin, Stop, Rename, Save, Migrate, Run, Watch, Discard, RemovePrevious,
       Remove, Restore, Unlink, PutBack, StartAgain, Kill, Repair, Tidy, vars
  <2>2. pc = "helpers" /\ good' = target
    BY <1>1, <2>1 DEF InstallHelpers, Goes
  <2>. QED BY <1>1, <2>2 DEF IInv, Ways, Serves
<1>2. IInv /\ [Next]_vars =>
        [good' # good => /\ bus.up /\ bus.image = good' /\ config = good'
                         /\ previous.image = good /\ backup = good]_vars
  BY <1>1
<1>. QED BY <1>2, Invariant, PTL DEF Spec, TakenOver
=============================================================================
