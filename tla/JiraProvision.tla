----------------------------- MODULE JiraProvision -----------------------------
(***************************************************************************)
(* prepare-jira.sh (jira_provision.prepare_jira): an administrator makes a *)
(* Jira Space ready for the bus, by some twenty requests to Jira.  Nothing *)
(* is kept on this side: each run looks at Jira, and does what is missing. *)
(* A run may be killed, or may not learn what became of its last request,  *)
(* which Jira may carry out at once, later, or never.  The administrator   *)
(* then runs the same command again.                                       *)
(*                                                                         *)
(* Jira is what the runs see of it: which of the objects they look up by   *)
(* name exist, what is right about those, which schemes the Space uses.    *)
(***************************************************************************)
EXTENDS Integers, Sequences

CONSTANTS Fields,       \* the result fields (RESULT_FIELDS), in order
          Beforehand,   \* the sets of kinds that may be there before the first run
          MaxFaults,    \* bound: how often a run is cut short
          MaxByHand     \* bound: what administrators change by hand

ASSUME BoundAssumption == MaxFaults \in Nat /\ MaxByHand \in Nat

Schemes == {"typeScheme", "workflowScheme", "fieldScheme", "typeScreen"}

Structured == "structured"                    \* the field of the Forge app

FieldSet == {Fields[i] : i \in DOMAIN Fields}

ASSUME FieldsAssumption == Fields \in Seq(FieldSet) /\ FieldSet \cap Schemes = {}

Kinds == Schemes \union FieldSet \union
         {"space", "type", "workflow", "config", "screen", "screenScheme", Structured}

ASSUME BeforehandAssumption == Beforehand \subseteq SUBSET Kinds

(* What the schemes of the screens are for: the screen scheme shows our    *)
(* screen, the type screen scheme leads to our screen scheme.              *)
MapOf == [screenScheme |-> "screenMap", typeScreen |-> "typeScreenMap"]
Maps == {"screenMap", "typeScreenMap"}

(* What can be right, or not, about the objects of the Space; a field      *)
(* stands for its place on the screen.                                     *)
OnTheScreen == FieldSet \union {Structured}

Facts == {"items",        \* the type scheme has the work type and no other
          "default",      \* and has it as its default
          "workflowOk",   \* the workflow is the one of the profile
          "schemeMap",    \* the workflow scheme gives it to the work type
          "settings",     \* the field configuration has the fields as they should be
          "fieldMap"}     \* the field scheme gives that to the work type
         \union Maps \union OnTheScreen

VARIABLES
  made,      \* Jira: of each kind, what has the name the run looks for
  holds,     \* Jira: the facts that hold
  assigned,  \* Jira: the schemes of ours that the Space uses
  shared,    \* Jira: objects of ours that another Space, or scheme, uses
  issues,    \* Jira: the Space has issues
  theirs,    \* history: what is not so because of people, not of the runs
  flying,    \* requests of stopped runs that Jira may yet carry out
  apply,     \* the run: --apply, or a preview
  at,        \* the run: its task, or 0
  doing,     \* the run: it has decided to send the request of the task
  todo,      \* the run: the schemes it will assign
  said,      \* how the last run ended
  faults, byHand    \* history: counters

jira == <<made, holds, assigned, shared, issues, theirs>>
run == <<apply, at, doing, todo>>
vars == <<jira, flying, run, said, faults, byHand>>

-----------------------------------------------------------------------------
(* The tasks of a run, in the order of the code.                           *)
Create(k) == [op |-> "create", on |-> k]   \* find by name, else create
Find(k)   == [op |-> "find", on |-> k]     \* find by name
Fix(f)    == [op |-> "fix", on |-> f]      \* put right, if it is not
Assign(s) == [op |-> "assign", on |-> s]   \* make the Space use it
Check(s)  == [op |-> "check", on |-> s]    \* has the Space got it?

Each(op(_), seq) == [i \in DOMAIN seq |-> op(seq[i])]

TypeTasks == <<Create("space"), Create("type"), Create("typeScheme"),
               Fix("default"), Assign("typeScheme"), Check("typeScheme")>>

WorkflowTasks == <<Create("workflow"), Create("workflowScheme")>>

FieldTasks == <<Find(Structured)>> \o Each(Create, Fields)

ConfigTasks == <<Create("config"), Create("fieldScheme"), Fix("settings"), Fix("fieldMap")>>

ScreenTasks == <<Create("screen"), Fix(Structured)>> \o Each(Fix, Fields)
               \o <<Create("screenScheme"), Create("typeScreen"), Assign("typeScreen")>>

LastTasks == <<Assign("fieldScheme"), Assign("workflowScheme"), Check("workflowScheme")>>

(* Faults, for the mutants: the schemes are assigned before the screens    *)
(* are made; the fields go on the screen last.                             *)
TasksEarlyAssign == TypeTasks \o WorkflowTasks \o FieldTasks \o ConfigTasks \o LastTasks
                    \o ScreenTasks

ScreenLast == <<Create("screen"), Create("screenScheme"), Create("typeScreen"),
                Assign("typeScreen")>> \o LastTasks \o <<Fix(Structured)>> \o Each(Fix, Fields)
TasksFieldsLast == TypeTasks \o WorkflowTasks \o FieldTasks \o ConfigTasks \o ScreenLast

Tasks == TypeTasks \o WorkflowTasks \o FieldTasks \o ConfigTasks \o ScreenTasks \o LastTasks

(* What a new object has right from the start: one request makes both.     *)
Content(k) == CASE k = "typeScheme" -> {"items", "default"}
                [] k = "workflow" -> {"workflowOk"}
                [] k = "workflowScheme" -> {"schemeMap"}
                [] k \in DOMAIN MapOf -> {MapOf[k]}
                [] OTHER -> {}

(* Jira carries a request out.  Names need not be unique, but the key of a *)
(* Space is; a type or workflow scheme is assigned to an empty Space only. *)
Accepted(t) == /\ t \in {Assign("typeScheme"), Assign("workflowScheme")} => ~issues
               /\ t = Create("space") => made["space"] = "absent"

Effect(t) ==
  /\ made' = IF t.op # "create" THEN made
             ELSE [made EXCEPT ![t.on] = IF @ = "absent" THEN "ours" ELSE "ambiguous"]
  /\ holds' = IF t.op = "fix" THEN holds \union {t.on}
              ELSE IF t.op = "create" /\ made[t.on] = "absent" THEN holds \union Content(t.on)
              ELSE holds
  /\ assigned' = IF t.op = "assign" THEN assigned \union {t.on} ELSE assigned
  /\ theirs' = IF t.op \in {"fix", "assign"} THEN theirs \ {t.on} ELSE theirs
  /\ UNCHANGED <<shared, issues>>

-----------------------------------------------------------------------------
(* What a run makes of the reads of a task.                                *)

(* _managed_named, _verify_basic_workflow: objects of these kinds must     *)
(* carry the marker.  The others are taken as they are found: the Space by *)
(* its key, the screen and the schemes of the screens by their names.      *)
Marked == {"typeScheme", "workflow", "workflowScheme", "config", "fieldScheme"}

Named(k) == /\ made[k] # "ambiguous"
            /\ k \in Marked => made[k] # "found"

ProjectIsEmpty == ~issues

WorkflowVerified == "workflowOk" \in holds    \* _verify_basic_workflow

(* _ensure_issue_type_scheme *)
(* A fault: the Space must be empty even if nothing is migrated. *)
TypeSchemeRefusedUnlessEmpty == \/ issues
                                \/ /\ made["typeScheme"] = "ours"
                                   /\ ("typeScheme" \in shared \/ "items" \notin holds)

TypeSchemeRefused == \/ "typeScheme" \notin assigned /\ ~ProjectIsEmpty
                     \/ /\ made["typeScheme"] = "ours"
                        /\ ("typeScheme" \in shared \/ "items" \notin holds)

(* _ensure_basic_workflow *)
WorkflowRefused == \/ "workflowScheme" \notin assigned /\ ~ProjectIsEmpty
                   \/ made["workflow"] = "ours" /\ ~WorkflowVerified

WorkflowSchemeRefused == /\ made["workflowScheme"] = "ours"
                         /\ ("schemeMap" \notin holds \/ "workflowScheme" \in shared)

(* _ensure_field_configuration: the scheme before it is given a mapping,   *)
(* the configuration before its settings.                                  *)
FieldSchemeRefused == made["fieldScheme"] = "ours" /\ "fieldScheme" \in shared
SettingsNeverRefused == FALSE     \* a fault
SettingsRefused == "config" \in shared

Refused(t) ==
  \/ t.op = "create" /\ ~Named(t.on)
  \/ t = Find(Structured) /\ made[Structured] \in {"absent", "ambiguous"}
  \/ t = Create("typeScheme") /\ TypeSchemeRefused
  \/ t = Create("workflow") /\ WorkflowRefused
  \/ t = Create("workflowScheme") /\ WorkflowSchemeRefused
  \/ t = Create("fieldScheme") /\ FieldSchemeRefused
  \/ t = Fix("settings") /\ SettingsRefused
  \/ t.op = "check" /\ t.on \notin assigned
  \/ t = Check("workflowScheme") /\ ~WorkflowVerified

(* A preview tells of what is missing, except on the screen: there it      *)
(* neither adds the fields nor assigns the scheme, and goes on.            *)
OnScreen(t) == \/ t = Assign("typeScreen")
               \/ t.op = "fix" /\ t.on \in OnTheScreen

Needed(t) == CASE t.op = "create" -> made[t.on] = "absent"
               [] t.op = "fix" -> t.on \notin holds
               [] t.op = "assign" -> t.on \in todo
               [] OTHER -> FALSE

(* Whether a scheme must be assigned is decided where it is looked up; the *)
(* one of the screens always is.                                           *)
Decided(t) == IF \/ t = Create("typeScheme") /\ "typeScheme" \notin assigned
                 \/ t = Create("workflow") /\ "workflowScheme" \notin assigned
                 \/ t = Create("fieldScheme") /\ "fieldScheme" \notin assigned
                 \/ t = Create("typeScreen")
              THEN CASE t.on = "workflow" -> {"workflowScheme"} [] OTHER -> {t.on}
              ELSE {}

-----------------------------------------------------------------------------
(* What is there before the first run is somebody else's: the schemes of   *)
(* the screens among it show other screens.                                *)
Init == /\ made \in {[k \in Kinds |-> IF k \in there THEN "found" ELSE "absent"] :
                     there \in Beforehand}
        /\ theirs = {MapOf[k] : k \in {s \in DOMAIN MapOf : made[s] = "found"}}
        /\ holds = {}
        /\ assigned = {}
        /\ shared = {}
        /\ issues = FALSE
        /\ flying = {}
        /\ apply = FALSE
        /\ at = 0
        /\ doing = FALSE
        /\ todo = {}
        /\ said = "nothing"
        /\ faults = 0
        /\ byHand = 0

Start(mode) == /\ at = 0
               /\ at' = 1
               /\ apply' = mode
               /\ doing' = FALSE
               /\ todo' = {}
               /\ said' = "nothing"
               /\ UNCHANGED <<jira, flying, faults, byHand>>

End(how) == /\ at' = 0
            /\ doing' = FALSE
            /\ todo' = {}
            /\ said' = how
            /\ UNCHANGED apply

GoOn(t) == IF at < Len(Tasks)
           THEN /\ at' = at + 1
                /\ doing' = FALSE
                /\ todo' = todo \union Decided(t)
                /\ UNCHANGED <<apply, said>>
           ELSE End(IF apply THEN "ready" ELSE "complete")

(* The reads of a task, and what follows from them.                        *)
Look == /\ at # 0 /\ ~doing
        /\ LET t == Tasks[at]
           IN \/ Refused(t) /\ End("refused")
              \/ /\ ~Refused(t) /\ Needed(t) /\ apply
                 /\ doing' = TRUE
                 /\ UNCHANGED <<apply, at, todo, said>>
              \/ /\ ~Refused(t) /\ Needed(t) /\ ~apply /\ ~OnScreen(t)
                 /\ End("planned")
              \/ /\ ~Refused(t) /\ (Needed(t) => ~apply /\ OnScreen(t))
                 /\ GoOn(t)
        /\ UNCHANGED <<jira, flying, faults, byHand>>

(* The request of the task, answered.  A new scheme is not assigned yet, so *)
(* what was decided when it was looked up still has to be remembered.       *)
Send == /\ at # 0 /\ doing
        /\ IF Accepted(Tasks[at]) THEN Effect(Tasks[at]) /\ GoOn(Tasks[at])
           ELSE UNCHANGED jira /\ End("refused")
        /\ UNCHANGED <<flying, faults, byHand>>

(* No answer: done, not done, or not done yet.                              *)
Lose == /\ at # 0 /\ doing
        /\ faults < MaxFaults
        /\ faults' = faults + 1
        /\ End("stopped")
        /\ \/ Accepted(Tasks[at]) /\ Effect(Tasks[at]) /\ UNCHANGED flying
           \/ UNCHANGED <<jira, flying>>
           \/ flying' = flying \union {Tasks[at]} /\ UNCHANGED jira
        /\ UNCHANGED byHand

Kill == /\ at # 0
        /\ faults < MaxFaults
        /\ faults' = faults + 1
        /\ End("stopped")
        /\ UNCHANGED <<jira, flying, byHand>>

Land(t) == /\ t \in flying
           /\ flying' = flying \ {t}
           /\ IF Accepted(t) THEN Effect(t) ELSE UNCHANGED jira
           /\ UNCHANGED <<run, said, faults, byHand>>

-----------------------------------------------------------------------------
(* People use the Space once it is there. *)
AddIssue == /\ made["space"] # "absent"
            /\ ~issues
            /\ issues' = TRUE
            /\ UNCHANGED <<made, holds, assigned, shared, theirs>>
            /\ UNCHANGED <<flying, run, said, faults, byHand>>

ByHand == /\ at = 0
          /\ byHand < MaxByHand
          /\ byHand' = byHand + 1
          /\ UNCHANGED <<issues, flying, run, said, faults>>

(* Between two runs, administrators install the Forge app, change what is  *)
(* there, the screens included, put the schemes of the screens right, use  *)
(* what we made elsewhere, or use other schemes here.                      *)
InstallForge == /\ ByHand
                /\ made[Structured] = "absent"
                /\ made' = [made EXCEPT ![Structured] = "found"]
                /\ UNCHANGED <<holds, assigned, shared, theirs>>

Drift(f) == /\ ByHand
            /\ f \in holds
            /\ holds' = holds \ {f}
            /\ theirs' = theirs \union {f}
            /\ UNCHANGED <<made, assigned, shared>>

Mend(k) == /\ ByHand
           /\ {made["screen"], made["screenScheme"], made[k]} \cap {"absent", "ambiguous"} = {}
           /\ MapOf[k] \notin holds
           /\ holds' = holds \union {MapOf[k]}
           /\ theirs' = theirs \ {MapOf[k]}
           /\ UNCHANGED <<made, assigned, shared>>

Share(k) == /\ ByHand
            /\ made[k] = "ours"
            /\ k \in {"typeScheme", "workflowScheme", "fieldScheme", "config"} \ shared
            /\ shared' = shared \union {k}
            /\ UNCHANGED <<made, holds, assigned, theirs>>

Unassign(s) == /\ ByHand
               /\ s \in assigned
               /\ assigned' = assigned \ {s}
               /\ theirs' = theirs \union {s}
               /\ UNCHANGED <<made, holds, shared>>

People == \/ AddIssue
          \/ InstallForge
          \/ \E f \in Facts : Drift(f)
          \/ \E k \in DOMAIN MapOf : Mend(k)
          \/ \E k \in Kinds : Share(k)
          \/ \E s \in Schemes : Unassign(s)

Next == \/ \E mode \in BOOLEAN : Start(mode)
        \/ Look
        \/ Send
        \/ Lose
        \/ Kill
        \/ \E t \in flying : Land(t)
        \/ People

Spec == Init /\ [][Next]_vars

(* A run goes on until it ends, and the administrator repeats it; nothing  *)
(* makes a lost request arrive, or people act.                             *)
FairSpec == Spec /\ WF_vars(Look) /\ WF_vars(Send) /\ SF_vars(Start(TRUE))

-----------------------------------------------------------------------------
TypeOK == /\ made \in [Kinds -> {"absent", "ours", "found", "ambiguous"}]
          /\ holds \subseteq Facts
          /\ assigned \subseteq Schemes
          /\ shared \subseteq Kinds
          /\ issues \in BOOLEAN
          /\ theirs \subseteq Facts \union Schemes
          /\ flying \subseteq {Tasks[i] : i \in DOMAIN Tasks}
          /\ apply \in BOOLEAN
          /\ at \in 0..Len(Tasks)
          /\ doing \in BOOLEAN
          /\ todo \subseteq Schemes
          /\ said \in {"nothing", "planned", "refused", "stopped", "complete", "ready"}
          /\ faults \in 0..MaxFaults
          /\ byHand \in 0..MaxByHand

(* The Space is as the bus needs it, but for what is excused.              *)
PreparedBut(excused) == /\ \A k \in Kinds : made[k] # "absent"
                        /\ Facts \subseteq holds \union excused
                        /\ Schemes \subseteq assigned \union excused

Prepared == PreparedBut({})

(* prepare_jira reports a Space ready, or finds nothing left to plan in a   *)
(* preview, only if all of it is, whatever earlier runs left half done and  *)
(* whatever drifted since.  Two things are excused, if people did them and  *)
(* no run has put them right: neither looks at what the schemes of the      *)
(* screens show (jira_provision.py:963-966, 983-986); and a preview looks   *)
(* neither for the fields of the screen nor for its scheme (952-956,        *)
(* 1000-1003), so that there the order of the tasks must make up for it.    *)
ReadyMeansPrepared ==
  [][at # 0 => /\ said' = "ready" => PreparedBut(theirs \cap Maps)'
               /\ said' = "complete" =>
                    PreparedBut(theirs \cap (Maps \union OnTheScreen \union {"typeScreen"}))']_vars

(* A Space that is prepared stays so, whatever is run again, killed or      *)
(* carried out late, until somebody changes it by hand (README.md:476).    *)
PreparedLasts ==
  [][Prepared /\ ~(\E f \in Facts : Drift(f)) /\ ~(\E s \in Schemes : Unassign(s))
       => Prepared']_vars

(* The Forge field, which our field configuration makes required, is on the *)
(* screens that the Space uses, and the result fields beside it.           *)
ScreensShow(excused) == /\ "typeScreen" \in assigned \union excused
                        /\ Maps \union OnTheScreen \subseteq holds \union excused
                        /\ \A f \in FieldSet : made[f] # "absent"

(* No run, wherever it is cut short and whatever of it arrives late, leaves *)
(* a Space in which nobody can create an issue.  It asks Jira to use our    *)
(* field configuration only when the screens are in use and have all their  *)
(* fields; what is missing once it is used, people took away, or it is a    *)
(* scheme of theirs, with the name of ours, that shows another screen and   *)
(* that the script takes for its own.  Nor does the Space use a workflow    *)
(* scheme without its workflow.                                            *)
UsableThroughout ==
  /\ at # 0 /\ doing /\ Tasks[at] = Assign("fieldScheme") => ScreensShow(theirs \cap Maps)
  /\ "fieldScheme" \in assigned => ScreensShow(theirs)
  /\ "workflowScheme" \in assigned => {made["workflow"], made["workflowScheme"]} \cap {"absent"} = {}

(* Each scheme with the object it is made of, and what a run may put right *)
(* of the two.                                                             *)
PartsOf == [typeScheme |-> {"typeScheme"}, workflowScheme |-> {"workflow", "workflowScheme"},
            fieldScheme |-> {"config", "fieldScheme"}]
About == [typeScheme |-> {"items", "default"}, workflowScheme |-> {"schemeMap"},
          fieldScheme |-> {"settings", "fieldMap"}]

(* While one part of a work type, workflow or field configuration scheme is *)
(* somebody else's, or used elsewhere too, no run changes the scheme or its *)
(* other part, nor has the Space use it: the checks of both parts come      *)
(* before those requests (jira_provision.py:275-336, 671-766).  It is said  *)
(* of a run at work: a request that arrives late is beyond its checks.  And *)
(* it is not so of the work type, the fields and the screens, which a run   *)
(* takes by their names: it puts fields on a screen of somebody else's, and *)
(* has the Space use a type screen scheme of theirs (952-956, 983-1003).    *)
OthersUntouched ==
  [][Send => \A s \in DOMAIN PartsOf :
               (\E k \in PartsOf[s] : k \in shared \/ made[k] = "found") =>
                  /\ holds' \cap About[s] = holds \cap About[s]
                  /\ s \in assigned' => s \in assigned]_vars

(* What only people can put right: something else bears a name that must be *)
(* ours, or leads to another screen; the app is missing; what we made is    *)
(* used elsewhere or was changed in a way the script does not repair; there *)
(* are issues to migrate.                                                  *)
Obstacle == \/ \E k \in Kinds : made[k] = "ambiguous"
            \/ \E k \in Marked : made[k] = "found"
            \/ made[Structured] = "absent"
            \/ shared # {}
            \/ \E k \in DOMAIN MapOf : made[k] # "absent" /\ MapOf[k] \notin holds
            \/ made["typeScheme"] = "ours" /\ "items" \notin holds
            \/ made["workflow"] = "ours" /\ "workflowOk" \notin holds
            \/ made["workflowScheme"] = "ours" /\ "schemeMap" \notin holds
            \/ issues /\ ~({"typeScheme", "workflowScheme"} \subseteq assigned)

(* What a run leaves behind never stands in the way of the next: repeated, *)
(* the command succeeds every time, in a Space that was there before and in *)
(* one with issues as well, and repairs what drifted (the default work     *)
(* type, the settings, the mapping, the fields and the use of the screen). *)
Converges == <>[]~Obstacle => []<>(said = "ready" /\ Prepared)
=============================================================================
