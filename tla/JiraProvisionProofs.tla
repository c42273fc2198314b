-------------------------- MODULE JiraProvisionProofs --------------------------
(***************************************************************************)
(* What JiraProvision.tla says of the safety of prepare_jira, for any      *)
(* number of result fields, runs that are cut short and changes by hand.   *)
(*                                                                         *)
(* A run sends its requests in one order, and what they leave for good     *)
(* (Left) is there once it is past them (Passed).  So when it comes to     *)
(* assign a scheme, or has left that request behind in flight, all that    *)
(* the scheme needs is there, but for what people took away (IInv).  What  *)
(* it has reached stays so while it runs (JInv), and it has looked at a    *)
(* scheme, and found it its own, before it makes anything of it (OInv).    *)
(***************************************************************************)
EXTENDS JiraProvision, SequenceTheorems, TLAPS

Name == Kinds \union Facts

(* Each is about what it can be about. *)
Task == {t \in [op : {"create", "find", "fix", "assign", "check"}, on : Name] :
           /\ t.op = "fix" => t.on \in Facts
           /\ t.op = "assign" => t.on \in Schemes}

Has(seq, t) == \E i \in DOMAIN seq : seq[i] = t

(* The schemes that need what comes before them. *)
Late == {Assign("typeScreen"), Assign("fieldScheme"), Assign("workflowScheme")}

Without(seq, T) == \A i \in DOMAIN seq : seq[i] \notin T

(* All requests before those of the screen. *)
Early == TypeTasks \o WorkflowTasks \o FieldTasks \o ConfigTasks

ScreenStart == <<Create("screen"), Fix(Structured)>>
ScreenEnd == <<Create("screenScheme"), Create("typeScreen"), Assign("typeScreen")>>

(* What a task leaves for good. *)
Left(t) == /\ t.op = "create" /\ t.on \in Kinds => made[t.on] # "absent"
           /\ t.op = "fix" /\ t.on \in OnTheScreen => t.on \in holds
           /\ t = Assign("typeScreen") => "typeScreen" \in assigned

Passed == apply /\ at # 0 => \A j \in 1..at - 1 : Left(Tasks[j])

(* The run has decided to assign the screens. *)
Remembered == apply /\ at # 0 /\ (\E j \in 1..at - 1 : Tasks[j] = Create("typeScreen")) =>
                "typeScreen" \in todo

FieldsReady == ScreensShow(theirs)

FlowReady == made["workflow"] # "absent" /\ made["workflowScheme"] # "absent"

(* A scheme that is assigned, or may yet be, has what it needs, but for    *)
(* what people took away.                                                  *)
Grounded ==
  /\ flying \subseteq Task
  /\ "fieldScheme" \in assigned \/ Assign("fieldScheme") \in flying => FieldsReady
  /\ "workflowScheme" \in assigned \/ Assign("workflowScheme") \in flying => FlowReady

(* A scheme of the screens that a run made shows what it should. *)
Mapped == \A k \in DOMAIN MapOf : made[k] # "absent" => MapOf[k] \in holds \union theirs

Shape == /\ made \in [Kinds -> {"absent", "ours", "found", "ambiguous"}]
         /\ at \in 0..Len(Tasks)
         /\ apply \in BOOLEAN /\ doing \in BOOLEAN
         /\ doing => apply

IInv == Shape /\ Passed /\ Remembered /\ Grounded /\ Mapped

-----------------------------------------------------------------------------
(* The order of the tasks.                                                 *)

(* What is in a part is in the whole. *)
LEMMA Parts ==
  ASSUME NEW s \in Seq(Task), NEW u \in Seq(Task)
  PROVE  /\ s \o u \in Seq(Task) /\ Len(s \o u) = Len(s) + Len(u)
         /\ \A i \in 1..Len(s) : i \in DOMAIN (s \o u) /\ (s \o u)[i] = s[i]
         /\ \A i \in 1..Len(u) : Len(s) + i \in DOMAIN (s \o u) /\ (s \o u)[Len(s) + i] = u[i]
         /\ \A t : Has(s \o u, t) <=> Has(s, t) \/ Has(u, t)
         /\ \A T : Without(s \o u, T) <=> Without(s, T) /\ Without(u, T)
<1>1. s \o u \in Seq(Task) /\ Len(s \o u) = Len(s) + Len(u)
      /\ \A i \in 1..Len(s) + Len(u) :
           (s \o u)[i] = IF i <= Len(s) THEN s[i] ELSE u[i - Len(s)]
  BY ConcatProperties
<1>2. Len(s) \in Nat /\ Len(u) \in Nat /\ DOMAIN s = 1..Len(s) /\ DOMAIN u = 1..Len(u)
      /\ DOMAIN (s \o u) = 1..Len(s) + Len(u)
  BY <1>1, LenProperties
<1>3. ASSUME NEW i \in 1..Len(s) PROVE i \in DOMAIN (s \o u) /\ (s \o u)[i] = s[i]
  <2>1. i \in 1..Len(s) + Len(u) /\ i <= Len(s)
    BY <1>2
  <2>. QED BY <1>1, <1>2, <2>1
<1>4. ASSUME NEW i \in 1..Len(u)
      PROVE  Len(s) + i \in DOMAIN (s \o u) /\ (s \o u)[Len(s) + i] = u[i]
  <2>1. Len(s) + i \in 1..Len(s) + Len(u) /\ ~(Len(s) + i <= Len(s)) /\ Len(s) + i - Len(s) = i
    BY <1>2
  <2>. QED BY <1>1, <1>2, <2>1
<1>5. ASSUME NEW i \in DOMAIN (s \o u)
      PROVE  \/ \E j \in DOMAIN s : (s \o u)[i] = s[j]
             \/ \E j \in DOMAIN u : (s \o u)[i] = u[j]
  <2>1. i \in Nat /\ i <= Len(s) + Len(u) /\ i >= 1
    BY <1>2
  <2>2. CASE i <= Len(s)
    BY <1>1, <1>2, <2>1, <2>2
  <2>3. CASE i > Len(s)
    <3>1. i - Len(s) \in DOMAIN u
      BY <1>2, <2>1, <2>3
    <3>. QED BY <1>1, <1>2, <2>1, <2>3, <3>1
  <2>. QED BY <1>2, <2>1, <2>2, <2>3
<1>6. \A t : Has(s \o u, t) <=> Has(s, t) \/ Has(u, t)
  BY <1>2, <1>3, <1>4, <1>5 DEF Has
<1>7. \A T : Without(s \o u, T) <=> Without(s, T) /\ Without(u, T)
  BY <1>2, <1>3, <1>4, <1>5 DEF Without
<1>. QED BY <1>1, <1>3, <1>4, <1>6, <1>7

(* Each is a task. *)
LEMMA OneTask ==
  /\ \A k \in Kinds : Create(k) \in Task /\ Find(k) \in Task /\ Check(k) \in Task
  /\ \A f \in Facts : Fix(f) \in Task
  /\ \A c \in Schemes : Assign(c) \in Task
  /\ {"space", "type", "workflow", "config", "screen", "screenScheme", Structured} \union
       Schemes \union FieldSet \subseteq Kinds
  /\ {"items", "default", "workflowOk", "schemeMap", "settings", "fieldMap", Structured} \union
       FieldSet \union Maps \subseteq Facts
  /\ {"typeScheme", "workflowScheme", "fieldScheme", "typeScreen"} = Schemes
<1>1. Schemes \subseteq Kinds
  BY DEF Kinds
<1>2. /\ \A k \in Kinds : Create(k) \in Task /\ Find(k) \in Task /\ Check(k) \in Task
      /\ \A f \in Facts : Fix(f) \in Task
      /\ \A c \in Schemes : Assign(c) \in Task
  BY <1>1 DEF Create, Find, Fix, Assign, Check, Task, Name
<1>. QED BY <1>1, <1>2 DEF Kinds, Facts, Schemes, OnTheScreen

(* The tasks of the fields. *)
LEMMA EachField ==
  /\ Each(Create, Fields) \in Seq(Task) /\ Each(Fix, Fields) \in Seq(Task)
  /\ \A f \in FieldSet : Has(Each(Create, Fields), Create(f)) /\ Has(Each(Fix, Fields), Fix(f))
  /\ Without(Each(Create, Fields), Late) /\ Without(Each(Fix, Fields), Late)
<1>1. DOMAIN Fields = 1..Len(Fields) /\ Len(Fields) \in Nat /\ \A i \in DOMAIN Fields : Fields[i] \in FieldSet
  BY FieldsAssumption, LenProperties, ElementOfSeq
<1>2. /\ Each(Create, Fields) = [i \in 1..Len(Fields) |-> Create(Fields[i])]
      /\ Each(Fix, Fields) = [i \in 1..Len(Fields) |-> Fix(Fields[i])]
  BY <1>1 DEF Each
<1>3. \A i \in 1..Len(Fields) : Create(Fields[i]) \in Task /\ Fix(Fields[i]) \in Task
  BY <1>1, OneTask
<1>4. Each(Create, Fields) \in Seq(Task) /\ Each(Fix, Fields) \in Seq(Task)
  BY <1>1, <1>2, <1>3, IsASeq
<1>5. \A f \in FieldSet : Has(Each(Create, Fields), Create(f)) /\ Has(Each(Fix, Fields), Fix(f))
  BY <1>1, <1>2 DEF Has, FieldSet
<1>6. Without(Each(Create, Fields), Late) /\ Without(Each(Fix, Fields), Late)
  <2>1. \A t \in Late : t.op = "assign"
    BY DEF Late, Assign
  <2>2. \A i \in 1..Len(Fields) : Create(Fields[i]).op = "create" /\ Fix(Fields[i]).op = "fix"
    BY DEF Create, Fix
  <2>. QED BY <1>1, <1>2, <2>1, <2>2 DEF Without
<1>. QED BY <1>4, <1>5, <1>6

(* Before the screen nothing is assigned that needs it, and all else is     *)
(* made.                                                                   *)
LEMMA EarlyTasks ==
  /\ Early \in Seq(Task) /\ Without(Early, Late)
  /\ Has(Early, Create("workflow")) /\ Has(Early, Create("workflowScheme"))
  /\ \A f \in FieldSet : Has(Early, Create(f))
<1>1. /\ TypeTasks \in Seq(Task) /\ WorkflowTasks \in Seq(Task) /\ ConfigTasks \in Seq(Task)
      /\ <<Find(Structured)>> \in Seq(Task)
  <2>1. TypeTasks \in Seq(Task)
    BY OneTask DEF TypeTasks
  <2>2. WorkflowTasks \in Seq(Task)
    BY OneTask DEF WorkflowTasks
  <2>3. ConfigTasks \in Seq(Task)
    BY OneTask DEF ConfigTasks
  <2>4. <<Find(Structured)>> \in Seq(Task)
    BY OneTask
  <2>. QED BY <2>1, <2>2, <2>3, <2>4
<1> USE DEF Create, Find, Fix, Assign, Check
<1>2. \A t \in Late : t.op = "assign" /\ t.on # "typeScheme"
  BY DEF Late
<1>3. Without(TypeTasks, Late)
  <2>1. \A i \in DOMAIN TypeTasks : TypeTasks[i].op # "assign" \/ TypeTasks[i].on = "typeScheme"
    BY DEF TypeTasks
  <2>. QED BY <1>2, <2>1 DEF Without
<1>4. Without(WorkflowTasks, Late)
  <2>1. \A i \in DOMAIN WorkflowTasks : WorkflowTasks[i].op # "assign"
    BY DEF WorkflowTasks
  <2>. QED BY <1>2, <2>1 DEF Without
<1>5. Without(ConfigTasks, Late)
  <2>1. \A i \in DOMAIN ConfigTasks : ConfigTasks[i].op # "assign"
    BY DEF ConfigTasks
  <2>. QED BY <1>2, <2>1 DEF Without
<1>6. Without(<<Find(Structured)>>, Late)
  <2>1. \A i \in DOMAIN <<Find(Structured)>> : <<Find(Structured)>>[i].op # "assign"
    OBVIOUS
  <2>. QED BY <1>2, <2>1 DEF Without
<1>7. Has(WorkflowTasks, Create("workflow")) /\ Has(WorkflowTasks, Create("workflowScheme"))
  <2>1. 1 \in DOMAIN WorkflowTasks /\ WorkflowTasks[1] = Create("workflow")
        /\ 2 \in DOMAIN WorkflowTasks /\ WorkflowTasks[2] = Create("workflowScheme")
    BY DEF WorkflowTasks
  <2>. QED BY <2>1 DEF Has
<1> HIDE DEF Create, Find, Fix, Assign, Check
<1>8. /\ FieldTasks \in Seq(Task) /\ Without(FieldTasks, Late)
      /\ \A f \in FieldSet : Has(FieldTasks, Create(f))
  BY <1>1, <1>6, EachField, Parts DEF FieldTasks
<1>9. /\ TypeTasks \o WorkflowTasks \in Seq(Task) /\ Without(TypeTasks \o WorkflowTasks, Late)
      /\ Has(TypeTasks \o WorkflowTasks, Create("workflow"))
      /\ Has(TypeTasks \o WorkflowTasks, Create("workflowScheme"))
  BY <1>1, <1>3, <1>4, <1>7, Parts
<1> DEFINE Three == TypeTasks \o WorkflowTasks \o FieldTasks
<1>10. /\ Three \in Seq(Task) /\ Without(Three, Late)
       /\ Has(Three, Create("workflow")) /\ Has(Three, Create("workflowScheme"))
       /\ \A f \in FieldSet : Has(Three, Create(f))
  BY <1>8, <1>9, Parts
<1>11. Early = Three \o ConfigTasks
  BY DEF Early
<1> HIDE DEF Three
<1>. QED BY <1>1, <1>5, <1>10, <1>11, Parts

(* The screen gets all its fields, and is then assigned. *)
LEMMA ScreenShape ==
  /\ ScreenTasks \in Seq(Task)
  /\ Has(ScreenTasks, Fix(Structured))
  /\ \A f \in FieldSet : Has(ScreenTasks, Fix(f))
  /\ Has(ScreenTasks, Create("screenScheme")) /\ Has(ScreenTasks, Create("typeScreen"))
  /\ Has(ScreenTasks, Assign("typeScreen"))
  /\ Without(ScreenTasks, Late \ {Assign("typeScreen")})
  /\ \A i \in DOMAIN ScreenTasks : ScreenTasks[i] = Assign("typeScreen") =>
       \E j \in 1..i - 1 : ScreenTasks[j] = Create("typeScreen")
<1>1. ScreenStart \in Seq(Task) /\ ScreenEnd \in Seq(Task)
  <2>1. ScreenStart \in Seq(Task)
    BY OneTask DEF ScreenStart
  <2>2. ScreenEnd \in Seq(Task)
    BY OneTask DEF ScreenEnd
  <2>. QED BY <2>1, <2>2
<1>2. Without(ScreenStart, Late) /\ Has(ScreenStart, Fix(Structured))
  <2>1. \A t \in Late : t.op = "assign"
    BY DEF Late, Assign
  <2>2. DOMAIN ScreenStart = 1..2 /\ ScreenStart[1].op = "create" /\ ScreenStart[2].op = "fix"
        /\ ScreenStart[2] = Fix(Structured)
    BY DEF ScreenStart, Create, Fix
  <2>. QED BY <2>1, <2>2 DEF Without, Has
<1>3. DOMAIN ScreenEnd = 1..3 /\ Len(ScreenEnd) = 3 /\ ScreenEnd[1] = Create("screenScheme")
      /\ ScreenEnd[2] = Create("typeScreen") /\ ScreenEnd[3] = Assign("typeScreen")
  BY DEF ScreenEnd
<1>4. /\ Assign("typeScreen") \notin Late \ {Assign("typeScreen")}
      /\ \A k : Create(k) \notin Late
      /\ Create("screenScheme") # Assign("typeScreen")
      /\ Create("typeScreen") # Assign("typeScreen")
  <2>1. \A t \in Late : t.op = "assign"
    BY DEF Late, Assign
  <2>2. \A k : Create(k).op = "create"
    BY DEF Create
  <2>3. Assign("typeScreen").op = "assign"
    BY DEF Assign
  <2>. QED BY <2>1, <2>2, <2>3
<1>5. /\ Without(ScreenEnd, Late \ {Assign("typeScreen")}) /\ Has(ScreenEnd, Assign("typeScreen"))
      /\ Has(ScreenEnd, Create("screenScheme")) /\ Has(ScreenEnd, Create("typeScreen"))
  <2>1. \A i \in DOMAIN ScreenEnd : i = 1 \/ i = 2 \/ i = 3
    BY <1>3
  <2>2. \A i \in DOMAIN ScreenEnd : ScreenEnd[i] \notin Late \ {Assign("typeScreen")}
    BY <1>3, <1>4, <2>1
  <2>3. {1, 2, 3} \subseteq DOMAIN ScreenEnd
    BY <1>3
  <2>. QED BY <1>3, <2>2, <2>3 DEF Without, Has
<1> DEFINE Begun == ScreenStart \o Each(Fix, Fields)
<1>6. /\ Begun \in Seq(Task) /\ Without(Begun, Late)
      /\ Has(Begun, Fix(Structured)) /\ \A f \in FieldSet : Has(Begun, Fix(f))
  BY <1>1, <1>2, EachField, Parts
<1>7. ScreenTasks = Begun \o ScreenEnd
  BY DEF ScreenTasks, ScreenStart, ScreenEnd
<1> HIDE DEF Begun
<1>8. Without(Begun, Late \ {Assign("typeScreen")})
  BY <1>6 DEF Without
<1>9. ASSUME NEW i \in DOMAIN ScreenTasks, ScreenTasks[i] = Assign("typeScreen")
      PROVE  \E j \in 1..i - 1 : ScreenTasks[j] = Create("typeScreen")
  <2>1. Len(Begun) \in Nat /\ DOMAIN Begun = 1..Len(Begun)
        /\ DOMAIN ScreenTasks = 1..Len(Begun) + 3
    <3>1. ScreenTasks \in Seq(Task) /\ Len(ScreenTasks) = Len(Begun) + 3
      <4>1. Begun \o ScreenEnd \in Seq(Task)
            /\ Len(Begun \o ScreenEnd) = Len(Begun) + Len(ScreenEnd)
        BY <1>1, <1>6, Parts
      <4>. QED BY <1>3, <1>7, <4>1
    <3>. QED BY <1>6, <3>1, LenProperties
  <2>2. ScreenTasks[Len(Begun) + 2] = Create("typeScreen")
        /\ ScreenTasks[Len(Begun) + 1] = Create("screenScheme")
    <3>1. 1 \in 1..Len(ScreenEnd) /\ 2 \in 1..Len(ScreenEnd)
      BY <1>3
    <3>2. \A k \in 1..Len(ScreenEnd) : ScreenTasks[Len(Begun) + k] = ScreenEnd[k]
      <4>1. \A k \in 1..Len(ScreenEnd) : (Begun \o ScreenEnd)[Len(Begun) + k] = ScreenEnd[k]
        BY <1>1, <1>6, Parts
      <4>. QED BY <1>7, <4>1
    <3>. QED BY <1>3, <3>1, <3>2
  <2>3. \A k \in 1..Len(Begun) : ScreenTasks[k] # Assign("typeScreen")
    BY <1>1, <1>6, <1>7, <2>1, Parts DEF Without, Late
  <2>4. i = Len(Begun) + 3
    BY <1>4, <1>9, <2>1, <2>2, <2>3
  <2>. QED BY <2>1, <2>2, <2>4
<1>. QED BY <1>1, <1>5, <1>6, <1>7, <1>8, <1>9, Parts

(* A task comes before those that need it. *)
Before(t, u) == \A i \in DOMAIN Tasks : Tasks[i] = u => \E j \in 1..i - 1 : Tasks[j] = t

LEMMA Order ==
  /\ Tasks \in Seq(Task) /\ 1 \in DOMAIN Tasks
  /\ Before(Create("typeScreen"), Assign("typeScreen"))
  /\ Before(Assign("typeScreen"), Assign("fieldScheme"))
  /\ \A f \in FieldSet : Before(Create(f), Assign("fieldScheme"))
  /\ \A f \in OnTheScreen : Before(Fix(f), Assign("fieldScheme"))
  /\ \A k \in DOMAIN MapOf : Before(Create(k), Assign("fieldScheme"))
  /\ Before(Create("workflow"), Assign("workflowScheme"))
  /\ Before(Create("workflowScheme"), Assign("workflowScheme"))
  /\ \A t : Has(Early, t) => Before(t, Assign("fieldScheme"))
<1> DEFINE Most == Early \o ScreenTasks
<1>1. LastTasks \in Seq(Task) /\ Len(LastTasks) = 3 /\ Without(LastTasks, {Assign("typeScreen")})
  <2>1. LastTasks \in Seq(Task)
    BY OneTask DEF LastTasks
  <2>2. DOMAIN LastTasks = 1..3 /\ Len(LastTasks) = 3 /\ LastTasks[1].on = "fieldScheme"
        /\ LastTasks[2].on = "workflowScheme" /\ LastTasks[3].on = "workflowScheme"
    BY DEF LastTasks, Assign, Check
  <2>3. Assign("typeScreen").on = "typeScreen"
    BY DEF Assign
  <2>. QED BY <2>1, <2>2, <2>3 DEF Without
<1>2. Most \in Seq(Task)
  BY EarlyTasks, ScreenShape, Parts
<1>3. Without(Early, Late \ {Assign("typeScreen")})
  BY EarlyTasks DEF Without
<1>4. Without(Most, Late \ {Assign("typeScreen")})
  BY <1>3, EarlyTasks, ScreenShape, Parts
<1>5. \A t : Has(Early, t) \/ Has(ScreenTasks, t) => Has(Most, t)
  BY EarlyTasks, ScreenShape, Parts
<1>6. Tasks = Most \o LastTasks
  BY DEF Tasks, Early
<1>7. Len(Early) \in Nat /\ DOMAIN Early = 1..Len(Early)
      /\ Len(ScreenTasks) \in Nat /\ DOMAIN ScreenTasks = 1..Len(ScreenTasks)
      /\ Len(Most) = Len(Early) + Len(ScreenTasks) /\ DOMAIN Most = 1..Len(Most)
  BY EarlyTasks, ScreenShape, Parts, LenProperties
<1>8. \A i \in 1..Len(ScreenTasks) : Most[Len(Early) + i] = ScreenTasks[i]
  BY EarlyTasks, ScreenShape, Parts
<1>9. \A i \in 1..Len(Early) : Most[i] = Early[i]
  BY EarlyTasks, ScreenShape, Parts
<1> HIDE DEF Most
<1>10. /\ Tasks \in Seq(Task) /\ DOMAIN Tasks = 1..Len(Most) + 3
       /\ \A i \in 1..Len(Most) : Tasks[i] = Most[i]
       /\ \A i \in 1..3 : Tasks[Len(Most) + i] = LastTasks[i]
  <2>1. /\ Most \o LastTasks \in Seq(Task)
        /\ Len(Most \o LastTasks) = Len(Most) + Len(LastTasks)
        /\ \A i \in 1..Len(Most) : (Most \o LastTasks)[i] = Most[i]
        /\ \A i \in 1..Len(LastTasks) : (Most \o LastTasks)[Len(Most) + i] = LastTasks[i]
    <3>1. Most \o LastTasks \in Seq(Task) /\ Len(Most \o LastTasks) = Len(Most) + Len(LastTasks)
      BY <1>1, <1>2, Parts
    <3>2. \A i \in 1..Len(Most) : (Most \o LastTasks)[i] = Most[i]
      BY <1>1, <1>2, Parts
    <3>3. \A i \in 1..Len(LastTasks) : (Most \o LastTasks)[Len(Most) + i] = LastTasks[i]
      <4>1. LastTasks \in Seq(Task) /\ Most \in Seq(Task)
        BY <1>1, <1>2
      <4>. QED BY <4>1, Parts
    <3>. QED BY <3>1, <3>2, <3>3
  <2>2. Tasks \in Seq(Task) /\ Len(Tasks) = Len(Most) + 3
    BY <1>1, <1>6, <2>1
  <2>3. DOMAIN Tasks = 1..Len(Most) + 3
    BY <2>2, LenProperties
  <2>4. 1..Len(LastTasks) = 1..3
    BY <1>1
  <2>. QED BY <1>6, <2>1, <2>2, <2>3, <2>4
<1>11. ASSUME NEW t, Has(Most, t), NEW u \in Late \ {Assign("typeScreen")}
       PROVE  Before(t, u)
  <2>1. PICK j \in 1..Len(Most) : Tasks[j] = t
    BY <1>7, <1>10, <1>11 DEF Has
  <2>2. \A i \in 1..Len(Most) : Tasks[i] # u
    BY <1>4, <1>7, <1>10 DEF Without
  <2>. QED BY <1>7, <1>10, <2>1, <2>2 DEF Before
<1>12. Before(Create("typeScreen"), Assign("typeScreen"))
  <2>1. ASSUME NEW i \in DOMAIN Tasks, Tasks[i] = Assign("typeScreen")
        PROVE  \E j \in 1..i - 1 : Tasks[j] = Create("typeScreen")
    <3>1. i \in 1..Len(Most)
      <4>1. \A k \in 1..3 : LastTasks[k] # Assign("typeScreen")
        BY <1>1, LenProperties DEF Without
      <4>2. \A k \in 1..3 : Tasks[Len(Most) + k] # Assign("typeScreen")
        BY <1>10, <4>1
      <4>3. i \notin 1..Len(Most) => i - Len(Most) \in 1..3
        BY <1>7, <1>10
      <4>. QED BY <1>7, <1>10, <2>1, <4>2, <4>3
    <3>2. ~(i <= Len(Early))
      BY <1>7, <1>9, <1>10, <2>1, <3>1, EarlyTasks DEF Without, Late
    <3>3. PICK k \in 1..Len(ScreenTasks) : i = Len(Early) + k
      <4>1. i - Len(Early) \in 1..Len(ScreenTasks) /\ i = Len(Early) + (i - Len(Early))
        BY <1>7, <3>1, <3>2
      <4>. QED BY <4>1
    <3>4. ScreenTasks[k] = Assign("typeScreen")
      BY <1>8, <1>10, <2>1, <3>1, <3>3
    <3>5. PICK j \in 1..k - 1 : ScreenTasks[j] = Create("typeScreen")
      BY <1>7, <3>4, ScreenShape
    <3>6. j \in 1..Len(ScreenTasks) /\ Len(Early) + j \in 1..i - 1
          /\ Len(Early) + j \in 1..Len(Most)
      BY <1>7, <3>3, <3>5
    <3>. QED BY <1>8, <1>10, <3>5, <3>6
  <2>. QED BY <2>1 DEF Before
<1>13. /\ Assign("fieldScheme") \in Late \ {Assign("typeScreen")}
       /\ Assign("workflowScheme") \in Late \ {Assign("typeScreen")}
  BY DEF Late, Assign
<1>14. 1 \in DOMAIN Tasks
  BY <1>7, <1>10
<1>15. \A k \in DOMAIN MapOf : Before(Create(k), Assign("fieldScheme"))
  <2>1. DOMAIN MapOf = {"screenScheme", "typeScreen"}
    BY DEF MapOf
  <2>. QED BY <1>5, <1>11, <1>13, <2>1, ScreenShape
<1>. QED BY <1>5, <1>10, <1>11, <1>12, <1>13, <1>14, <1>15, EarlyTasks, ScreenShape DEF OnTheScreen
-----------------------------------------------------------------------------
(* What a run has done stays done, unless people undo it. *)
Stays == /\ \A k \in Kinds : made[k] # "absent" => made'[k] # "absent"
         /\ \A f \in Facts : f \in holds \union theirs => f \in (holds \union theirs)'
         /\ \A c \in Schemes : c \in assigned \union theirs => c \in (assigned \union theirs)'

(* Nobody undoes anything. *)
Grows == Stays /\ holds \subseteq holds' /\ assigned \subseteq assigned'

LEMMA KeepsWhatIsLeft ==
  ASSUME Grows, NEW t, Left(t)
  PROVE  Left(t)'
BY DEF Grows, Stays, Left

(* The names of the facts and of the schemes differ; so do what they mean. *)
LEMMA Apart ==
  /\ Facts \cap Schemes = {}
  /\ DOMAIN MapOf = {"screenScheme", "typeScreen"} /\ DOMAIN MapOf \subseteq Kinds
  /\ \A k \in DOMAIN MapOf : MapOf[k] \in Maps /\ Content(k) = {MapOf[k]} /\ k # Structured
  /\ Maps = {MapOf[k] : k \in DOMAIN MapOf}
  /\ Maps \subseteq Facts /\ OnTheScreen \subseteq Facts /\ "typeScreen" \in Schemes
  /\ FieldSet \subseteq Kinds /\ {"workflow", "workflowScheme"} \subseteq Kinds
<1>1. DOMAIN MapOf = {"screenScheme", "typeScreen"}
  BY DEF MapOf
<1>2. MapOf["screenScheme"] = "screenMap" /\ MapOf["typeScreen"] = "typeScreenMap"
  BY DEF MapOf
<1>3. \A k \in DOMAIN MapOf : MapOf[k] \in Maps /\ Content(k) = {MapOf[k]} /\ k # Structured
  <2>1. "screenScheme" # Structured /\ "typeScreen" # Structured
    BY DEF Structured
  <2>2. Content("screenScheme") = {MapOf["screenScheme"]} /\ Content("typeScreen") = {MapOf["typeScreen"]}
    BY <1>1 DEF Content
  <2>. QED BY <1>1, <1>2, <2>1, <2>2 DEF Maps
<1>4. Maps = {MapOf[k] : k \in DOMAIN MapOf}
  BY <1>1, <1>2 DEF Maps
<1>5. Facts \cap Schemes = {}
  BY FieldsAssumption DEF Facts, Schemes, Maps, OnTheScreen, Structured
<1>6. Maps \subseteq Facts /\ OnTheScreen \subseteq Facts
  BY DEF Facts
<1>7. FieldSet \subseteq Kinds /\ {"workflow", "workflowScheme"} \subseteq Kinds
      /\ DOMAIN MapOf \subseteq Kinds /\ "typeScreen" \in Schemes
  BY <1>1 DEF Kinds, Schemes
<1>. QED BY <1>1, <1>3, <1>4, <1>5, <1>6, <1>7

LEMMA KeepsReady ==
  ASSUME Stays
  PROVE  (FieldsReady => FieldsReady') /\ (FlowReady => FlowReady')
<1>1. FieldsReady => FieldsReady'
  BY Apart DEF Stays, FieldsReady, ScreensShow
<1>2. FlowReady => FlowReady'
  BY Apart DEF Stays, FlowReady
<1>. QED BY <1>1, <1>2

(* A request that Jira carries out leaves what it should. *)
LEMMA Carried ==
  ASSUME Shape, NEW t \in Task, Effect(t)
  PROVE  /\ Grows /\ Left(t)' /\ (Mapped => Mapped')
         /\ made' \in [Kinds -> {"absent", "ours", "found", "ambiguous"}]
         /\ \A s : s \in assigned' => s \in assigned \/ t = Assign(s)
<1>1. made \in [Kinds -> {"absent", "ours", "found", "ambiguous"}]
  BY DEF Shape
<1>2. /\ made' \in [Kinds -> {"absent", "ours", "found", "ambiguous"}]
      /\ \A k \in Kinds : made[k] # "absent" => made'[k] # "absent"
      /\ \A k \in Kinds : made[k] = "absent" /\ made'[k] # "absent" => t.op = "create" /\ t.on = k
      /\ t.op = "create" /\ t.on \in Kinds => made'[t.on] # "absent"
  BY <1>1 DEF Effect
<1>3. holds \subseteq holds' /\ (t.op = "fix" => t.on \in holds')
  BY DEF Effect
<1>4. assigned \subseteq assigned' /\ (t.op = "assign" => t.on \in assigned')
      /\ \A s \in assigned' : s \in assigned \/ (t.op = "assign" /\ t.on = s)
  BY DEF Effect
<1>5. Assign("typeScreen").op = "assign" /\ Assign("typeScreen").on = "typeScreen"
  BY DEF Assign
<1>6. ASSUME NEW s, s \in assigned' PROVE s \in assigned \/ t = Assign(s)
  BY <1>4, <1>6 DEF Assign, Task
<1>7. Left(t)'
  BY <1>2, <1>3, <1>4, <1>5 DEF Left
<1>8. ASSUME NEW x, x \in theirs, x \notin theirs'
      PROVE  t.on = x /\ ((t.op = "fix" /\ x \in Facts) \/ (t.op = "assign" /\ x \in Schemes))
  BY <1>8 DEF Effect, Task
<1>9. \A f \in Facts : f \in holds \union theirs => f \in (holds \union theirs)'
  BY <1>3, <1>8, Apart
<1>10. \A c \in Schemes : c \in assigned \union theirs => c \in (assigned \union theirs)'
  BY <1>4, <1>8, Apart
<1>11. Stays
  BY <1>2, <1>9, <1>10 DEF Stays
<1>12. ASSUME Mapped, NEW k \in DOMAIN MapOf, made'[k] # "absent"
       PROVE  MapOf[k] \in (holds \union theirs)'
  <2>1. CASE made[k] # "absent"
    BY <1>9, <1>12, <2>1, Apart DEF Mapped
  <2>2. CASE made[k] = "absent"
    <3>1. t.op = "create" /\ t.on = k
      BY <1>2, <1>12, <2>2, Apart
    <3>2. holds' = holds \union Content(k)
      BY <2>2, <3>1 DEF Effect
    <3>. QED BY <3>2, Apart
  <2>. QED BY <2>1, <2>2
<1>. QED BY <1>2, <1>3, <1>4, <1>6, <1>7, <1>11, <1>12 DEF Grows, Mapped

(* The requests of a run at its task. *)
LEMMA AtTask ==
  ASSUME Shape, at # 0
  PROVE  at \in DOMAIN Tasks /\ at \in 1..Len(Tasks) /\ Len(Tasks) \in Nat /\ Tasks[at] \in Task
<1>1. Tasks \in Seq(Task)
  BY Order
<1>. QED BY <1>1, LenProperties, ElementOfSeq DEF Shape

LEMMA ReadyInTime ==
  ASSUME IInv, at # 0, apply
  PROVE  /\ Tasks[at] = Assign("fieldScheme") => ScreensShow(theirs \cap Maps) /\ FieldsReady
         /\ Tasks[at] = Assign("workflowScheme") => FlowReady
<1>1. at \in DOMAIN Tasks /\ \A j \in 1..at - 1 : Left(Tasks[j])
  BY AtTask DEF IInv, Passed
<1>2. \A t, u : Before(t, u) /\ Tasks[at] = u => Left(t)
  BY <1>1 DEF Before
<1>3. /\ \A k \in Kinds : Left(Create(k)) => made[k] # "absent"
      /\ \A f \in OnTheScreen : Left(Fix(f)) => f \in holds
      /\ Left(Assign("typeScreen")) => "typeScreen" \in assigned
  BY DEF Left, Create, Fix
<1>4. ASSUME Tasks[at] = Assign("fieldScheme") PROVE ScreensShow(theirs \cap Maps) /\ FieldsReady
  <2>1. Left(Assign("typeScreen"))
    BY <1>2, <1>4, Order
  <2>2. \A f \in FieldSet : Left(Create(f))
    BY <1>2, <1>4, Order
  <2>3. \A f \in OnTheScreen : Left(Fix(f))
    BY <1>2, <1>4, Order
  <2>4. \A k \in DOMAIN MapOf : Left(Create(k))
    BY <1>2, <1>4, Order
  <2>5. \A k \in DOMAIN MapOf : MapOf[k] \in holds \union theirs
    BY <1>3, <2>4, Apart DEF IInv, Mapped
  <2>6. Maps \subseteq holds \union theirs
    BY <2>5, Apart
  <2>7. "typeScreen" \in assigned /\ OnTheScreen \subseteq holds /\ \A f \in FieldSet : made[f] # "absent"
    BY <1>3, <2>1, <2>2, <2>3, Apart
  <2>. QED BY <2>6, <2>7 DEF FieldsReady, ScreensShow
<1>5. ASSUME Tasks[at] = Assign("workflowScheme") PROVE FlowReady
  <2>1. Left(Create("workflow")) /\ Left(Create("workflowScheme"))
    BY <1>2, <1>5, Order
  <2>. QED BY <1>3, <2>1, Apart DEF FlowReady
<1>. QED BY <1>4, <1>5

(* A run that has nothing to send for its task finds it done. *)
LEMMA NothingNeeded ==
  ASSUME IInv, at # 0, apply, ~Needed(Tasks[at])
  PROVE  Left(Tasks[at])
<1> DEFINE t == Tasks[at]
<1>1. t.op = "create" => made[t.on] # "absent"
  BY DEF Needed
<1>2. t.op = "fix" => t.on \in holds
  BY DEF Needed
<1>3. t # Assign("typeScreen")
  <2>1. SUFFICES ASSUME t = Assign("typeScreen") PROVE FALSE
    OBVIOUS
  <2>2. at \in DOMAIN Tasks
    BY AtTask DEF IInv
  <2>3. \E j \in 1..at - 1 : Tasks[j] = Create("typeScreen")
    BY <2>1, <2>2, Order DEF Before
  <2>4. "typeScreen" \in todo
    BY <2>3 DEF IInv, Remembered
  <2>5. t.op = "assign" /\ t.on = "typeScreen"
    BY <2>1 DEF Assign
  <2>. QED BY <2>4, <2>5 DEF Needed
<1>. QED BY <1>1, <1>2, <1>3 DEF Left

-----------------------------------------------------------------------------
(* The steps.                                                              *)

(* A run that is sending nothing. *)
LEMMA Resting ==
  ASSUME IInv, doing' = FALSE, apply' = apply, at' \in 0..Len(Tasks),
         made' \in [Kinds -> {"absent", "ours", "found", "ambiguous"}]
  PROVE  Shape'
<1>1. doing' \in BOOLEAN /\ (doing' => apply')
  OBVIOUS
<1>2. apply' \in BOOLEAN
  BY DEF IInv, Shape
<1>. QED BY <1>1, <1>2 DEF Shape

(* A run that has ended has passed nothing. *)
LEMMA Ended ==
  ASSUME IInv, NEW how, End(how),
         made' \in [Kinds -> {"absent", "ours", "found", "ambiguous"}]
  PROVE  Shape' /\ Passed' /\ Remembered'
<1>1. Len(Tasks) \in Nat
  BY Order, LenProperties
<1>2. at' = 0 /\ doing' = FALSE /\ apply' = apply
  BY DEF End
<1>3. Shape'
  <2>1. at' \in 0..Len(Tasks)
    BY <1>1, <1>2
  <2>. QED BY <1>2, <2>1, Resting, Zenon
<1>4. Passed' /\ Remembered'
  BY <1>2 DEF Passed, Remembered
<1>. QED BY <1>3, <1>4

LEMMA GoesOn ==
  ASSUME IInv, at # 0, NEW t, t = Tasks[at], apply => Left(t)', Grows, GoOn(t),
         made' \in [Kinds -> {"absent", "ours", "found", "ambiguous"}]
  PROVE  Shape' /\ Passed' /\ Remembered'
<1>1. at \in 1..Len(Tasks) /\ Len(Tasks) \in Nat
  BY AtTask DEF IInv
<1>2. CASE at < Len(Tasks)
  <2>1. at' = at + 1 /\ doing' = FALSE /\ todo' = todo \union Decided(t) /\ apply' = apply
    BY <1>2 DEF GoOn
  <2>2. \A j \in 1..at' - 1 : j \in 1..at - 1 \/ j = at
    BY <1>1, <2>1
  <2>3. Passed'
    <3>1. SUFFICES ASSUME apply, NEW j \in 1..at' - 1 PROVE Left(Tasks[j])'
      BY <2>1 DEF Passed
    <3>2. CASE j = at
      BY <3>1, <3>2
    <3>3. CASE j \in 1..at - 1
      BY <3>1, <3>3, KeepsWhatIsLeft DEF IInv, Passed
    <3>. QED BY <2>2, <3>2, <3>3
  <2>4. Remembered'
    <3>1. SUFFICES ASSUME apply, NEW j \in 1..at' - 1, Tasks[j] = Create("typeScreen")
                   PROVE  "typeScreen" \in todo'
      BY <2>1 DEF Remembered
    <3>2. CASE j = at
      <4>1. Decided(Create("typeScreen")) = {"typeScreen"}
        BY DEF Decided, Create
      <4>. QED BY <2>1, <3>1, <3>2, <4>1
    <3>3. CASE j \in 1..at - 1
      BY <2>1, <3>1, <3>3 DEF IInv, Remembered
    <3>. QED BY <2>2, <3>2, <3>3
  <2>5. Shape'
    <3>1. at' \in 0..Len(Tasks)
      BY <1>1, <1>2, <2>1
    <3>. QED BY <2>1, <3>1, Resting, Zenon
  <2>. QED BY <2>3, <2>4, <2>5
<1>3. CASE ~(at < Len(Tasks))
  <2>1. PICK how : End(how)
    BY <1>3 DEF GoOn
  <2>. QED BY <2>1, Ended
<1>. QED BY <1>2, <1>3

(* Jira as it was. *)
LEMMA SameJira ==
  ASSUME IInv, UNCHANGED jira
  PROVE  /\ Grows /\ made' \in [Kinds -> {"absent", "ours", "found", "ambiguous"}]
         /\ flying' \subseteq flying => Grounded'
         /\ Mapped'
<1>1. made' = made /\ holds' = holds /\ assigned' = assigned /\ theirs' = theirs
  BY DEF jira
<1>2. Stays /\ Grows
  BY <1>1 DEF Stays, Grows
<1>3. Mapped'
  BY <1>1 DEF IInv, Mapped
<1>. QED BY <1>1, <1>2, <1>3, KeepsReady DEF IInv, Shape, Grounded

(* Jira carries out a request whose needs are met. *)
LEMMA CarriedGrounded ==
  ASSUME IInv, NEW t \in Task, Effect(t), flying' \subseteq flying,
         t = Assign("fieldScheme") => FieldsReady,
         t = Assign("workflowScheme") => FlowReady
  PROVE  Grounded' /\ Mapped'
<1>1. Stays /\ Mapped' /\ \A s : s \in assigned' => s \in assigned \/ t = Assign(s)
  BY Carried DEF IInv, Grows
<1>. QED BY <1>1, KeepsReady DEF IInv, Grounded

LEMMA LookStep == IInv /\ Look => IInv'
<1>1. SUFFICES ASSUME IInv, Look PROVE IInv'
  OBVIOUS
<1>2. UNCHANGED jira /\ flying' = flying /\ at # 0
  BY <1>1 DEF Look
<1>3. Grounded' /\ Mapped' /\ Grows /\ made' \in [Kinds -> {"absent", "ours", "found", "ambiguous"}]
  BY <1>1, <1>2, SameJira
<1>4. CASE \E how : End(how)
  BY <1>1, <1>3, <1>4, Ended DEF IInv
<1>5. CASE apply /\ doing' = TRUE /\ UNCHANGED <<apply, at, todo, said>>
  <2>1. Shape'
    BY <1>1, <1>3, <1>5 DEF IInv, Shape
  <2>2. Passed'
    <3>1. SUFFICES ASSUME NEW j \in 1..at - 1 PROVE Left(Tasks[j])'
      BY <1>5 DEF Passed
    <3>. QED BY <1>1, <1>2, <1>3, <1>5, <3>1, KeepsWhatIsLeft DEF IInv, Passed
  <2>3. Remembered'
    BY <1>1, <1>5 DEF IInv, Remembered
  <2>. QED BY <1>3, <2>1, <2>2, <2>3 DEF IInv
<1>6. CASE GoOn(Tasks[at]) /\ (apply => ~Needed(Tasks[at]))
  <2>1. PICK t : t = Tasks[at]
    OBVIOUS
  <2>2. apply => Left(t)
    BY <1>1, <1>2, <1>6, <2>1, NothingNeeded
  <2>3. apply => Left(t)'
    BY <1>3, <2>2, KeepsWhatIsLeft
  <2>. QED BY <1>1, <1>2, <1>3, <1>6, <2>1, <2>3, GoesOn DEF IInv
<1>. QED BY <1>1, <1>4, <1>5, <1>6 DEF Look

LEMMA SendStep == IInv /\ Send => IInv'
<1>1. SUFFICES ASSUME IInv, Send PROVE IInv'
  OBVIOUS
<1>2. at # 0 /\ apply /\ flying' = flying /\ Tasks[at] \in Task
  BY <1>1, AtTask DEF Send, IInv, Shape
<1>3. CASE Effect(Tasks[at]) /\ GoOn(Tasks[at])
  <2>. PICK t : t = Tasks[at]
    OBVIOUS
  <2>1. /\ Grows /\ Left(t)'
        /\ made' \in [Kinds -> {"absent", "ours", "found", "ambiguous"}]
    BY <1>1, <1>2, <1>3, Carried DEF IInv
  <2>2. Grounded' /\ Mapped'
    BY <1>1, <1>2, <1>3, ReadyInTime, CarriedGrounded
  <2>. QED BY <1>1, <1>2, <1>3, <2>1, <2>2, GoesOn DEF IInv
<1>4. CASE UNCHANGED jira /\ End("refused")
  BY <1>1, <1>2, <1>4, SameJira, Ended DEF IInv
<1>. QED BY <1>1, <1>3, <1>4 DEF Send

LEMMA LoseStep == IInv /\ Lose => IInv'
<1>1. SUFFICES ASSUME IInv, Lose PROVE IInv'
  OBVIOUS
<1>2. at # 0 /\ apply /\ Tasks[at] \in Task /\ End("stopped")
  BY <1>1, AtTask DEF Lose, IInv, Shape
<1>3. CASE Effect(Tasks[at]) /\ UNCHANGED flying
  <2>1. made' \in [Kinds -> {"absent", "ours", "found", "ambiguous"}]
    BY <1>1, <1>2, <1>3, Carried DEF IInv
  <2>2. Grounded' /\ Mapped'
    BY <1>1, <1>2, <1>3, ReadyInTime, CarriedGrounded
  <2>. QED BY <1>1, <1>2, <2>1, <2>2, Ended DEF IInv
<1>4. CASE UNCHANGED <<jira, flying>>
  BY <1>1, <1>2, <1>4, SameJira, Ended DEF IInv
<1>5. CASE flying' = flying \union {Tasks[at]} /\ UNCHANGED jira
  <2>1. Stays /\ Mapped' /\ made' \in [Kinds -> {"absent", "ours", "found", "ambiguous"}]
    BY <1>1, <1>5, SameJira DEF Grows
  <2>2. assigned' = assigned
    BY <1>5 DEF jira
  <2>3. Grounded'
    BY <1>1, <1>2, <1>5, <2>1, <2>2, ReadyInTime, KeepsReady DEF IInv, Grounded
  <2>. QED BY <1>1, <1>2, <2>1, <2>3, Ended DEF IInv
<1>. QED BY <1>1, <1>3, <1>4, <1>5 DEF Lose

(* What changes in Jira while the run stands where it is. *)
LEMMA RunStands ==
  ASSUME IInv, UNCHANGED run, at # 0 => Grows,
         made' \in [Kinds -> {"absent", "ours", "found", "ambiguous"}]
  PROVE  Shape' /\ Passed' /\ Remembered'
<1>1. at' = at /\ apply' = apply /\ doing' = doing /\ todo' = todo
  BY DEF run
<1>2. Passed'
  BY <1>1, KeepsWhatIsLeft DEF IInv, Passed
<1>. QED BY <1>1, <1>2 DEF IInv, Shape, Remembered

LEMMA LandStep == IInv /\ (\E t \in flying : Land(t)) => IInv'
<1>1. SUFFICES ASSUME IInv, NEW t \in flying, Land(t) PROVE IInv'
  OBVIOUS
<1>2. UNCHANGED run /\ flying' \subseteq flying
  BY <1>1 DEF Land
<1>3. CASE Effect(t)
  <2>1. /\ t = Assign("fieldScheme") => FieldsReady
        /\ t = Assign("workflowScheme") => FlowReady
    BY <1>1 DEF IInv, Grounded
  <2>2. t \in Task
    BY <1>1 DEF IInv, Grounded
  <2>3. Grows /\ made' \in [Kinds -> {"absent", "ours", "found", "ambiguous"}]
    BY <1>1, <1>3, <2>2, Carried DEF IInv
  <2>4. Grounded' /\ Mapped'
    BY <1>1, <1>2, <1>3, <2>1, <2>2, CarriedGrounded
  <2>. QED BY <1>1, <1>2, <2>3, <2>4, RunStands DEF IInv
<1>4. CASE UNCHANGED jira
  BY <1>1, <1>2, <1>4, SameJira, RunStands DEF IInv
<1>. QED BY <1>1, <1>3, <1>4 DEF Land

(* What people change.  While a run is under way they only create issues.   *)
LEMMA WhatPeopleDo ==
  ASSUME Shape, People
  PROVE  /\ UNCHANGED <<run, said, flying>> /\ assigned' \subseteq assigned
         /\ holds' \subseteq holds \union Maps /\ theirs' \subseteq theirs \union Facts \union Schemes
         /\ made' = made \/ made' = [made EXCEPT ![Structured] = "found"]
         /\ made' \in [Kinds -> {"absent", "ours", "found", "ambiguous"}]
         /\ at # 0 => UNCHANGED <<made, holds, assigned, shared, theirs>>
         /\ Stays
<1>1. made \in [Kinds -> {"absent", "ours", "found", "ambiguous"}]
  BY DEF Shape
<1>2. CASE AddIssue \/ InstallForge \/ (\E k \in Kinds : Share(k))
  <2>1. UNCHANGED <<run, said, flying, holds, assigned, theirs>>
    BY <1>2 DEF AddIssue, InstallForge, Share, ByHand
  <2>2. made' = made \/ made' = [made EXCEPT ![Structured] = "found"]
    BY <1>2 DEF AddIssue, InstallForge, Share
  <2>3. /\ made' \in [Kinds -> {"absent", "ours", "found", "ambiguous"}]
        /\ \A k \in Kinds : made[k] # "absent" => made'[k] # "absent"
    BY <1>1, <2>2
  <2>4. at # 0 => UNCHANGED <<made, holds, assigned, shared, theirs>>
    BY <1>2 DEF AddIssue, InstallForge, Share, ByHand
  <2>. QED BY <2>1, <2>2, <2>3, <2>4 DEF Stays
<1>3. ASSUME NEW f \in Facts, Drift(f)
      PROVE  /\ UNCHANGED <<run, said, flying, made, assigned>> /\ at = 0
             /\ holds' \subseteq holds /\ theirs' = theirs \union {f}
             /\ Stays
  <2>1. /\ UNCHANGED <<run, said, flying, made, assigned>> /\ at = 0
        /\ holds' = holds \ {f} /\ theirs' = theirs \union {f}
    BY <1>3 DEF Drift, ByHand
  <2>. QED BY <2>1 DEF Stays
<1>4. ASSUME NEW k \in DOMAIN MapOf, Mend(k)
      PROVE  /\ UNCHANGED <<run, said, flying, made, assigned>> /\ at = 0
             /\ holds' \subseteq holds \union Maps /\ theirs' \subseteq theirs
             /\ Stays
  <2>1. /\ UNCHANGED <<run, said, flying, made, assigned>> /\ at = 0
        /\ holds' = holds \union {MapOf[k]} /\ theirs' = theirs \ {MapOf[k]}
    BY <1>4 DEF Mend, ByHand
  <2>2. MapOf[k] \in Maps /\ MapOf[k] \in Facts /\ MapOf[k] \notin Schemes
    BY Apart
  <2>. QED BY <2>1, <2>2 DEF Stays
<1>5. ASSUME NEW c \in Schemes, Unassign(c)
      PROVE  /\ UNCHANGED <<run, said, flying, made, holds>> /\ at = 0
             /\ assigned' \subseteq assigned /\ theirs' = theirs \union {c}
             /\ Stays
  <2>1. /\ UNCHANGED <<run, said, flying, made, holds>> /\ at = 0
        /\ assigned' = assigned \ {c} /\ theirs' = theirs \union {c}
    BY <1>5 DEF Unassign, ByHand
  <2>. QED BY <2>1 DEF Stays
<1>6. CASE \E f \in Facts : Drift(f)
  BY <1>1, <1>3, <1>6
<1>7. CASE \E k \in DOMAIN MapOf : Mend(k)
  BY <1>1, <1>4, <1>7
<1>8. CASE \E c \in Schemes : Unassign(c)
  BY <1>1, <1>5, <1>8
<1>. QED BY <1>2, <1>6, <1>7, <1>8 DEF People

LEMMA PeopleStep == IInv /\ People => IInv'
<1>1. SUFFICES ASSUME IInv, People PROVE IInv'
  OBVIOUS
<1>2. /\ UNCHANGED <<run, said, flying>> /\ assigned' \subseteq assigned
      /\ made' = made \/ made' = [made EXCEPT ![Structured] = "found"]
      /\ made' \in [Kinds -> {"absent", "ours", "found", "ambiguous"}]
      /\ at # 0 => UNCHANGED <<made, holds, assigned, shared, theirs>>
      /\ Stays
  BY <1>1, WhatPeopleDo DEF IInv
<1>3. at # 0 => Grows
  BY <1>2 DEF Grows
<1>4. Grounded'
  BY <1>1, <1>2, KeepsReady DEF IInv, Grounded
<1>5. Mapped'
  <2>1. \A k \in DOMAIN MapOf : made'[k] = made[k]
    BY <1>1, <1>2, Apart DEF IInv, Shape
  <2>. QED BY <1>1, <1>2, <2>1, Apart DEF IInv, Mapped, Stays
<1>6. UNCHANGED run
  BY <1>2
<1>. QED BY <1>1, <1>2, <1>3, <1>4, <1>5, <1>6, RunStands DEF IInv

LEMMA Begin == Init => IInv
<1>1. SUFFICES ASSUME Init PROVE IInv
  OBVIOUS
<1>2. made \in [Kinds -> {"absent", "ours", "found", "ambiguous"}]
  BY <1>1 DEF Init
<1>3. Len(Tasks) \in Nat
  BY Order, LenProperties
<1>4. at = 0 /\ apply = FALSE /\ doing = FALSE /\ assigned = {} /\ flying = {}
  BY <1>1 DEF Init
<1>5. Shape
  <2>1. doing \in BOOLEAN /\ apply \in BOOLEAN /\ (doing => apply)
    BY <1>4
  <2>2. at \in 0..Len(Tasks)
    BY <1>3, <1>4
  <2>. QED BY <1>2, <2>1, <2>2 DEF Shape
<1>6. Passed /\ Remembered
  BY <1>4 DEF Passed, Remembered
<1>7. Grounded
  BY <1>4 DEF Grounded
<1>8. Mapped
  <2>1. SUFFICES ASSUME NEW k \in DOMAIN MapOf, made[k] # "absent" PROVE MapOf[k] \in theirs
    BY DEF Mapped
  <2>2. made[k] = "found"
    BY <1>1, <2>1, Apart DEF Init
  <2>. QED BY <1>1, <2>2 DEF Init
<1>. QED BY <1>5, <1>6, <1>7, <1>8 DEF IInv

LEMMA StartStep == IInv /\ (\E mode \in BOOLEAN : Start(mode)) => IInv'
<1>1. SUFFICES ASSUME IInv, NEW mode \in BOOLEAN, Start(mode) PROVE IInv'
  OBVIOUS
<1>2. at' = 1 /\ apply' = mode /\ doing' = FALSE /\ UNCHANGED jira /\ flying' = flying
  BY <1>1 DEF Start
<1>3. Grounded' /\ Mapped' /\ made' \in [Kinds -> {"absent", "ours", "found", "ambiguous"}]
  BY <1>1, <1>2, SameJira
<1>4. 1 \in 0..Len(Tasks)
  BY Order, LenProperties
<1>5. Passed' /\ Remembered'
  BY <1>2 DEF Passed, Remembered
<1>. QED BY <1>2, <1>3, <1>4, <1>5 DEF IInv, Shape

LEMMA Step == IInv /\ [Next]_vars => IInv'
<1>1. SUFFICES ASSUME IInv, [Next]_vars PROVE IInv'
  OBVIOUS
<1>2. CASE UNCHANGED vars
  <2>1. UNCHANGED jira /\ UNCHANGED run /\ flying' = flying
    BY <1>2 DEF vars
  <2>. QED BY <1>1, <2>1, SameJira, RunStands DEF IInv
<1>3. CASE Kill
  <2>1. UNCHANGED jira /\ flying' = flying /\ End("stopped")
    BY <1>3 DEF Kill
  <2>. QED BY <1>1, <2>1, SameJira, Ended DEF IInv
<1>. QED BY <1>1, <1>2, <1>3, StartStep, LookStep, SendStep, LoseStep, LandStep, PeopleStep
         DEF Next

(* The order of the requests protects the Space: IInv holds at all times.  *)
THEOREM Invariant == Spec => []IInv
<1>. QED BY Begin, Step, PTL DEF Spec

(* Whatever run was cut short, whatever request of it arrives late, and     *)
(* whatever people change between two runs: a run that asks Jira to use our *)
(* field configuration leaves its fields on the screens, and what is        *)
(* missing there later people took away, or is shown elsewhere by a screen  *)
(* scheme of theirs that bears our name.                                   *)
THEOREM AlwaysUsable == Spec => []UsableThroughout
<1>1. IInv => UsableThroughout
  <2>1. SUFFICES ASSUME IInv PROVE UsableThroughout
    OBVIOUS
  <2>2. at # 0 /\ doing /\ Tasks[at] = Assign("fieldScheme") => ScreensShow(theirs \cap Maps)
    BY <2>1, ReadyInTime DEF IInv, Shape
  <2>3. "fieldScheme" \in assigned => ScreensShow(theirs)
    BY <2>1 DEF IInv, Grounded, FieldsReady
  <2>4. "workflowScheme" \in assigned =>
          {made["workflow"], made["workflowScheme"]} \cap {"absent"} = {}
    BY <2>1 DEF IInv, Grounded, FlowReady
  <2>. QED BY <2>2, <2>3, <2>4 DEF UsableThroughout
<1>. QED BY <1>1, Invariant, PTL

-----------------------------------------------------------------------------
(* A run that reports success has been through all the tasks, and what it  *)
(* found or made is still there: nobody changes the Space by hand while it *)
(* runs, and the requests that land late only add.                         *)

(* What is so once a run, or a preview, is past the task. *)
Reached(t) ==
  /\ t.op = "create" /\ t.on \in Kinds => made[t.on] # "absent"
  /\ t = Find(Structured) => made[Structured] # "absent"
  /\ t.op = "fix" => t.on \in holds \/ t.on \in OnTheScreen
  /\ t.op = "check" => t.on \in assigned
  /\ t = Create("typeScheme") => "items" \in holds
  /\ t = Create("workflowScheme") => "schemeMap" \in holds
  /\ t = Check("workflowScheme") => "workflowOk" \in holds
  /\ t = Assign("fieldScheme") => "fieldScheme" \in assigned

(* The field scheme is in use, or will be. *)
Planned == "fieldScheme" \in assigned \union todo

Bounded == /\ holds \subseteq Facts /\ assigned \subseteq Schemes
           /\ theirs \subseteq Facts \union Schemes

Silent == at # 0 => said = "nothing"

AllReached == at # 0 => \A j \in 1..at - 1 :
                /\ Reached(Tasks[j])
                /\ Tasks[j] = Create("fieldScheme") => Planned

(* A request that is about to be sent is needed; what somebody else made   *)
(* meanwhile is as new.                                                    *)
AsNew(k) == made[k] = "absent" \/ Content(k) \subseteq holds

Awaited == at # 0 /\ doing => \A t \in Task : t = Tasks[at] =>
             /\ t.op \in {"create", "fix", "assign"}
             /\ t.op = "create" /\ t.on \in Kinds => AsNew(t.on)

JInv == Bounded /\ Silent /\ AllReached /\ Awaited

AllTasks == \A j \in 1..Len(Tasks) : Reached(Tasks[j])
AllLeft == \A j \in 1..Len(Tasks) : Left(Tasks[j])

(* No part of the Space is left out of the tasks. *)
LEMMA AllIsTasked ==
  /\ \A k \in Kinds \ {Structured} : Has(Tasks, Create(k))
  /\ Has(Tasks, Find(Structured))
  /\ Has(Tasks, Fix("default")) /\ Has(Tasks, Fix("settings")) /\ Has(Tasks, Fix("fieldMap"))
  /\ Has(Tasks, Check("typeScheme")) /\ Has(Tasks, Check("workflowScheme"))
  /\ Has(Tasks, Assign("fieldScheme"))
  /\ Has(Tasks, Assign("typeScreen")) /\ \A f \in OnTheScreen : Has(Tasks, Fix(f))
  /\ Before(Create("fieldScheme"), Assign("fieldScheme"))
<1>1. /\ TypeTasks \in Seq(Task) /\ WorkflowTasks \in Seq(Task) /\ ConfigTasks \in Seq(Task)
      /\ <<Find(Structured)>> \in Seq(Task) /\ ScreenStart \in Seq(Task)
      /\ ScreenEnd \in Seq(Task) /\ LastTasks \in Seq(Task)
  <2>1. TypeTasks \in Seq(Task)
    BY OneTask DEF TypeTasks
  <2>2. WorkflowTasks \in Seq(Task)
    BY OneTask DEF WorkflowTasks
  <2>3. ConfigTasks \in Seq(Task)
    BY OneTask DEF ConfigTasks
  <2>4. <<Find(Structured)>> \in Seq(Task)
    BY OneTask
  <2>5. ScreenStart \in Seq(Task)
    BY OneTask DEF ScreenStart
  <2>6. ScreenEnd \in Seq(Task)
    BY OneTask DEF ScreenEnd
  <2>7. LastTasks \in Seq(Task)
    BY OneTask DEF LastTasks
  <2>. QED BY <2>1, <2>2, <2>3, <2>4, <2>5, <2>6, <2>7
<1>2. \A t : Has(TypeTasks, t) \/ Has(WorkflowTasks, t) \/ Has(FieldTasks, t) \/ Has(ConfigTasks, t)
             => Has(Early, t)
  <2>1. FieldTasks \in Seq(Task)
    BY <1>1, EachField, Parts DEF FieldTasks
  <2>2. TypeTasks \o WorkflowTasks \in Seq(Task)
        /\ \A t : Has(TypeTasks, t) \/ Has(WorkflowTasks, t) => Has(TypeTasks \o WorkflowTasks, t)
    BY <1>1, Parts
  <2> DEFINE Three == TypeTasks \o WorkflowTasks \o FieldTasks
  <2>3. Three \in Seq(Task)
        /\ \A t : Has(TypeTasks, t) \/ Has(WorkflowTasks, t) \/ Has(FieldTasks, t) => Has(Three, t)
    BY <2>1, <2>2, Parts
  <2>4. Early = Three \o ConfigTasks
    BY DEF Early
  <2> HIDE DEF Three
  <2>. QED BY <1>1, <2>3, <2>4, Parts
<1>3. \A t : Has(ScreenStart, t) \/ Has(ScreenEnd, t) => Has(ScreenTasks, t)
  <2> DEFINE Begun == ScreenStart \o Each(Fix, Fields)
  <2>1. Begun \in Seq(Task) /\ \A t : Has(ScreenStart, t) => Has(Begun, t)
    BY <1>1, EachField, Parts
  <2>2. ScreenTasks = Begun \o ScreenEnd
    BY DEF ScreenTasks, ScreenStart, ScreenEnd
  <2> HIDE DEF Begun
  <2>. QED BY <1>1, <2>1, <2>2, Parts
<1>4. \A t : Has(Early, t) \/ Has(ScreenTasks, t) \/ Has(LastTasks, t) => Has(Tasks, t)
  <2> DEFINE Most == Early \o ScreenTasks
  <2>1. Most \in Seq(Task) /\ \A t : Has(Early, t) \/ Has(ScreenTasks, t) => Has(Most, t)
    BY EarlyTasks, ScreenShape, Parts
  <2>2. Tasks = Most \o LastTasks
    BY DEF Tasks, Early
  <2> HIDE DEF Most
  <2>. QED BY <1>1, <2>1, <2>2, Parts
<1>5. \A k \in {"space", "type", "typeScheme"} : Has(TypeTasks, Create(k))
  <2>1. {1, 2, 3} \subseteq DOMAIN TypeTasks /\ TypeTasks[1] = Create("space")
        /\ TypeTasks[2] = Create("type") /\ TypeTasks[3] = Create("typeScheme")
    BY DEF TypeTasks
  <2>. QED BY <2>1 DEF Has
<1>6. Has(TypeTasks, Fix("default")) /\ Has(TypeTasks, Check("typeScheme"))
  <2>1. {4, 6} \subseteq DOMAIN TypeTasks /\ TypeTasks[4] = Fix("default")
        /\ TypeTasks[6] = Check("typeScheme")
    BY DEF TypeTasks
  <2>. QED BY <2>1 DEF Has
<1>7. \A k \in {"config", "fieldScheme"} : Has(ConfigTasks, Create(k))
  <2>1. {1, 2} \subseteq DOMAIN ConfigTasks /\ ConfigTasks[1] = Create("config")
        /\ ConfigTasks[2] = Create("fieldScheme")
    BY DEF ConfigTasks
  <2>. QED BY <2>1 DEF Has
<1>8. Has(ConfigTasks, Fix("settings")) /\ Has(ConfigTasks, Fix("fieldMap"))
  <2>1. {3, 4} \subseteq DOMAIN ConfigTasks /\ ConfigTasks[3] = Fix("settings")
        /\ ConfigTasks[4] = Fix("fieldMap")
    BY DEF ConfigTasks
  <2>. QED BY <2>1 DEF Has
<1>9. Has(ScreenStart, Create("screen")) /\ Has(ScreenEnd, Create("screenScheme"))
      /\ Has(ScreenEnd, Create("typeScreen"))
  <2>1. 1 \in DOMAIN ScreenStart /\ ScreenStart[1] = Create("screen")
    BY DEF ScreenStart
  <2>2. {1, 2} \subseteq DOMAIN ScreenEnd /\ ScreenEnd[1] = Create("screenScheme")
        /\ ScreenEnd[2] = Create("typeScreen")
    BY DEF ScreenEnd
  <2>. QED BY <2>1, <2>2 DEF Has
<1>10. Has(LastTasks, Assign("fieldScheme")) /\ Has(LastTasks, Check("workflowScheme"))
  <2>1. {1, 3} \subseteq DOMAIN LastTasks /\ LastTasks[1] = Assign("fieldScheme")
        /\ LastTasks[3] = Check("workflowScheme")
    BY DEF LastTasks
  <2>. QED BY <2>1 DEF Has
<1>11. Has(FieldTasks, Find(Structured))
  <2>1. 1 \in DOMAIN <<Find(Structured)>> /\ <<Find(Structured)>>[1] = Find(Structured)
    OBVIOUS
  <2>2. Has(<<Find(Structured)>>, Find(Structured))
    BY <2>1 DEF Has
  <2>. QED BY <1>1, <2>2, EachField, Parts DEF FieldTasks
<1>12. ASSUME NEW k \in Kinds \ {Structured} PROVE Has(Tasks, Create(k))
  <2>1. \/ k \in {"space", "type", "typeScheme"} \/ k \in {"workflow", "workflowScheme"}
        \/ k \in FieldSet \/ k \in {"config", "fieldScheme"}
        \/ k \in {"screen", "screenScheme", "typeScreen"}
    BY DEF Kinds, Schemes
  <2>. QED BY <1>2, <1>3, <1>4, <1>5, <1>7, <1>9, <2>1, EarlyTasks
<1>13. Has(Tasks, Assign("typeScreen")) /\ \A f \in OnTheScreen : Has(Tasks, Fix(f))
  BY <1>4, ScreenShape DEF OnTheScreen
<1>. QED BY <1>2, <1>4, <1>6, <1>7, <1>8, <1>10, <1>11, <1>12, <1>13, Order

(* The Space is prepared when a run is past all its tasks. *)
LEMMA AllMakesPrepared ==
  ASSUME IInv, Bounded, AllTasks
  PROVE  /\ PreparedBut(theirs \cap (Maps \union OnTheScreen \union {"typeScreen"}))
         /\ AllLeft => PreparedBut(theirs \cap Maps)
<1>1. \A t : Has(Tasks, t) => Reached(t)
  <2>1. DOMAIN Tasks = 1..Len(Tasks)
    BY Order, LenProperties
  <2>. QED BY <2>1 DEF Has, AllTasks
<1>2. \A k \in Kinds : made[k] # "absent"
  <2>1. ASSUME NEW k \in Kinds \ {Structured} PROVE made[k] # "absent"
    <3>1. Reached(Create(k))
      BY <1>1, AllIsTasked
    <3>. QED BY <3>1 DEF Reached, Create
  <2>2. made[Structured] # "absent"
    BY <1>1, AllIsTasked DEF Reached
  <2>. QED BY <2>1, <2>2
<1>3. {"typeScheme", "workflowScheme", "fieldScheme"} \subseteq assigned
  <2>1. Reached(Check("typeScheme")) /\ Reached(Check("workflowScheme"))
        /\ Reached(Assign("fieldScheme"))
    BY <1>1, AllIsTasked
  <2>. QED BY <2>1 DEF Reached, Check
<1>4. /\ "typeScreen" \in assigned \union theirs
      /\ Maps \union OnTheScreen \subseteq holds \union theirs
  BY <1>3 DEF IInv, Grounded, FieldsReady, ScreensShow
<1>5. \A c \in Schemes : c \in assigned \/ c = "typeScreen"
  BY <1>3 DEF Schemes
<1>6. \A f \in Facts : f \in holds \/ f \in Maps \union OnTheScreen
  <2>1. "items" \in holds /\ "schemeMap" \in holds /\ "workflowOk" \in holds
    <3>1. {"typeScheme", "workflowScheme"} \subseteq Kinds \ {Structured}
      BY DEF Kinds, Schemes, Structured
    <3>2. Reached(Create("typeScheme")) /\ Reached(Create("workflowScheme"))
          /\ Reached(Check("workflowScheme"))
      BY <1>1, <3>1, AllIsTasked
    <3>. QED BY <3>2 DEF Reached
  <2>2. ASSUME NEW f \in {"default", "settings", "fieldMap"} PROVE f \in holds \/ f \in OnTheScreen
    <3>1. Reached(Fix(f))
      BY <1>1, <2>2, AllIsTasked
    <3>. QED BY <3>1 DEF Reached, Fix
  <2>. QED BY <2>1, <2>2 DEF Facts
<1>7. PreparedBut(theirs \cap (Maps \union OnTheScreen \union {"typeScreen"}))
  <2>1. \A f \in Facts : f \in holds \union (theirs \cap (Maps \union OnTheScreen \union {"typeScreen"}))
    BY <1>4, <1>6
  <2>2. \A c \in Schemes : c \in assigned \union (theirs \cap (Maps \union OnTheScreen \union {"typeScreen"}))
    BY <1>4, <1>5
  <2>. QED BY <1>2, <2>1, <2>2 DEF PreparedBut
<1>8. ASSUME AllLeft PROVE PreparedBut(theirs \cap Maps)
  <2>1. \A t : Has(Tasks, t) => Left(t)
    <3>1. DOMAIN Tasks = 1..Len(Tasks)
      BY Order, LenProperties
    <3>. QED BY <1>8, <3>1 DEF Has, AllLeft
  <2>2. /\ Has(Tasks, Assign("typeScreen"))
        /\ \A f \in OnTheScreen : Has(Tasks, Fix(f))
    BY AllIsTasked
  <2>3. "typeScreen" \in assigned
    BY <2>1, <2>2 DEF Left
  <2>4. ASSUME NEW f \in OnTheScreen PROVE f \in holds
    <3>1. Left(Fix(f))
      BY <2>1, <2>2
    <3>2. Fix(f).op = "fix" /\ Fix(f).on = f
      BY DEF Fix
    <3>. QED BY <3>1, <3>2 DEF Left
  <2>5. \A f \in Facts : f \in holds \union (theirs \cap Maps)
    BY <1>4, <1>6, <2>4
  <2>6. \A c \in Schemes : c \in assigned
    BY <1>5, <2>3
  <2>. QED BY <1>2, <2>5, <2>6 DEF PreparedBut
<1>. QED BY <1>7, <1>8

LEMMA ReachedStays ==
  ASSUME Grows, NEW t, Reached(t)
  PROVE  Reached(t)'
<1>1. Structured \in Kinds
  BY DEF Kinds
<1>. QED BY <1>1 DEF Grows, Stays, Reached

(* A request that Jira carries out adds to what is there, and is then done. *)
LEMMA CarriedReached ==
  ASSUME Shape, Bounded, NEW t \in Task, Effect(t)
  PROVE  /\ Grows /\ Bounded'
         /\ \A k \in Kinds : AsNew(k) => AsNew(k)'
         /\ (/\ t.op \in {"create", "fix", "assign"}
             /\ t.op = "create" /\ t.on \in Kinds => AsNew(t.on))
            => Reached(t)'
<1>1. Grows
  BY Carried
<1>2. holds \subseteq holds' /\ assigned \subseteq assigned'
  BY <1>1 DEF Grows
<1>3. \A k : Content(k) \subseteq Facts
  <2>1. \A k \in DOMAIN MapOf : MapOf[k] \in Facts
    BY Apart
  <2>. QED BY <2>1 DEF Content, Facts
<1>4. Bounded'
  <2>1. theirs' \subseteq theirs
    BY DEF Effect
  <2>2. holds' \subseteq Facts /\ assigned' \subseteq Schemes
    BY <1>3 DEF Effect, Bounded, Task
  <2>. QED BY <2>1, <2>2 DEF Bounded
<1>5. made \in [Kinds -> {"absent", "ours", "found", "ambiguous"}]
  BY DEF Shape
<1>6. ASSUME NEW k \in Kinds, AsNew(k) PROVE AsNew(k)'
  <2>1. CASE Content(k) \subseteq holds
    BY <1>2, <2>1 DEF AsNew
  <2>2. CASE made[k] = "absent" /\ t.op = "create" /\ t.on = k
    <3>1. holds' = holds \union Content(k)
      BY <2>2 DEF Effect
    <3>. QED BY <3>1 DEF AsNew
  <2>3. CASE made[k] = "absent" /\ ~(t.op = "create" /\ t.on = k)
    <3>1. made'[k] = made[k]
      BY <1>5, <2>3 DEF Effect
    <3>. QED BY <2>3, <3>1 DEF AsNew
  <2>. QED BY <1>6, <2>1, <2>2, <2>3 DEF AsNew
<1>7. ASSUME t.op \in {"create", "fix", "assign"},
             t.op = "create" /\ t.on \in Kinds => AsNew(t.on)
      PROVE  Reached(t)'
  <2>1. t.op = "create" /\ t.on \in Kinds => made'[t.on] # "absent" /\ Content(t.on) \subseteq holds'
    <3>1. SUFFICES ASSUME t.op = "create", t.on \in Kinds
                   PROVE  made'[t.on] # "absent" /\ Content(t.on) \subseteq holds'
      OBVIOUS
    <3>2. made'[t.on] # "absent"
      BY <1>5, <3>1 DEF Effect
    <3>. QED BY <1>6, <1>7, <3>1, <3>2 DEF AsNew
  <2>2. t.op = "fix" => t.on \in holds'
    BY DEF Effect
  <2>3. t.op = "assign" => t.on \in assigned'
    BY DEF Effect
  <2>4. Find(Structured).op = "find" /\ \A c : Check(c).op = "check"
    BY DEF Find, Check
  <2>5. t = Create("typeScheme") => "items" \in holds'
    <3>1. Create("typeScheme").op = "create" /\ Create("typeScheme").on = "typeScheme"
          /\ "typeScheme" \in Kinds
      BY DEF Create, Kinds, Schemes
    <3>2. "items" \in Content("typeScheme")
      BY Apart DEF Content
    <3>. QED BY <2>1, <3>1, <3>2
  <2>6. t = Create("workflowScheme") => "schemeMap" \in holds'
    <3>1. Create("workflowScheme").op = "create" /\ Create("workflowScheme").on = "workflowScheme"
          /\ "workflowScheme" \in Kinds
      BY DEF Create, Kinds, Schemes
    <3>2. "schemeMap" \in Content("workflowScheme")
      BY Apart DEF Content
    <3>. QED BY <2>1, <3>1, <3>2
  <2>7. t = Assign("fieldScheme") => "fieldScheme" \in assigned'
    BY <2>3 DEF Assign
  <2>. QED BY <1>7, <2>1, <2>2, <2>3, <2>4, <2>5, <2>6, <2>7 DEF Reached
<1>. QED BY <1>1, <1>4, <1>6, <1>7

(* Nor does a run pass a task that it need not send and that is not done.  *)
LEMMA SkippedReached ==
  ASSUME IInv, JInv, at # 0, ~Refused(Tasks[at]),
         Needed(Tasks[at]) => ~apply /\ OnScreen(Tasks[at])
  PROVE  Reached(Tasks[at])
<1>1. PICK t : t = Tasks[at]
  OBVIOUS
<1>2. t \in Task /\ at \in DOMAIN Tasks
  BY <1>1, AtTask DEF IInv
<1>3. ~Refused(t) /\ (Needed(t) => OnScreen(t))
  BY <1>1
<1>4. made \in [Kinds -> {"absent", "ours", "found", "ambiguous"}]
  BY DEF IInv, Shape
<1>5. t.op = "create" => made[t.on] # "absent"
  BY <1>3 DEF Needed, OnScreen, Assign
<1>6. t = Find(Structured) => made[Structured] # "absent"
  BY <1>3 DEF Refused
<1>7. t.op = "fix" => t.on \in holds \/ t.on \in OnTheScreen
  BY <1>3 DEF Needed, OnScreen, OnTheScreen, Assign
<1>8. t.op = "check" => t.on \in assigned
  BY <1>3 DEF Refused
<1>9. ASSUME NEW k \in {"typeScheme", "workflowScheme"}, t = Create(k) PROVE made[k] = "ours"
  <2>1. t.op = "create" /\ t.on = k
    BY <1>9 DEF Create
  <2>2. Named(k)
    BY <1>3, <2>1 DEF Refused
  <2>3. made[k] # "found" /\ made[k] # "ambiguous"
    BY <1>9, <2>2 DEF Named, Marked
  <2>4. k \in Kinds
    BY <1>9 DEF Kinds, Schemes
  <2>. QED BY <1>4, <1>5, <2>1, <2>3, <2>4
<1>10. t = Create("typeScheme") => "items" \in holds
  BY <1>3, <1>9 DEF Refused, TypeSchemeRefused
<1>11. t = Create("workflowScheme") => "schemeMap" \in holds
  BY <1>3, <1>9 DEF Refused, WorkflowSchemeRefused
<1>12. t = Check("workflowScheme") => "workflowOk" \in holds
  BY <1>3 DEF Refused, WorkflowVerified
<1>13. t = Assign("fieldScheme") => "fieldScheme" \in assigned
  <2>1. SUFFICES ASSUME t = Assign("fieldScheme") PROVE "fieldScheme" \in assigned
    OBVIOUS
  <2>2. t.op = "assign" /\ t.on = "fieldScheme"
    BY <2>1 DEF Assign
  <2>3. ~OnScreen(t)
    BY <2>2 DEF OnScreen, Assign
  <2>4. "fieldScheme" \notin todo
    BY <1>3, <2>2, <2>3 DEF Needed
  <2>5. \E j \in 1..at - 1 : Tasks[j] = Create("fieldScheme")
    BY <1>1, <1>2, <2>1, AllIsTasked DEF Before
  <2>6. Planned
    BY <2>5 DEF JInv, AllReached
  <2>. QED BY <2>4, <2>6 DEF Planned
<1>14. Reached(t)
  BY <1>5, <1>6, <1>7, <1>8, <1>10, <1>11, <1>12, <1>13 DEF Reached
<1>. QED BY <1>1, <1>14

(* The run ends. *)
LEMMA EndsQuietly ==
  ASSUME JInv, NEW how, End(how), Bounded'
  PROVE  JInv'
<1>1. at' = 0
  BY DEF End
<1>. QED BY <1>1, Zenon DEF JInv, Silent, AllReached, Awaited

LEMMA GoesOnReached ==
  ASSUME IInv, JInv, at # 0, NEW t \in Task, t = Tasks[at], GoOn(t), Grows, Bounded', Reached(t)',
         apply => Left(t)'
  PROVE  /\ JInv'
         /\ said' \in {"ready", "complete"} => AllTasks'
         /\ said' = "ready" => AllLeft'
<1>1. at \in 1..Len(Tasks) /\ Len(Tasks) \in Nat
  BY AtTask DEF IInv
<1>2. ASSUME NEW j \in 1..at - 1 PROVE Reached(Tasks[j])'
  BY <1>2, ReachedStays DEF JInv, AllReached
<1>3. \A j \in 1..at : Reached(Tasks[j])'
  <2>1. \A j \in 1..at : j \in 1..at - 1 \/ j = at
    BY <1>1
  <2>. QED BY <1>2, <2>1
<1>4. CASE at < Len(Tasks)
  <2>1. at' = at + 1 /\ doing' = FALSE /\ said' = said /\ todo' = todo \union Decided(t)
    BY <1>4 DEF GoOn
  <2>2. 1..at' - 1 = 1..at
    BY <1>1, <2>1
  <2>3. ASSUME NEW j \in 1..at, Tasks[j] = Create("fieldScheme") PROVE Planned'
    <3>1. CASE j = at
      <4>1. "fieldScheme" \in assigned \/ Decided(t) = {"fieldScheme"}
        BY <2>3, <3>1 DEF Decided, Create
      <4>. QED BY <2>1, <4>1 DEF Planned, Grows
    <3>2. CASE j \in 1..at - 1
      <4>1. Planned
        BY <2>3, <3>2 DEF JInv, AllReached
      <4>. QED BY <2>1, <4>1 DEF Planned, Grows
    <3>. QED BY <1>1, <2>3, <3>1, <3>2
  <2>4. AllReached'
    BY <1>3, <2>2, <2>3 DEF AllReached
  <2>5. Silent' /\ said' \notin {"ready", "complete"}
    BY <2>1 DEF JInv, Silent
  <2>6. Awaited'
    BY <2>1 DEF Awaited
  <2>. QED BY <2>4, <2>5, <2>6 DEF JInv
<1>5. CASE ~(at < Len(Tasks))
  <2>1. PICK how : End(how)
    BY <1>5 DEF GoOn
  <2>2. JInv'
    BY <2>1, EndsQuietly
  <2>3. at = Len(Tasks)
    BY <1>1, <1>5
  <2>4. said' = "ready" => apply
    BY <1>5 DEF GoOn, End
  <2>5. apply => \A j \in 1..at : Left(Tasks[j])'
    <3>1. SUFFICES ASSUME apply, NEW j \in 1..at PROVE Left(Tasks[j])'
      OBVIOUS
    <3>2. CASE j = at
      BY <3>1, <3>2
    <3>3. CASE j \in 1..at - 1
      BY <3>1, <3>3, KeepsWhatIsLeft DEF IInv, Passed
    <3>. QED BY <1>1, <3>2, <3>3
  <2>. QED BY <1>3, <2>2, <2>3, <2>4, <2>5 DEF AllTasks, AllLeft
<1>. QED BY <1>4, <1>5

(* Jira grows while the run stands where it is. *)
LEMMA StandsReached ==
  ASSUME JInv, UNCHANGED <<run, said>>, at # 0 => Grows /\ \A k \in Kinds : AsNew(k) => AsNew(k)',
         Bounded'
  PROVE  JInv'
<1>1. at' = at /\ doing' = doing /\ todo' = todo /\ said' = said
  BY DEF run
<1>2. Silent'
  BY <1>1 DEF JInv, Silent
<1>3. AllReached'
  <2>1. SUFFICES ASSUME at # 0, NEW j \in 1..at - 1
                 PROVE  Reached(Tasks[j])' /\ (Tasks[j] = Create("fieldScheme") => Planned')
    BY <1>1 DEF AllReached
  <2>2. Reached(Tasks[j])'
    BY <2>1, ReachedStays DEF JInv, AllReached
  <2>3. Planned => Planned'
    BY <1>1, <2>1 DEF Planned, Grows
  <2>. QED BY <2>1, <2>2, <2>3 DEF JInv, AllReached
<1>4. Awaited'
  <2>1. SUFFICES ASSUME at # 0, doing, NEW t \in Task, t = Tasks[at]
                 PROVE  /\ t.op \in {"create", "fix", "assign"}
                        /\ t.op = "create" /\ t.on \in Kinds => AsNew(t.on)'
    BY <1>1 DEF Awaited
  <2>. QED BY <2>1 DEF JInv, Awaited
<1>. QED BY <1>2, <1>3, <1>4 DEF JInv

LEMMA SameReached ==
  ASSUME JInv, UNCHANGED jira
  PROVE  Grows /\ Bounded' /\ \A k \in Kinds : AsNew(k) => AsNew(k)'
<1>1. made' = made /\ holds' = holds /\ assigned' = assigned /\ theirs' = theirs
  BY DEF jira
<1>. QED BY <1>1 DEF JInv, Grows, Stays, Bounded, AsNew

(* A step keeps JInv, and says that the Space is ready only after all tasks. *)
SaysTrue == at # 0 => /\ said' \in {"ready", "complete"} => AllTasks'
                      /\ said' = "ready" => AllLeft'

LEMMA LookReached == IInv /\ JInv /\ Look => JInv' /\ SaysTrue
<1>1. SUFFICES ASSUME IInv, JInv, Look PROVE JInv' /\ SaysTrue
  OBVIOUS
<1>2. PICK t : t = Tasks[at]
  OBVIOUS
<1>3. at # 0 /\ UNCHANGED jira /\ t \in Task
  BY <1>1, <1>2, AtTask DEF Look, IInv
<1>4. Grows /\ Bounded' /\ \A k \in Kinds : AsNew(k) => AsNew(k)'
  BY <1>1, <1>3, SameReached
<1>5. CASE End("refused") \/ End("planned")
  <2>1. said' \notin {"ready", "complete"}
    BY <1>5 DEF End
  <2>. QED BY <1>1, <1>4, <1>5, <2>1, EndsQuietly DEF SaysTrue
<1>6. CASE Needed(t) /\ apply /\ doing' = TRUE /\ UNCHANGED <<apply, at, todo, said>>
  <2>1. Silent' /\ SaysTrue
    BY <1>1, <1>6 DEF JInv, Silent, SaysTrue
  <2>2. AllReached'
    <3>1. SUFFICES ASSUME NEW j \in 1..at - 1
                   PROVE  Reached(Tasks[j])' /\ (Tasks[j] = Create("fieldScheme") => Planned')
      BY <1>6 DEF AllReached
    <3>2. Reached(Tasks[j])'
      BY <1>1, <1>3, <1>4, <3>1, ReachedStays DEF JInv, AllReached
    <3>3. Planned => Planned'
      BY <1>4, <1>6 DEF Planned, Grows
    <3>. QED BY <1>1, <1>3, <3>1, <3>2, <3>3 DEF JInv, AllReached
  <2>3. /\ t.op \in {"create", "fix", "assign"}
        /\ t.op = "create" => made[t.on] = "absent"
    BY <1>3, <1>6 DEF Needed, Task
  <2>4. t.op = "create" /\ t.on \in Kinds => AsNew(t.on)'
    BY <1>4, <2>3 DEF AsNew
  <2>5. Awaited'
    BY <1>2, <1>6, <2>3, <2>4 DEF Awaited
  <2>. QED BY <1>4, <2>1, <2>2, <2>5 DEF JInv
<1>7. CASE ~Refused(t) /\ (Needed(t) => ~apply /\ OnScreen(t)) /\ GoOn(t)
  <2>1. Reached(t)
    BY <1>1, <1>2, <1>3, <1>7, SkippedReached
  <2>2. Reached(t)'
    BY <1>4, <2>1, ReachedStays
  <2>3. apply => Left(t)
    BY <1>1, <1>2, <1>3, <1>7, NothingNeeded
  <2>4. apply => Left(t)'
    BY <1>4, <2>3, KeepsWhatIsLeft
  <2>. QED BY <1>1, <1>2, <1>3, <1>4, <1>7, <2>2, <2>4, GoesOnReached DEF SaysTrue
<1>. QED BY <1>1, <1>2, <1>5, <1>6, <1>7 DEF Look

LEMMA SendReached == IInv /\ JInv /\ Send => JInv' /\ SaysTrue
<1>1. SUFFICES ASSUME IInv, JInv, Send PROVE JInv' /\ SaysTrue
  OBVIOUS
<1>2. PICK t : t = Tasks[at]
  OBVIOUS
<1>3. at # 0 /\ doing /\ t \in Task
  BY <1>1, <1>2, AtTask DEF Send, IInv
<1>4. CASE Effect(t) /\ GoOn(t)
  <2>1. /\ t.op \in {"create", "fix", "assign"}
        /\ t.op = "create" /\ t.on \in Kinds => AsNew(t.on)
    BY <1>1, <1>2, <1>3 DEF JInv, Awaited
  <2>2. Grows /\ Bounded' /\ Reached(t)' /\ Left(t)'
    BY <1>1, <1>3, <1>4, <2>1, Carried, CarriedReached DEF IInv, JInv
  <2>. QED BY <1>1, <1>2, <1>3, <1>4, <2>2, GoesOnReached DEF SaysTrue
<1>5. CASE UNCHANGED jira /\ End("refused")
  <2>1. said' \notin {"ready", "complete"}
    BY <1>5 DEF End
  <2>. QED BY <1>1, <1>5, <2>1, SameReached, EndsQuietly DEF SaysTrue
<1>. QED BY <1>1, <1>2, <1>4, <1>5 DEF Send

LEMMA LoseReached == IInv /\ JInv /\ (Lose \/ Kill) => JInv' /\ SaysTrue
<1>1. SUFFICES ASSUME IInv, JInv, Lose \/ Kill PROVE JInv' /\ SaysTrue
  OBVIOUS
<1>2. at # 0 /\ End("stopped") /\ Tasks[at] \in Task
  BY <1>1, AtTask DEF Lose, Kill, IInv
<1>3. SaysTrue
  BY <1>2 DEF End, SaysTrue
<1>4. Bounded'
  <2>1. CASE Effect(Tasks[at])
    BY <1>1, <1>2, <2>1, CarriedReached DEF IInv, JInv
  <2>2. CASE UNCHANGED jira
    BY <1>1, <2>2, SameReached
  <2>3. Effect(Tasks[at]) \/ UNCHANGED jira
    BY <1>1 DEF Lose, Kill, jira
  <2>. QED BY <2>1, <2>2, <2>3
<1>. QED BY <1>1, <1>2, <1>3, <1>4, EndsQuietly

(* What others do while a run is under way only adds. *)
LEMMA OthersReached ==
  IInv /\ JInv /\ ((\E t \in flying : Land(t)) \/ People) => JInv' /\ SaysTrue
<1>1. ASSUME IInv, JInv, NEW t \in flying, Land(t) PROVE JInv' /\ SaysTrue
  <2>1. UNCHANGED <<run, said>>
    BY <1>1 DEF Land
  <2>2. t \in Task
    BY <1>1 DEF IInv, Grounded
  <2>3. Grows /\ Bounded' /\ \A k \in Kinds : AsNew(k) => AsNew(k)'
    <3>1. CASE Effect(t)
      BY <1>1, <2>2, <3>1, CarriedReached DEF IInv, JInv
    <3>2. CASE UNCHANGED jira
      BY <1>1, <3>2, SameReached
    <3>. QED BY <1>1, <3>1, <3>2 DEF Land
  <2>4. SaysTrue
    BY <1>1, <2>1 DEF JInv, Silent, SaysTrue
  <2>. QED BY <1>1, <2>1, <2>3, <2>4, StandsReached
<1>2. ASSUME IInv, JInv, People PROVE JInv' /\ SaysTrue
  <2>1. UNCHANGED <<run, said>>
    BY <1>2, WhatPeopleDo DEF IInv
  <2>2. Stays /\ (at # 0 => made' = made /\ holds' = holds /\ assigned' = assigned)
    BY <1>2, WhatPeopleDo DEF IInv
  <2>3. at # 0 => Grows /\ \A k \in Kinds : AsNew(k) => AsNew(k)'
    BY <2>2 DEF Grows, AsNew
  <2>4. holds' \subseteq holds \union Maps /\ assigned' \subseteq assigned
        /\ theirs' \subseteq theirs \union Facts \union Schemes
    BY <1>2, WhatPeopleDo DEF IInv
  <2>5. Bounded'
    BY <1>2, <2>4, Apart DEF JInv, Bounded
  <2>6. SaysTrue
    BY <1>2, <2>1 DEF JInv, Silent, SaysTrue
  <2>. QED BY <1>2, <2>1, <2>3, <2>5, <2>6, StandsReached
<1>. QED BY <1>1, <1>2

LEMMA StepReached == IInv /\ JInv /\ [Next]_vars => JInv' /\ SaysTrue
<1>1. SUFFICES ASSUME IInv, JInv, [Next]_vars PROVE JInv' /\ SaysTrue
  OBVIOUS
<1>2. CASE UNCHANGED vars
  <2>1. UNCHANGED jira /\ UNCHANGED <<run, said>>
    BY <1>2 DEF vars
  <2>2. SaysTrue
    BY <1>1, <2>1 DEF JInv, Silent, SaysTrue
  <2>. QED BY <1>1, <2>1, <2>2, SameReached, StandsReached
<1>3. ASSUME NEW mode \in BOOLEAN, Start(mode) PROVE JInv' /\ SaysTrue
  <2>1. at = 0 /\ at' = 1 /\ doing' = FALSE /\ said' = "nothing" /\ UNCHANGED jira
    BY <1>3 DEF Start
  <2>2. Bounded'
    BY <1>1, <2>1, SameReached
  <2>. QED BY <2>1, <2>2 DEF JInv, Silent, AllReached, Awaited, SaysTrue
<1>. QED BY <1>1, <1>2, <1>3, LookReached, SendReached, LoseReached, OthersReached DEF Next

LEMMA BeginReached == Init => JInv
<1>1. SUFFICES ASSUME Init PROVE JInv
  OBVIOUS
<1>2. Bounded
  BY <1>1, Apart DEF Init, Bounded
<1>. QED BY <1>1, <1>2 DEF Init, JInv, Silent, AllReached, Awaited

(* prepare_jira says that the Space is ready only when all of it is there,  *)
(* but for screen schemes that people made or changed, and a preview that   *)
(* nothing is missing, but for what people undid on the screens, which it   *)
(* does not look at: whatever earlier runs left half done, what lands late  *)
(* and what drifted.                                                       *)
THEOREM SaysReadyTruly == Spec => ReadyMeansPrepared
<1> DEFINE Most == PreparedBut(theirs \cap (Maps \union OnTheScreen \union {"typeScreen"}))
           All == PreparedBut(theirs \cap Maps)
<1>1. IInv /\ Bounded /\ AllTasks => Most /\ (AllLeft => All)
  BY AllMakesPrepared
<1>2. (IInv /\ Bounded /\ AllTasks => Most /\ (AllLeft => All))'
  BY <1>1, PTL
<1>3. IInv /\ IInv' /\ JInv /\ [Next]_vars =>
        JInv' /\ [at # 0 => /\ said' = "ready" => All'
                            /\ said' = "complete" => Most']_vars
  <2>1. SUFFICES ASSUME IInv, IInv', JInv, [Next]_vars
                 PROVE  JInv' /\ (at # 0 => /\ said' = "ready" => All'
                                            /\ said' = "complete" => Most')
    BY Zenon
  <2>2. JInv' /\ SaysTrue
    BY <2>1, StepReached
  <2> HIDE DEF Most, All
  <2>. QED BY <1>2, <2>1, <2>2 DEF JInv, SaysTrue
<1>. QED BY <1>3, Invariant, BeginReached, PTL DEF Spec, ReadyMeansPrepared

-----------------------------------------------------------------------------
(* A run touches a scheme only after it has looked whether it is its own.  *)

BeforeIn(seq, t, u) == \A i \in DOMAIN seq : seq[i] = u => \E j \in 1..i - 1 : seq[j] = t

LEMMA BeforeParts ==
  ASSUME NEW s \in Seq(Task), NEW v \in Seq(Task), NEW t, NEW u
  PROVE  /\ BeforeIn(s, t, u) /\ (Has(s, t) \/ Without(v, {u})) => BeforeIn(s \o v, t, u)
         /\ Without(s, {u}) /\ BeforeIn(v, t, u) => BeforeIn(s \o v, t, u)
<1>1. /\ Len(s) \in Nat /\ Len(v) \in Nat /\ DOMAIN s = 1..Len(s) /\ DOMAIN v = 1..Len(v)
      /\ DOMAIN (s \o v) = 1..Len(s) + Len(v)
      /\ \A i \in 1..Len(s) : (s \o v)[i] = s[i]
      /\ \A i \in 1..Len(v) : (s \o v)[Len(s) + i] = v[i]
  BY Parts, LenProperties
<1>2. ASSUME NEW i \in DOMAIN (s \o v)
      PROVE  i \in 1..Len(s) \/ \E k \in 1..Len(v) : i = Len(s) + k
  <2>1. i \in 1..Len(s) \/ (i - Len(s) \in 1..Len(v) /\ i = Len(s) + (i - Len(s)))
    BY <1>1
  <2>. QED BY <2>1
<1>3. ASSUME BeforeIn(s, t, u), NEW i \in 1..Len(s), (s \o v)[i] = u
      PROVE  \E j \in 1..i - 1 : (s \o v)[j] = t
  <2>1. PICK j \in 1..i - 1 : s[j] = t
    BY <1>1, <1>3 DEF BeforeIn
  <2>2. j \in 1..Len(s)
    BY <1>1
  <2>. QED BY <1>1, <2>1, <2>2
<1>4. ASSUME Has(s, t), NEW k \in 1..Len(v), NEW i, i = Len(s) + k
      PROVE  \E j \in 1..i - 1 : (s \o v)[j] = t
  <2>1. PICK j \in 1..Len(s) : s[j] = t
    BY <1>1, <1>4 DEF Has
  <2>2. j \in 1..i - 1
    BY <1>1, <1>4
  <2>. QED BY <1>1, <2>1, <2>2
<1>5. ASSUME BeforeIn(v, t, u), NEW k \in 1..Len(v), NEW i, i = Len(s) + k, (s \o v)[i] = u
      PROVE  \E j \in 1..i - 1 : (s \o v)[j] = t
  <2>1. PICK j \in 1..k - 1 : v[j] = t
    BY <1>1, <1>5 DEF BeforeIn
  <2>2. j \in 1..Len(v) /\ Len(s) + j \in 1..i - 1
    BY <1>1, <1>5
  <2>. QED BY <1>1, <2>1, <2>2
<1>6. ASSUME Without(v, {u}), NEW k \in 1..Len(v) PROVE (s \o v)[Len(s) + k] # u
  BY <1>1, <1>6 DEF Without
<1>7. ASSUME Without(s, {u}), NEW i \in 1..Len(s) PROVE (s \o v)[i] # u
  BY <1>1, <1>7 DEF Without
<1>8. ASSUME BeforeIn(s, t, u), Has(s, t) \/ Without(v, {u}) PROVE BeforeIn(s \o v, t, u)
  <2>1. SUFFICES ASSUME NEW i \in DOMAIN (s \o v), (s \o v)[i] = u
                 PROVE  \E j \in 1..i - 1 : (s \o v)[j] = t
    BY DEF BeforeIn
  <2>. QED BY <1>2, <1>3, <1>4, <1>6, <1>8, <2>1
<1>9. ASSUME Without(s, {u}), BeforeIn(v, t, u) PROVE BeforeIn(s \o v, t, u)
  <2>1. SUFFICES ASSUME NEW i \in DOMAIN (s \o v), (s \o v)[i] = u
                 PROVE  \E j \in 1..i - 1 : (s \o v)[j] = t
    BY DEF BeforeIn
  <2>. QED BY <1>2, <1>5, <1>7, <1>9, <2>1
<1>. QED BY <1>8, <1>9

(* What a run changes of a scheme comes after it has looked at the scheme. *)
LEMMA LooksFirst ==
  /\ \A f \in {"items", "default"} : Before(Create("typeScheme"), Fix(f))
  /\ Before(Create("typeScheme"), Assign("typeScheme"))
  /\ \A k \in {"workflow", "workflowScheme"} : Before(Create(k), Fix("schemeMap"))
  /\ Before(Create("workflow"), Create("workflowScheme"))
  /\ \A k \in {"config", "fieldScheme"} : \A f \in {"settings", "fieldMap"} :
       Before(Create(k), Fix(f))
  /\ Before(Fix("settings"), Fix("fieldMap"))
  /\ \A t \in {Create("config"), Create("fieldScheme"), Fix("settings")} :
       Before(t, Assign("fieldScheme"))
<1>1. /\ TypeTasks \in Seq(Task) /\ WorkflowTasks \in Seq(Task) /\ ConfigTasks \in Seq(Task)
      /\ <<Find(Structured)>> \in Seq(Task) /\ LastTasks \in Seq(Task)
  <2>1. TypeTasks \in Seq(Task)
    BY OneTask DEF TypeTasks
  <2>2. WorkflowTasks \in Seq(Task)
    BY OneTask DEF WorkflowTasks
  <2>3. ConfigTasks \in Seq(Task)
    BY OneTask DEF ConfigTasks
  <2>4. <<Find(Structured)>> \in Seq(Task)
    BY OneTask
  <2>5. LastTasks \in Seq(Task)
    BY OneTask DEF LastTasks
  <2>. QED BY <2>1, <2>2, <2>3, <2>4, <2>5
<1> DEFINE Two == TypeTasks \o WorkflowTasks
<1> DEFINE Three == Two \o FieldTasks
<1>2. FieldTasks \in Seq(Task) /\ \A f : Without(FieldTasks, {Fix(f)})
  <2>1. \A f : Without(<<Find(Structured)>>, {Fix(f)})
    BY DEF Without, Find, Fix
  <2>2. \A f : Without(Each(Create, Fields), {Fix(f)})
    <3>1. \A i \in DOMAIN Each(Create, Fields) : Each(Create, Fields)[i].op = "create"
      BY DEF Each, Create
    <3>2. \A f : Fix(f).op = "fix"
      BY DEF Fix
    <3>. QED BY <3>1, <3>2 DEF Without
  <2>3. FieldTasks \in Seq(Task)
    BY <1>1, EachField, Parts DEF FieldTasks
  <2>. QED BY <1>1, <2>1, <2>2, <2>3, EachField, Parts DEF FieldTasks
<1>3. Two \in Seq(Task) /\ Three \in Seq(Task)
  BY <1>1, <1>2, Parts
<1>4. Early = Three \o ConfigTasks /\ Tasks = Early \o ScreenTasks \o LastTasks
  BY DEF Early, Tasks
<1>5. \A t, u : BeforeIn(Early, t, u) /\ Has(Early, t) => Before(t, u)
  <2>1. ASSUME NEW t, NEW u, BeforeIn(Early, t, u), Has(Early, t) PROVE BeforeIn(Tasks, t, u)
    <3> DEFINE Most == Early \o ScreenTasks
    <3>1. Most \in Seq(Task) /\ BeforeIn(Most, t, u) /\ Has(Most, t)
      BY <2>1, EarlyTasks, ScreenShape, Parts, BeforeParts
    <3>2. Tasks = Most \o LastTasks
      BY <1>4
    <3> HIDE DEF Most
    <3>. QED BY <1>1, <3>1, <3>2, BeforeParts
  <2>. QED BY <2>1 DEF BeforeIn, Before
<1>6. \A t, u : BeforeIn(Three, t, u) /\ Has(Three, t) => BeforeIn(Early, t, u) /\ Has(Early, t)
  BY <1>1, <1>3, <1>4, BeforeParts, Parts
<1>7. \A t, u : BeforeIn(Two, t, u) /\ Has(Two, t) => BeforeIn(Three, t, u) /\ Has(Three, t)
  BY <1>2, <1>3, BeforeParts, Parts
<1>8. DOMAIN TypeTasks = 1..6 /\ TypeTasks[1] = Create("space") /\ TypeTasks[2] = Create("type")
      /\ TypeTasks[3] = Create("typeScheme") /\ TypeTasks[4] = Fix("default")
      /\ TypeTasks[5] = Assign("typeScheme") /\ TypeTasks[6] = Check("typeScheme")
  BY DEF TypeTasks
<1>9. /\ \A k, c : Create(k) # Fix(c) /\ Create(k) # Assign(c) /\ Fix(k) # Assign(c)
                   /\ Fix(k) # Check(c)
      /\ \A k, c : Fix(k) = Fix(c) => k = c
  <2>1. \A k : /\ Create(k).op = "create" /\ Fix(k).op = "fix" /\ Assign(k).op = "assign"
               /\ Check(k).op = "check" /\ Fix(k).on = k
    BY DEF Create, Fix, Assign, Check
  <2>2. ASSUME NEW k, NEW c
        PROVE  /\ Create(k) # Fix(c) /\ Create(k) # Assign(c) /\ Fix(k) # Assign(c)
               /\ Fix(k) # Check(c)
               /\ Fix(k) = Fix(c) => k = c
    BY <2>1
  <2>. QED BY <2>2
<1>10. ASSUME NEW u, (\E f : u = Fix(f)) \/ u = Assign("typeScheme")
       PROVE  Before(Create("typeScheme"), u)
  <2>1. u # Create("space") /\ u # Create("type") /\ u # Create("typeScheme")
    BY <1>9, <1>10
  <2>2. ASSUME NEW i \in 1..6, TypeTasks[i] = u
        PROVE  \E j \in 1..i - 1 : TypeTasks[j] = Create("typeScheme")
    <3>1. i # 1 /\ i # 2 /\ i # 3
      BY <1>8, <2>1, <2>2
    <3>2. 3 \in 1..i - 1
      BY <3>1
    <3>. QED BY <1>8, <3>2
  <2>3. BeforeIn(TypeTasks, Create("typeScheme"), u) /\ Has(TypeTasks, Create("typeScheme"))
    BY <1>8, <2>2 DEF BeforeIn, Has
  <2>4. BeforeIn(Two, Create("typeScheme"), u) /\ Has(Two, Create("typeScheme"))
    BY <1>1, <2>3, BeforeParts, Parts
  <2>. QED BY <1>5, <1>6, <1>7, <2>4
<1>11. ASSUME NEW f, f # "default" PROVE Without(TypeTasks, {Fix(f)}) /\ Without(WorkflowTasks, {Fix(f)})
  <2>1. \A i \in 1..6 : i = 1 \/ i = 2 \/ i = 3 \/ i = 4 \/ i = 5 \/ i = 6
    OBVIOUS
  <2>2. Without(TypeTasks, {Fix(f)})
    BY <1>8, <1>9, <1>11, <2>1 DEF Without
  <2>3. Without(WorkflowTasks, {Fix(f)})
    <3>1. \A i \in DOMAIN WorkflowTasks : \E k : WorkflowTasks[i] = Create(k)
      BY DEF WorkflowTasks
    <3>. QED BY <1>9, <3>1 DEF Without
  <2>. QED BY <2>2, <2>3
<1>16. /\ DOMAIN WorkflowTasks = 1..2 /\ WorkflowTasks[1] = Create("workflow")
       /\ WorkflowTasks[2] = Create("workflowScheme")
       /\ Has(WorkflowTasks, Create("workflow")) /\ Has(WorkflowTasks, Create("workflowScheme"))
  <2>1. /\ DOMAIN WorkflowTasks = 1..2 /\ WorkflowTasks[1] = Create("workflow")
        /\ WorkflowTasks[2] = Create("workflowScheme")
    BY DEF WorkflowTasks
  <2>. QED BY <2>1 DEF Has
<1>12. ASSUME NEW k \in {"workflow", "workflowScheme"} PROVE Before(Create(k), Fix("schemeMap"))
  <2>1. Without(Two, {Fix("schemeMap")}) /\ Has(Two, Create(k))
    BY <1>1, <1>11, <1>16, Parts
  <2>2. BeforeIn(Two, Create(k), Fix("schemeMap"))
    BY <2>1 DEF Without, BeforeIn
  <2>. QED BY <1>5, <1>6, <1>7, <2>1, <2>2
<1>17. Before(Create("workflow"), Create("workflowScheme"))
  <2>1. Without(TypeTasks, {Create("workflowScheme")})
    <3>1. \A i \in 1..6 : i = 1 \/ i = 2 \/ i = 3 \/ i = 4 \/ i = 5 \/ i = 6
      OBVIOUS
    <3>2. \A k \in {"space", "type", "typeScheme"} : Create(k) # Create("workflowScheme")
      BY DEF Create
    <3>3. \A k : Check(k) # Create("workflowScheme")
      BY DEF Check, Create
    <3>. QED BY <1>8, <1>9, <3>1, <3>2, <3>3 DEF Without
  <2>2. Create("workflow") # Create("workflowScheme")
    BY DEF Create
  <2>3. BeforeIn(WorkflowTasks, Create("workflow"), Create("workflowScheme"))
    <3>1. SUFFICES ASSUME NEW i \in 1..2, WorkflowTasks[i] = Create("workflowScheme")
                   PROVE  \E j \in 1..i - 1 : WorkflowTasks[j] = Create("workflow")
      BY <1>16 DEF BeforeIn
    <3>2. i = 2
      BY <1>16, <2>2, <3>1
    <3>3. 1 \in 1..i - 1
      BY <3>2
    <3>. QED BY <1>16, <3>3
  <2>4. BeforeIn(Two, Create("workflow"), Create("workflowScheme")) /\ Has(Two, Create("workflow"))
    BY <1>1, <1>16, <2>1, <2>3, BeforeParts, Parts
  <2>. QED BY <1>5, <1>6, <1>7, <2>4
<1>13. DOMAIN ConfigTasks = 1..4 /\ ConfigTasks[1] = Create("config")
       /\ ConfigTasks[2] = Create("fieldScheme") /\ ConfigTasks[3] = Fix("settings")
       /\ ConfigTasks[4] = Fix("fieldMap")
  BY DEF ConfigTasks
<1> HIDE DEF Two
<1>14. \A f : f # "default" => Without(Three, {Fix(f)})
  <2>1. \A f : f # "default" => Without(Two, {Fix(f)})
    BY <1>1, <1>11, Parts DEF Two
  <2>. QED BY <1>2, <1>3, <2>1, Parts
<1> HIDE DEF Three
<1>15. ASSUME NEW k \in {"config", "fieldScheme"}, NEW f \in {"settings", "fieldMap"}
       PROVE  Before(Create(k), Fix(f))
  <2>1. ASSUME NEW i \in 1..4, ConfigTasks[i] = Fix(f)
        PROVE  \E j \in 1..i - 1 : ConfigTasks[j] = Create(k)
    <3>1. i # 1 /\ i # 2
      BY <1>9, <1>13, <2>1
    <3>2. 1 \in 1..i - 1 /\ 2 \in 1..i - 1
      BY <3>1
    <3>. QED BY <1>13, <3>2
  <2>2. BeforeIn(ConfigTasks, Create(k), Fix(f)) /\ Has(ConfigTasks, Create(k))
    BY <1>13, <2>1 DEF BeforeIn, Has
  <2>3. Without(Three, {Fix(f)})
    BY <1>14
  <2>4. BeforeIn(Early, Create(k), Fix(f)) /\ Has(Early, Create(k))
    BY <1>1, <1>3, <1>4, <2>2, <2>3, BeforeParts, Parts
  <2>. QED BY <1>5, <2>4
<1>18. Before(Fix("settings"), Fix("fieldMap"))
  <2>1. ASSUME NEW i \in 1..4, ConfigTasks[i] = Fix("fieldMap")
        PROVE  \E j \in 1..i - 1 : ConfigTasks[j] = Fix("settings")
    <3>1. i # 1 /\ i # 2 /\ i # 3
      BY <1>9, <1>13, <2>1
    <3>2. 3 \in 1..i - 1
      BY <3>1
    <3>. QED BY <1>13, <3>2
  <2>2. BeforeIn(ConfigTasks, Fix("settings"), Fix("fieldMap")) /\ Has(ConfigTasks, Fix("settings"))
    BY <1>13, <2>1 DEF BeforeIn, Has
  <2>3. Without(Three, {Fix("fieldMap")})
    BY <1>14
  <2>4. /\ BeforeIn(Early, Fix("settings"), Fix("fieldMap"))
        /\ Has(Early, Fix("settings"))
    BY <1>1, <1>3, <1>4, <2>2, <2>3, BeforeParts, Parts
  <2>. QED BY <1>5, <2>4
<1>19. ASSUME NEW t \in {Create("config"), Create("fieldScheme"), Fix("settings")}
       PROVE  Before(t, Assign("fieldScheme"))
  <2>1. Has(ConfigTasks, t)
    BY <1>13 DEF Has
  <2>2. Has(Early, t)
    BY <1>1, <1>3, <1>4, <2>1, Parts
  <2>. QED BY <2>2, Order
<1>. QED BY <1>10, <1>12, <1>15, <1>17, <1>18, <1>19

(* The schemes that a run looks at before it makes anything of them.       *)
Mine == {"typeScheme", "workflowScheme", "fieldScheme"}

(* Past the task that makes it, a scheme, or its part, is the run's own. *)
Own(t) == /\ t.op = "create" /\ t.on \in Mine \union {"workflow", "config"} =>
               /\ made[t.on] # "found"
               /\ t.on \in Mine => t.on \notin shared
          /\ t = Fix("settings") => "config" \notin shared

SharedMade == /\ shared \subseteq Mine \union {"config"}
              /\ \A k \in Mine : k \in shared => made[k] # "absent"

OwnSoFar == at # 0 => \A j \in 1..at - 1 : Own(Tasks[j])

OwnNow == at # 0 /\ doing => \A t \in Task : t = Tasks[at] => Own(t)

OInv == SharedMade /\ OwnSoFar /\ OwnNow

(* Nothing becomes somebody else's while a run is under way. *)
Keeps == /\ shared' = shared
         /\ \A k \in Mine \union {"workflow", "config"} : made'[k] = "found" => made[k] = "found"
         /\ \A k \in Mine : made[k] # "absent" => made'[k] # "absent"

LEMMA OwnStays ==
  ASSUME Keeps
  PROVE  (SharedMade => SharedMade') /\ \A t : Own(t) => Own(t)'
BY DEF Keeps, SharedMade, Own

LEMMA CarriedKeeps ==
  ASSUME Shape, NEW t, Effect(t) \/ UNCHANGED jira
  PROVE  Keeps
<1>1. Mine \union {"workflow", "config"} \subseteq Kinds
  BY DEF Mine, Kinds, Schemes
<1>2. made \in [Kinds -> {"absent", "ours", "found", "ambiguous"}]
  BY DEF Shape
<1>. QED BY <1>1, <1>2 DEF Effect, jira, Keeps

LEMMA GoesOnOwn ==
  ASSUME IInv, OInv, Keeps, at # 0, doing' = FALSE, NEW t, t = Tasks[at],
         at' = 0 \/ (at' = at + 1 /\ Own(t)')
  PROVE  OInv'
<1>1. SharedMade'
  BY OwnStays DEF OInv
<1>2. OwnNow'
  BY DEF OwnNow
<1>3. OwnSoFar'
  <2>1. CASE at' = 0
    BY <2>1 DEF OwnSoFar
  <2>2. CASE at' = at + 1 /\ Own(t)'
    <3>1. \A j \in 1..at' - 1 : j \in 1..at - 1 \/ j = at
      BY <2>2, AtTask DEF IInv
    <3>2. \A j \in 1..at - 1 : Own(Tasks[j])'
      BY OwnStays DEF OInv, OwnSoFar
    <3>3. \A j \in 1..at' - 1 : Own(Tasks[j])'
      BY <2>2, <3>1, <3>2
    <3>. QED BY <3>3 DEF OwnSoFar
  <2>. QED BY <2>1, <2>2
<1>. QED BY <1>1, <1>2, <1>3 DEF OInv

(* What a run finds and passes is its own. *)
LEMMA FoundOwn ==
  ASSUME IInv, OInv, NEW t \in Task, ~Refused(t), Needed(t) => t.op # "create" \/ apply
  PROVE  Own(t)
<1>1. ASSUME t.op = "create", t.on \in Mine \union {"workflow", "config"}
      PROVE  made[t.on] # "found" /\ (t.on \in Mine => t.on \notin shared)
  <2>1. t = Create(t.on) /\ t.on \in Kinds
    BY <1>1 DEF Task, Create, Mine, Kinds, Schemes
  <2>2. made[t.on] # "ambiguous" /\ made[t.on] # "found"
    BY <1>1 DEF Refused, Named, Marked, Mine
  <2>3. made[t.on] = "absent" \/ made[t.on] = "ours"
    BY <2>1, <2>2 DEF IInv, Shape
  <2>4. CASE made[t.on] = "absent"
    BY <2>2, <2>4 DEF OInv, SharedMade
  <2>5. CASE made[t.on] = "ours"
    BY <1>1, <2>1, <2>2, <2>5
       DEF Refused, TypeSchemeRefused, WorkflowSchemeRefused, FieldSchemeRefused, Mine
  <2>. QED BY <2>3, <2>4, <2>5
<1>2. t = Fix("settings") => "config" \notin shared
  BY DEF Refused, SettingsRefused
<1>. QED BY <1>1, <1>2 DEF Own

LEMMA LookOwn == IInv /\ OInv /\ Look => OInv'
<1>1. SUFFICES ASSUME IInv, OInv, Look PROVE OInv'
  OBVIOUS
<1>2. PICK t : t = Tasks[at]
  OBVIOUS
<1>3. at # 0 /\ UNCHANGED jira /\ t \in Task
  BY <1>1, <1>2, AtTask DEF Look, IInv
<1>4. Keeps
  BY <1>1, <1>3, CarriedKeeps DEF IInv
<1>5. CASE \E how : End(how)
  BY <1>1, <1>3, <1>4, <1>5, GoesOnOwn DEF End
<1>6. CASE ~Refused(t) /\ Needed(t) /\ apply /\ doing' = TRUE /\ UNCHANGED <<apply, at, todo, said>>
  <2>1. Own(t)
    BY <1>1, <1>3, <1>6, FoundOwn
  <2>3. SharedMade' /\ Own(t)' /\ \A j \in 1..at - 1 : Own(Tasks[j])'
    BY <1>1, <1>3, <1>4, <2>1, OwnStays DEF OInv, OwnSoFar
  <2>4. OwnSoFar'
    BY <1>6, <2>3 DEF OwnSoFar
  <2>5. OwnNow'
    BY <1>2, <1>6, <2>3 DEF OwnNow
  <2>. QED BY <2>3, <2>4, <2>5 DEF OInv
<1>7. CASE ~Refused(t) /\ (Needed(t) => ~apply /\ OnScreen(t)) /\ GoOn(t)
  <2>1. OnScreen(t) => t.op # "create"
    BY DEF OnScreen, Assign
  <2>2. Own(t)
    BY <1>1, <1>3, <1>7, <2>1, FoundOwn
  <2>3. Own(t)'
    BY <1>4, <2>2, OwnStays
  <2>4. CASE at < Len(Tasks)
    BY <1>1, <1>2, <1>3, <1>4, <1>7, <2>3, <2>4, GoesOnOwn DEF GoOn
  <2>5. CASE ~(at < Len(Tasks))
    BY <1>5, <1>7, <2>5 DEF GoOn
  <2>. QED BY <2>4, <2>5
<1>. QED BY <1>1, <1>2, <1>5, <1>6, <1>7 DEF Look

LEMMA SendOwn == IInv /\ OInv /\ Send => OInv'
<1>1. SUFFICES ASSUME IInv, OInv, Send PROVE OInv'
  OBVIOUS
<1>2. PICK t : t = Tasks[at]
  OBVIOUS
<1>3. at # 0 /\ doing /\ t \in Task
  BY <1>1, <1>2, AtTask DEF Send, IInv
<1>4. Keeps
  BY <1>1, CarriedKeeps DEF Send, IInv
<1>5. Own(t)'
  BY <1>1, <1>2, <1>3, <1>4, OwnStays DEF OInv, OwnNow
<1>6. (\E how : End(how)) \/ (GoOn(t) /\ at < Len(Tasks))
  BY <1>1, <1>2 DEF Send, GoOn
<1>7. doing' = FALSE /\ (at' = 0 \/ at' = at + 1)
  BY <1>6 DEF End, GoOn
<1>. QED BY <1>1, <1>2, <1>3, <1>4, <1>5, <1>7, GoesOnOwn

LEMMA StepOwn == IInv /\ OInv /\ [Next]_vars => OInv'
<1>1. SUFFICES ASSUME IInv, OInv, [Next]_vars PROVE OInv'
  OBVIOUS
<1>2. ASSUME UNCHANGED run, Keeps PROVE OInv'
  <2>1. at' = at /\ doing' = doing
    BY <1>2 DEF run
  <2>2. SharedMade' /\ OwnSoFar'
    BY <1>1, <1>2, <2>1, OwnStays DEF OInv, OwnSoFar
  <2>3. OwnNow'
    <3>1. SUFFICES ASSUME at # 0, doing, NEW t \in Task, t = Tasks[at]
                   PROVE  Own(t)'
      BY <2>1 DEF OwnNow
    <3>2. Own(t)
      BY <1>1, <3>1 DEF OInv, OwnNow
    <3>. QED BY <1>2, <3>2, OwnStays
  <2>. QED BY <2>2, <2>3 DEF OInv
<1>3. CASE UNCHANGED vars
  <2>1. UNCHANGED jira /\ UNCHANGED run
    BY <1>3 DEF vars
  <2>. QED BY <1>1, <1>2, <2>1, CarriedKeeps DEF IInv
<1>4. ASSUME NEW mode \in BOOLEAN, Start(mode) PROVE OInv'
  <2>1. at' = 1 /\ doing' = FALSE /\ UNCHANGED jira
    BY <1>4 DEF Start
  <2>2. SharedMade'
    BY <1>1, <2>1, CarriedKeeps, OwnStays DEF IInv, OInv
  <2>. QED BY <2>1, <2>2 DEF OInv, OwnSoFar, OwnNow
<1>5. CASE Lose \/ Kill
  <2>1. at # 0 /\ at' = 0 /\ doing' = FALSE
    BY <1>5 DEF Lose, Kill, End
  <2>2. Effect(Tasks[at]) \/ UNCHANGED jira
    BY <1>5 DEF Lose, Kill, jira
  <2>. QED BY <1>1, <2>1, <2>2, CarriedKeeps, GoesOnOwn DEF IInv
<1>6. ASSUME NEW t \in flying, Land(t) PROVE OInv'
  BY <1>1, <1>2, <1>6, CarriedKeeps DEF Land, IInv
<1>7. CASE People
  <2>1. CASE at # 0
    <3>1. made' = made /\ shared' = shared /\ UNCHANGED run
      BY <1>1, <1>7, <2>1, WhatPeopleDo DEF IInv
    <3>. QED BY <1>2, <3>1 DEF Keeps
  <2>2. CASE at = 0
    <3>1. UNCHANGED run /\ at' = 0
      BY <1>1, <1>7, <2>2, WhatPeopleDo DEF IInv, run
    <3>2. made' = made \/ made' = [made EXCEPT ![Structured] = "found"]
      BY <1>1, <1>7, WhatPeopleDo DEF IInv
    <3>3. \A k : k \in shared' => k \in shared \/ (made[k] = "ours" /\ k \in Mine \union {"config"})
      BY <1>7 DEF People, AddIssue, InstallForge, Drift, Mend, Share, Unassign, ByHand, Mine
    <3>4. SharedMade'
      <4>1. Mine \subseteq Kinds /\ made \in [Kinds -> {"absent", "ours", "found", "ambiguous"}]
        BY <1>1 DEF Mine, Kinds, Schemes, IInv, Shape
      <4>2. \A k \in Mine : made[k] # "absent" => made'[k] # "absent"
        BY <3>2, <4>1
      <4>. QED BY <1>1, <3>3, <4>2 DEF OInv, SharedMade
    <3>. QED BY <3>1, <3>4 DEF OInv, OwnSoFar, OwnNow
  <2>. QED BY <2>1, <2>2
<1>. QED BY <1>1, <1>3, <1>4, <1>5, <1>6, <1>7, LookOwn, SendOwn DEF Next

LEMMA BeginOwn == Init => OInv
BY DEF Init, OInv, SharedMade, OwnSoFar, OwnNow

(* What a request changes is the run's own. *)
LEMMA ChangesOwn ==
  ASSUME IInv, JInv, OInv, Send, NEW s \in DOMAIN PartsOf,
         NEW k \in PartsOf[s], k \in shared \/ made[k] = "found"
  PROVE  /\ holds' \cap About[s] = holds \cap About[s]
         /\ s \in assigned' => s \in assigned
<1>1. PICK t : t = Tasks[at]
  OBVIOUS
<1>2. at # 0 /\ doing /\ t \in Task /\ at \in DOMAIN Tasks
  BY <1>1, AtTask DEF Send, IInv
<1>3. \/ s = "typeScheme" /\ k = "typeScheme" /\ About[s] = {"items", "default"}
      \/ s = "workflowScheme" /\ k \in {"workflow", "workflowScheme"} /\ About[s] = {"schemeMap"}
      \/ s = "fieldScheme" /\ k \in {"config", "fieldScheme"} /\ About[s] = {"settings", "fieldMap"}
  BY DEF PartsOf, About
<1>4. Own(t) /\ \A u : Before(u, t) => Own(u)
  <2>1. Own(t)
    BY <1>1, <1>2 DEF OInv, OwnNow
  <2>2. ASSUME NEW u, Before(u, t) PROVE Own(u)
    <3>1. \E j \in 1..at - 1 : Tasks[j] = u
      BY <1>1, <1>2, <2>2 DEF Before
    <3>. QED BY <1>2, <3>1 DEF OInv, OwnSoFar
  <2>. QED BY <2>1, <2>2
(* The part that is somebody else's was not passed. *)
<1>5. /\ ~Own(Create(k)) \/ (k = "config" /\ ~Own(Fix("settings")))
      /\ k = "workflow" => ~Own(Create(k))
  <2>1. k \in shared => k \in Mine \union {"config"}
    BY DEF OInv, SharedMade
  <2>2. k \in Mine \union {"workflow", "config"}
    BY <1>3 DEF Mine
  <2>3. Create(k).op = "create" /\ Create(k).on = k
    BY DEF Create
  <2>4. made[k] = "found" => ~Own(Create(k))
    BY <2>2, <2>3 DEF Own
  <2>5. k \in Mine /\ k \in shared => ~Own(Create(k))
    BY <2>3 DEF Own
  <2>6. k = "config" /\ k \in shared => ~Own(Fix("settings"))
    BY DEF Own
  <2>7. "workflow" \notin Mine \union {"config"}
    BY DEF Mine
  <2>. QED BY <2>1, <2>4, <2>5, <2>6, <2>7
<1>6. CASE UNCHANGED jira
  BY <1>6 DEF jira
<1>7. CASE Effect(t) /\ t.op = "create"
  <2>1. assigned' = assigned /\ holds \subseteq holds' /\ holds' \subseteq holds \union Content(t.on)
        /\ t = Create(t.on)
    BY <1>2, <1>7 DEF Effect, Task, Create
  <2>2. t.on # "typeScheme" \/ s # "typeScheme"
    BY <1>3, <1>4, <1>5, <2>1
  <2>3. t.on # "workflowScheme" \/ s # "workflowScheme"
    BY <1>3, <1>4, <1>5, <2>1, LooksFirst
  <2>4. Content(t.on) \cap About[s] = {}
    <3>1. \A c \in DOMAIN MapOf : MapOf[c] \in Maps
      BY Apart
    <3>. QED BY <1>3, <2>2, <2>3, <3>1 DEF Content, Maps
  <2>. QED BY <2>1, <2>4
<1>8. CASE Effect(t) /\ t.op = "fix"
  <2>1. assigned' = assigned /\ holds' = holds \union {t.on} /\ t = Fix(t.on)
    BY <1>2, <1>8 DEF Effect, Task, Fix
  <2>2. ASSUME s = "typeScheme", t.on \in {"items", "default"} PROVE FALSE
    BY <1>3, <1>4, <1>5, <2>1, <2>2, LooksFirst
  <2>3. ASSUME s = "workflowScheme", t.on = "schemeMap" PROVE FALSE
    BY <1>3, <1>4, <1>5, <2>1, <2>3, LooksFirst
  <2>4. ASSUME s = "fieldScheme", t.on \in {"settings", "fieldMap"} PROVE FALSE
    <3>1. Own(Create("config")) /\ Own(Create("fieldScheme"))
      BY <1>4, <2>1, <2>4, LooksFirst
    <3>2. Own(Fix("settings"))
      BY <1>4, <2>1, <2>4, LooksFirst
    <3>. QED BY <1>3, <1>5, <2>4, <3>1, <3>2
  <2>5. t.on \notin About[s]
    BY <1>3, <2>2, <2>3, <2>4
  <2>. QED BY <2>1, <2>5
<1>9. CASE Effect(t) /\ t.op = "assign"
  <2>1. holds' = holds /\ assigned' = assigned \union {t.on} /\ t = Assign(t.on) /\ t.on \in Schemes
    BY <1>2, <1>9 DEF Effect, Task, Assign
  <2>2. ASSUME t.on = s PROVE FALSE
    <3>1. CASE s = "typeScheme"
      BY <1>3, <1>4, <1>5, <2>1, <2>2, <3>1, LooksFirst
    <3>2. CASE s = "workflowScheme"
      BY <1>3, <1>4, <1>5, <2>1, <2>2, <3>2, Order
    <3>3. CASE s = "fieldScheme"
      <4>1. Own(Create("config")) /\ Own(Create("fieldScheme")) /\ Own(Fix("settings"))
        BY <1>4, <2>1, <2>2, <3>3, LooksFirst
      <4>. QED BY <1>3, <1>5, <3>3, <4>1
    <3>. QED BY <1>3, <3>1, <3>2, <3>3
  <2>. QED BY <2>1, <2>2
<1>10. CASE Effect(t) /\ t.op \notin {"create", "fix", "assign"}
  BY <1>10 DEF Effect
<1>11. Effect(t) \/ UNCHANGED jira
  BY <1>1 DEF Send
<1>. QED BY <1>6, <1>7, <1>8, <1>9, <1>10, <1>11

(* While a part of a work type, workflow or field configuration scheme is   *)
(* somebody else's, or used elsewhere too, no run at work changes the       *)
(* scheme or what it is made of, nor has the Space use it.                 *)
THEOREM TouchesOnlyOwn == Spec => OthersUntouched
<1>1. IInv /\ JInv /\ OInv /\ [Next]_vars =>
        [Send => \A s \in DOMAIN PartsOf :
                   (\E k \in PartsOf[s] : k \in shared \/ made[k] = "found") =>
                      /\ holds' \cap About[s] = holds \cap About[s]
                      /\ s \in assigned' => s \in assigned]_vars
  BY ChangesOwn
<1>2. IInv /\ JInv /\ [Next]_vars => JInv'
  BY StepReached
<1>. QED BY <1>1, <1>2, StepOwn, Invariant, BeginReached, BeginOwn, PTL DEF Spec, OthersUntouched

-----------------------------------------------------------------------------
LEMMA StepTypes ==
  ASSUME IInv, IInv', JInv', TypeOK, [Next]_vars
  PROVE  TypeOK'
<1>1. /\ made' \in [Kinds -> {"absent", "ours", "found", "ambiguous"}]
      /\ at' \in 0..Len(Tasks) /\ apply' \in BOOLEAN /\ doing' \in BOOLEAN
  BY DEF IInv, Shape
<1>2. /\ holds' \subseteq Facts /\ assigned' \subseteq Schemes
      /\ theirs' \subseteq Facts \union Schemes
  BY DEF JInv, Bounded
<1>3. at # 0 => Tasks[at] \in {Tasks[i] : i \in DOMAIN Tasks}
  BY AtTask DEF IInv
<1>4. flying' \subseteq {Tasks[i] : i \in DOMAIN Tasks}
  BY <1>3 DEF TypeOK, Next, vars, Start, Look, Send, Lose, Kill, Land, People, AddIssue,
              ByHand, InstallForge, Drift, Mend, Share, Unassign
<1>5. faults' \in 0..MaxFaults /\ byHand' \in 0..MaxByHand
  BY BoundAssumption
     DEF TypeOK, Next, vars, Start, Look, Send, Lose, Kill, Land, People, AddIssue,
         ByHand, InstallForge, Drift, Mend, Share, Unassign
<1>6. shared' \subseteq Kinds /\ issues' \in BOOLEAN
  BY DEF TypeOK, Next, vars, jira, Start, Look, Send, Effect, Lose, Kill, Land, People, AddIssue,
         ByHand, InstallForge, Drift, Mend, Share, Unassign
<1>7. \A t : Decided(t) \subseteq Schemes
  BY DEF Decided, Create, Schemes
<1>8. /\ todo' \subseteq Schemes
      /\ said' \in {"nothing", "planned", "refused", "stopped", "complete", "ready"}
  BY <1>7 DEF TypeOK, Next, vars, run, Start, Look, Send, GoOn, End, Lose, Kill, Land, People,
              AddIssue, ByHand, InstallForge, Drift, Mend, Share, Unassign
<1>. QED BY <1>1, <1>2, <1>4, <1>5, <1>6, <1>8 DEF TypeOK

(* The variables keep their shape: the requests under way are tasks, what  *)
(* is decided are schemes.                                                 *)
THEOREM TypeCorrect == Spec => []TypeOK
<1>1. ASSUME Init PROVE TypeOK
  <2>1. Len(Tasks) \in Nat
    BY Order, LenProperties
  <2>2. made \in [Kinds -> {"absent", "ours", "found", "ambiguous"}]
    BY <1>1 DEF Init
  <2>3. at = 0 /\ faults = 0 /\ byHand = 0 /\ apply = FALSE /\ doing = FALSE /\ issues = FALSE
    BY <1>1 DEF Init
  <2>4. apply \in BOOLEAN /\ doing \in BOOLEAN /\ issues \in BOOLEAN
    BY <2>3
  <2>5. at \in 0..Len(Tasks) /\ faults \in 0..MaxFaults /\ byHand \in 0..MaxByHand
    BY <2>1, <2>3, BoundAssumption
  <2>6. /\ holds \subseteq Facts /\ assigned \subseteq Schemes /\ shared \subseteq Kinds
        /\ flying \subseteq {Tasks[i] : i \in DOMAIN Tasks} /\ todo \subseteq Schemes
        /\ said \in {"nothing", "planned", "refused", "stopped", "complete", "ready"}
        /\ theirs \subseteq Facts \union Schemes
    BY <1>1, Apart DEF Init
  <2>. QED BY <2>2, <2>4, <2>5, <2>6, Zenon DEF TypeOK
<1>2. IInv /\ IInv' /\ JInv /\ [Next]_vars => JInv'
  BY StepReached
<1>3. IInv /\ IInv' /\ JInv' /\ TypeOK /\ [Next]_vars => TypeOK'
  BY StepTypes
<1>. QED BY <1>1, <1>2, <1>3, Invariant, BeginReached, PTL DEF Spec
-----------------------------------------------------------------------------
(* What is prepared.                                                       *)

(* Whatever changes Jira, except people, is a request that it carries out. *)
LEMMA WhoChangesJira ==
  ASSUME IInv, [Next]_vars, ~People
  PROVE  UNCHANGED jira \/ \E t \in Task : Effect(t)
<1>1. CASE Send \/ Lose
  <2>1. Tasks[at] \in Task
    BY <1>1, AtTask DEF Send, Lose, IInv
  <2>. QED BY <1>1, <2>1 DEF Send, Lose
<1>2. CASE \E t \in flying : Land(t)
  <2>1. PICK t \in flying : Land(t)
    BY <1>2
  <2>2. t \in Task
    BY DEF IInv, Grounded
  <2>. QED BY <2>1, <2>2 DEF Land
<1>3. CASE (\E mode \in BOOLEAN : Start(mode)) \/ Look \/ Kill \/ UNCHANGED vars
  BY <1>3 DEF Start, Look, Kill, vars
<1>. QED BY <1>1, <1>2, <1>3 DEF Next

(* A Space that is prepared stays so, whatever is run again, killed or      *)
(* carried out late, until somebody changes it by hand                      *)
(* (README.md:476-477).                                                    *)
THEOREM PreparedForGood == Spec => PreparedLasts
<1> DEFINE Kept == /\ ~(\E f \in Facts : Drift(f))
                   /\ ~(\E s \in Schemes : Unassign(s))
<1>1. ASSUME IInv, JInv, [Next]_vars, Prepared, Kept
      PROVE  Prepared'
  <2>1. CASE People
    <3>1. AddIssue \/ InstallForge \/ (\E k \in DOMAIN MapOf : Mend(k)) \/ \E k \in Kinds : Share(k)
      BY <1>1, <2>1 DEF People
    <3>2. holds \subseteq holds' /\ assigned' = assigned
      BY <3>1 DEF AddIssue, InstallForge, Mend, Share
    <3>3. \A k \in Kinds : made[k] # "absent" => made'[k] # "absent"
      BY <1>1, <2>1, WhatPeopleDo DEF IInv, Stays
    <3>. QED BY <1>1, <3>2, <3>3 DEF Prepared, PreparedBut
  <2>2. CASE ~People
    <3>1. Grows /\ Bounded'
      BY <1>1, <2>2, WhoChangesJira, SameReached, CarriedReached DEF IInv, JInv
    <3>2. \A k \in Kinds : made'[k] # "absent"
      BY <1>1, <3>1 DEF Prepared, PreparedBut, Grows, Stays
    <3>3. Facts \subseteq holds' /\ Schemes \subseteq assigned'
      BY <1>1, <3>1 DEF Prepared, PreparedBut, Grows
    <3>. QED BY <3>2, <3>3 DEF Prepared, PreparedBut
  <2>. QED BY <2>1, <2>2
<1>2. IInv /\ JInv /\ [Next]_vars => JInv'
  BY StepReached
<1>3. IInv /\ JInv /\ [Next]_vars =>
        [/\ Prepared /\ ~(\E f \in Facts : Drift(f)) /\ ~(\E s \in Schemes : Unassign(s))
         => Prepared']_vars
  BY <1>1
<1>. QED BY <1>2, <1>3, Invariant, BeginReached, PTL DEF Spec, PreparedLasts
=============================================================================
