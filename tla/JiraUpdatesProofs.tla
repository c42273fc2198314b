--------------------------- MODULE JiraUpdatesProofs ---------------------------
(***************************************************************************)
(* What JiraUpdates.tla says of the safety of sync_updates, for streams of *)
(* any length, any number of retries by a person and any number of kills.  *)
(*                                                                         *)
(* The argument ties four pieces of state together, stream by stream: the  *)
(* cursor, the receipts, what FireFlow has (settled), and what of Jira has *)
(* been read.  Settled events are at most the pending one, so each new     *)
(* event that is applied is the greatest (Marked); a settled pending event *)
(* has a receipt, so it is never claimed again (Answered); what is read is *)
(* a beginning of what there is, so the next row skips nothing (Contiguous,*)
(* Complete).                                                              *)
(***************************************************************************)
EXTENDS JiraUpdates, SequenceTheorems, WellFoundedInduction, TLAPS

Cursor == [known : BOOLEAN, seen : {0} \union Event, pending : {0} \union Event,
           try : 0..MaxRetries, parked : BOOLEAN]

(* The cursor of a stream: where it is, and what is below it. *)
Marked(s) ==
  /\ cursor[s].pending # 0 => cursor[s].known /\ cursor[s].seen < cursor[s].pending
  /\ cursor[s].parked => cursor[s].pending # 0
  /\ base[s] <= cursor[s].seen
  /\ cursor[s].seen <= top[s] /\ cursor[s].pending <= top[s]
  /\ ~cursor[s].known => cursor[s].seen = 0 /\ settled[s] = {}
  /\ \A e \in settled[s] : /\ base[s] < e
                           /\ e <= cursor[s].seen \/ e = cursor[s].pending

(* What is applied is settled, and in order. *)
InOrder(s) ==
  /\ \A n \in DOMAIN applied[s] : applied[s][n] \in settled[s]
  /\ \A m, n \in DOMAIN applied[s] : m < n => applied[s][m] < applied[s][n]

(* Receipts are of events up to the pending one and of its tries so far.   *)
Filed(s) ==
  \A e \in Event, t \in 0..MaxRetries : receipt[<<s, e, t>>] # "none" =>
    \/ e <= cursor[s].seen
    \/ e = cursor[s].pending /\ t <= cursor[s].try

(* The receipt of the pending event says what FireFlow has of it. *)
Answer(s) == receipt[<<s, cursor[s].pending, cursor[s].try>>]

Answered(s) ==
  cursor[s].pending # 0 =>
    /\ Answer(s) = "result" => cursor[s].pending \in settled[s]
    /\ cursor[s].pending \in settled[s] => Answer(s) # "none"

(* What a pass has read is all there was up to the last of it. *)
Contiguous(s) ==
  /\ \A e \in live[s] \union rows[s] \union wanted[s] : e <= top[s]
  /\ \A e \in live[s], x \in rows[s] : e <= x => e \in rows[s]

(* Below the cursor, and below a pending event, nothing is missing. *)
Complete(s) ==
  \A e \in live[s] \intersect wanted[s] :
    base[s] < e /\ (e <= cursor[s].seen \/ e < cursor[s].pending) => e \in settled[s]

(* Where the pass is. *)
Delivering == {"deliver", "post", "verify", "delivered"}

Placed == /\ pc # "idle" => at \in Stream
          /\ pc \in Delivering => cursor[at].pending # 0
          /\ pc \in {"post", "verify"} => receipt[Current] = "started"
          /\ pc = "post" => cursor[at].pending \notin settled[at]
          /\ pc \in {"verify", "delivered"} => cursor[at].pending \in settled[at]

Data(s) == /\ Marked(s) /\ InOrder(s)
           /\ Filed(s) /\ Answered(s)
           /\ Contiguous(s) /\ Complete(s)

IInv == TypeOK /\ Placed /\ \A s \in Stream : Data(s)

-----------------------------------------------------------------------------
(* Numbers.                                                                *)

(* Events are positive, and those of a stream are events. *)
LEMMA Numbers ==
  /\ \A e \in Event : e \in Nat /\ e > 0
  /\ 0 \notin Event
  /\ \A s \in Stream : MaxEvents[s] \in Nat /\ 1..MaxEvents[s] \subseteq Event
BY BoundAssumption DEF Event, Stream

(* A set of naturals has a least one. *)
LEMMA Least ==
  ASSUME NEW T \in SUBSET Nat, T # {}
  PROVE  \E m \in T : \A k \in T : m <= k
<1> DEFINE R == OpToRel(<, Nat)
<1>1. IsWellFoundedOn(R, Nat)
  BY NatLessThanWellFounded
<1>2. \E x \in T : \A y \in T : ~ (<<y, x>> \in R)
  <2> HIDE DEF R
  <2>. QED BY <1>1, WFMin
<1>3. PICK x \in T : \A y \in T : ~ (<<y, x>> \in R)
  BY <1>2
<1>4. ASSUME NEW y \in T, y < x PROVE FALSE
  <2>1. <<y, x>> \in R
    BY <1>4 DEF OpToRel
  <2>. QED BY <2>1, <1>3
<1>. QED BY <1>4

(* Highest is the greatest event of a set. *)
LEMMA HighestIsGreatest ==
  ASSUME NEW S \in SUBSET Event
  PROVE  /\ Highest(S) \in {0} \union Event
         /\ \A x \in S : x <= Highest(S)
         /\ S # {} => Highest(S) \in S
         /\ S = {} => Highest(S) = 0
<1>1. CASE S = {}
  BY <1>1 DEF Highest
<1>2. CASE S # {}
  <2> DEFINE Above == {n \in Nat : \A x \in S : x <= n}
  <2>1. MaxEvents["comments"] + MaxEvents["statuses"] \in Above
    BY BoundAssumption DEF Event, Stream
  <2>2. PICK m \in Above : \A k \in Above : m <= k
    BY <2>1, Least
  <2>3. m \in S
    <3>1. SUFFICES ASSUME m \notin S PROVE FALSE
      OBVIOUS
    <3>2. PICK x \in S : x \in Nat /\ x > 0 /\ x <= m
      BY <1>2, <2>2, Numbers
    <3>3. \A y \in S : y \in Nat /\ y <= m /\ y # m
      BY <3>1, <2>2, Numbers
    <3>4. m - 1 \in Above
      BY <3>2, <3>3
    <3>. QED BY <3>4, <2>2
  <2>4. \E e \in S : \A x \in S : x <= e
    BY <2>2, <2>3
  <2>5. Highest(S) \in S /\ \A x \in S : x <= Highest(S)
    BY <1>2, <2>4 DEF Highest
  <2>. QED BY <2>5
<1>. QED BY <1>1, <1>2

-----------------------------------------------------------------------------
(* What a step changes.                                                    *)

(* People change Jira, nobody else. *)
LEMMA WhoChangesJira ==
  ASSUME [Next]_vars
  PROVE  \/ UNCHANGED jira
         \/ \E s \in Stream : Happen(s)
         \/ \E e \in Event : Delete(e)
BY DEF Next, vars, jira, PassStep, Acknowledge, Retry, ReadComments, ReadStatuses, ReadFails,
   Bootstrap, Redeliver, SkipRow, SavePending, EndStream, Replay, ReplayUnreadable,
   ReplayUnknown, CheckFails, NothingToChange, Claim, ClaimTorn, Post, PostFails, Verified,
   VerifyFails, VerifiedUnknown, Consume, ResultTorn, Crash, Unknown

(* Who changes the cursor. *)
LEMMA WhoChangesCursor ==
  ASSUME [Next]_vars
  PROVE  \/ UNCHANGED cursor
         \/ Bootstrap \/ SkipRow \/ SavePending \/ Consume \/ ParkPending
         \/ \E s \in Stream : Acknowledge(s) \/ Retry(s)
BY DEF Next, vars, PassStep, Happen, Delete, ReadComments, ReadStatuses, ReadFails,
   Redeliver, EndStream, Replay, ReplayUnreadable,
   ReplayUnknown, CheckFails, NothingToChange, Claim, ClaimTorn, Post, PostFails, Verified,
   VerifyFails, VerifiedUnknown, ResultTorn, Crash, Unknown

(* Only one receipt changes at a time, that of the current operation, and  *)
(* a result is only written of what FireFlow has.                          *)
LEMMA OneReceipt ==
  ASSUME [Next]_vars
  PROVE  \/ UNCHANGED receipt
         \/ \E r \in {"started", "torn"} : receipt' = [receipt EXCEPT ![Current] = r]
         \/ /\ receipt' = [receipt EXCEPT ![Current] = "result"]
            /\ NothingToChange \/ pc = "verify"
BY DEF Next, vars, PassStep, Happen, Delete, Acknowledge, Retry, ReadComments, ReadStatuses,
   ReadFails, Bootstrap, Redeliver, SkipRow, SavePending, EndStream, Replay,
   ReplayUnreadable, ReplayUnknown, CheckFails, NothingToChange, Claim, ClaimTorn, Post,
   PostFails, Verified, VerifyFails, VerifiedUnknown, Consume, ResultTorn, Crash, Unknown

(* What FireFlow has changes by the pending event. *)
LEMMA WhoSettles ==
  ASSUME [Next]_vars
  PROVE  \/ UNCHANGED <<applied, settled>>
         \/ Apply /\ pc = "post"
         \/ NothingToChange
BY DEF Next, vars, PassStep, Happen, Delete, Acknowledge, Retry, ReadComments, ReadStatuses,
   ReadFails, Bootstrap, Redeliver, SkipRow, SavePending, EndStream, Replay,
   ReplayUnreadable, ReplayUnknown, CheckFails, NothingToChange, Claim, ClaimTorn, Post,
   PostFails, Verified, VerifyFails, VerifiedUnknown, Consume, ResultTorn, Crash, Unknown

(* What a pass has read changes when it reads, and goes when it is over. *)
LEMMA WhoReads ==
  ASSUME [Next]_vars
  PROVE  \/ UNCHANGED rows
         \/ rows' = [s \in Stream |-> {}]
         \/ \E s \in Stream : rows' = [rows EXCEPT ![s] = live[s]]
<1>1. ASSUME NextStream PROVE UNCHANGED rows \/ rows' = [s \in Stream |-> {}]
  BY <1>1 DEF NextStream, Over
<1>2. "comments" \in Stream /\ "statuses" \in Stream
  BY DEF Stream
<1>. QED
  BY <1>1, <1>2 DEF Next, vars, PassStep, Happen, Delete, Acknowledge, Retry, ReadComments,
   ReadStatuses, ReadFails, Bootstrap, Redeliver, SkipRow, SavePending, EndStream, Replay,
   ReplayUnreadable, ReplayUnknown, CheckFails, NothingToChange, Claim, ClaimTorn, Post,
   PostFails, Verified, VerifyFails, VerifiedUnknown, Consume, ResultTorn, Crash, Unknown, Over

(* The baseline is set once. *)
LEMMA WhoSetsBase ==
  ASSUME [Next]_vars
  PROVE  UNCHANGED base \/ Bootstrap
BY DEF Next, vars, PassStep, Happen, Delete, Acknowledge, Retry, ReadComments, ReadStatuses,
   ReadFails, Redeliver, SkipRow, SavePending, EndStream, Replay,
   ReplayUnreadable, ReplayUnknown, CheckFails, NothingToChange, Claim, ClaimTorn, Post,
   PostFails, Verified, VerifyFails, VerifiedUnknown, Consume, ResultTorn, Crash, Unknown

-----------------------------------------------------------------------------
(* Types.                                                                  *)

(* A pass is always somewhere, and in a stream while it works. *)
LEMMA StepPlace ==
  ASSUME TypeOK, Placed, [Next]_vars
  PROVE  /\ pc' \in {"idle", "read", "stream", "deliver", "post", "verify", "delivered"}
         /\ at' \in Stream \union {"end"}
         /\ pc' # "idle" => at' \in Stream
<1>1. /\ pc \in {"idle", "read", "stream", "deliver", "post", "verify", "delivered"}
      /\ at \in Stream \union {"end"}
      /\ pc # "idle" => at \in Stream
  BY DEF TypeOK, Placed
<1>2. CASE UNCHANGED <<pc, at>>
  BY <1>1, <1>2
<1>3. CASE Over
  BY <1>3 DEF Over
<1>4. CASE NextStream /\ pc = "stream"
  BY <1>1, <1>3, <1>4 DEF NextStream, After, Stream
<1>5. CASE /\ at' = at /\ pc # "idle"
           /\ pc' \in {"stream", "deliver", "post", "verify", "delivered"}
  BY <1>1, <1>5
<1>6. CASE ReadComments
  BY <1>6 DEF ReadComments, Stream
<1>. QED
  BY <1>2, <1>3, <1>4, <1>5, <1>6
   DEF Next, vars, PassStep, Happen, Delete, Acknowledge, Retry,
   ReadStatuses, ReadFails, Bootstrap, Redeliver, SkipRow, SavePending, EndStream, Replay,
   ReplayUnreadable, ReplayUnknown, CheckFails, NothingToChange, Claim, ClaimTorn, Post,
   PostFails, Verified, VerifyFails, VerifiedUnknown, Consume, ResultTorn, Crash, Unknown, InRows

(* A cursor keeps its shape, whatever a step makes of it. *)
LEMMA CursorShapes ==
  ASSUME NEW c \in Cursor, NEW e \in {0} \union Event
  PROVE  /\ [c EXCEPT !.known = TRUE, !.seen = e] \in Cursor
         /\ [c EXCEPT !.seen = e] \in Cursor
         /\ [c EXCEPT !.pending = e, !.try = 0] \in Cursor
         /\ Consumed(c) \in Cursor
         /\ \A b \in BOOLEAN : [c EXCEPT !.parked = b] \in Cursor
         /\ c.try < MaxRetries => [c EXCEPT !.try = @ + 1, !.parked = FALSE] \in Cursor
<1>1. 0 \in 0..MaxRetries
  BY BoundAssumption
<1>2. c.try < MaxRetries => c.try + 1 \in 0..MaxRetries
  BY BoundAssumption DEF Cursor
<1>3. (IF c.pending > c.seen THEN c.pending ELSE c.seen) \in {0} \union Event
  BY DEF Cursor
<1>4. Consumed(c) \in Cursor
  BY <1>1, <1>3 DEF Consumed, Cursor
<1>. QED BY <1>1, <1>2, <1>4 DEF Cursor

(* The cursors keep theirs. *)
LEMMA StepCursor ==
  ASSUME TypeOK, Placed, [Next]_vars
  PROVE  cursor' \in [Stream -> Cursor]
<1>1. cursor \in [Stream -> Cursor] /\ rows \in [Stream -> SUBSET Event]
  BY DEF TypeOK, Cursor
<1>2. CASE UNCHANGED cursor
  BY <1>1, <1>2
<1>3. CASE ParkPending
  <2>1. \A s \in Stream : [cursor[s] EXCEPT !.parked = @ \/ cursor[s].pending # 0] \in Cursor
    <3> SUFFICES ASSUME NEW s \in Stream
                 PROVE  [cursor[s] EXCEPT !.parked = @ \/ cursor[s].pending # 0] \in Cursor
      OBVIOUS
    <3>1. (cursor[s].parked \/ cursor[s].pending # 0) \in BOOLEAN
      OBVIOUS
    <3>. QED BY <1>1, <3>1, CursorShapes
  <2>. QED BY <1>3, <2>1 DEF ParkPending
<1>4. CASE Bootstrap
  <2>1. at \in Stream
    BY <1>4 DEF Bootstrap, Placed
  <2>2. Highest(rows[at]) \in {0} \union Event
    BY <1>1, <2>1, HighestIsGreatest
  <2>3. [cursor[at] EXCEPT !.known = TRUE, !.seen = Highest(rows[at])] \in Cursor
    BY <1>1, <2>1, <2>2, CursorShapes
  <2>. QED BY <1>1, <1>4, <2>3 DEF Bootstrap
<1>5. CASE SkipRow
  <2>1. at \in Stream
    BY <1>5 DEF SkipRow, InRows, Placed
  <2>2. PICK e \in rows[at] : cursor' = [cursor EXCEPT ![at].seen = e]
    BY <1>5 DEF SkipRow, New
  <2>3. [cursor[at] EXCEPT !.seen = e] \in Cursor
    BY <1>1, <2>1, CursorShapes
  <2>. QED BY <1>1, <2>2, <2>3
<1>6. CASE SavePending
  <2>1. at \in Stream
    BY <1>6 DEF SavePending, InRows, Placed
  <2>2. PICK e \in rows[at] : cursor' = [cursor EXCEPT ![at].pending = e, ![at].try = 0]
    BY <1>6 DEF SavePending, New
  <2>3. [cursor[at] EXCEPT !.pending = e, !.try = 0] \in Cursor
    BY <1>1, <2>1, CursorShapes
  <2>. QED BY <1>1, <2>2, <2>3
<1>7. CASE Consume
  BY <1>1, <1>7, CursorShapes DEF Consume
<1>8. ASSUME NEW s \in Stream, Acknowledge(s) PROVE cursor' \in [Stream -> Cursor]
  BY <1>1, <1>8, CursorShapes DEF Acknowledge
<1>9. ASSUME NEW s \in Stream, Retry(s) PROVE cursor' \in [Stream -> Cursor]
  BY <1>1, <1>9, CursorShapes DEF Retry
<1>. QED
  BY <1>2, <1>3, <1>4, <1>5, <1>6, <1>7, <1>8, <1>9, WhoChangesCursor

(* What is in Jira, and what a pass has read of it. *)
LEMMA StepJira ==
  ASSUME TypeOK, Placed, [Next]_vars
  PROVE  /\ live' \in [Stream -> SUBSET Event]
         /\ top' \in [Stream -> ({0} \union Event)]
         /\ wanted' \in [Stream -> SUBSET Event]
         /\ rows' \in [Stream -> SUBSET Event]
<1>1. /\ live \in [Stream -> SUBSET Event]
      /\ top \in [Stream -> ({0} \union Event)]
      /\ wanted \in [Stream -> SUBSET Event]
      /\ rows \in [Stream -> SUBSET Event]
  BY DEF TypeOK
<1>2. rows' \in [Stream -> SUBSET Event]
  BY <1>1, WhoReads
<1>3. CASE UNCHANGED jira
  BY <1>1, <1>2, <1>3 DEF jira
<1>4. ASSUME NEW s \in Stream, Happen(s)
      PROVE  /\ live' \in [Stream -> SUBSET Event]
             /\ top' \in [Stream -> ({0} \union Event)]
             /\ wanted' \in [Stream -> SUBSET Event]
  <2>1. top[s] + 1 \in Event /\ top' = [top EXCEPT ![s] = top[s] + 1]
    <3>1. top[s] \in Nat /\ top[s] < MaxEvents[s] /\ MaxEvents[s] \in Nat
      BY <1>1, <1>4, Numbers DEF Happen
    <3>2. top[s] + 1 \in 1..MaxEvents[s]
      BY <3>1
    <3>. QED BY <1>4, <3>2, Numbers DEF Happen
  <2>2. top'[s] \in Event
    BY <1>1, <2>1
  <2>. QED BY <1>1, <1>4, <2>1, <2>2 DEF Happen
<1>5. ASSUME NEW e \in Event, Delete(e)
      PROVE  /\ live' \in [Stream -> SUBSET Event]
             /\ top' \in [Stream -> ({0} \union Event)]
             /\ wanted' \in [Stream -> SUBSET Event]
  BY <1>1, <1>5 DEF Delete
<1>. QED BY <1>2, <1>3, <1>4, <1>5, WhoChangesJira

(* What FireFlow has, and the baseline. *)
LEMMA StepFireFlow ==
  ASSUME TypeOK, Placed, [Next]_vars
  PROVE  /\ applied' \in [Stream -> Seq(Event)]
         /\ settled' \in [Stream -> SUBSET Event]
         /\ base' \in [Stream -> ({0} \union Event)]
         /\ receipt' \in [Operation -> {"none", "started", "torn", "result"}]
<1>1. /\ applied \in [Stream -> Seq(Event)]
      /\ settled \in [Stream -> SUBSET Event]
      /\ base \in [Stream -> ({0} \union Event)]
      /\ receipt \in [Operation -> {"none", "started", "torn", "result"}]
      /\ cursor \in [Stream -> Cursor]
      /\ rows \in [Stream -> SUBSET Event]
  BY DEF TypeOK, Cursor
<1>2. receipt' \in [Operation -> {"none", "started", "torn", "result"}]
  BY <1>1, OneReceipt
<1>3. base' \in [Stream -> ({0} \union Event)]
  <2>1. CASE Bootstrap
    <3>1. at \in Stream
      BY <2>1 DEF Bootstrap, Placed
    <3>2. Highest(rows[at]) \in {0} \union Event
      BY <1>1, <3>1, HighestIsGreatest
    <3>. QED BY <1>1, <2>1, <3>2 DEF Bootstrap
  <2>. QED BY <1>1, <2>1, WhoSetsBase
<1>4. applied' \in [Stream -> Seq(Event)] /\ settled' \in [Stream -> SUBSET Event]
  <2>1. CASE UNCHANGED <<applied, settled>>
    BY <1>1, <2>1
  <2>2. ASSUME pc \in Delivering PROVE cursor[at].pending \in Event /\ at \in Stream
    <3>1. at \in Stream /\ cursor[at].pending # 0
      BY <2>2 DEF Placed, Delivering
    <3>. QED BY <1>1, <3>1 DEF Cursor
  <2>3. CASE Apply /\ pc = "post"
    <3>1. Append(applied[at], cursor[at].pending) \in Seq(Event)
      BY <1>1, <2>2, <2>3, AppendProperties DEF Delivering
    <3>. QED BY <1>1, <2>2, <2>3, <3>1 DEF Apply, Delivering
  <2>4. CASE NothingToChange
    BY <1>1, <2>2, <2>4 DEF NothingToChange, Delivering
  <2>. QED BY <2>1, <2>3, <2>4, WhoSettles
<1>. QED BY <1>2, <1>3, <1>4

(* Every step keeps the types. *)
LEMMA StepTypes ==
  ASSUME TypeOK, Placed, [Next]_vars
  PROVE  TypeOK'
<1>1. crashes' \in Nat
  <2>1. crashes \in Nat
    BY DEF TypeOK
  <2>2. crashes' \in {crashes, crashes + 1}
    BY DEF Next, vars, PassStep, Happen, Delete, Acknowledge, Retry, ReadComments, ReadStatuses,
     ReadFails, Bootstrap, Redeliver, SkipRow, SavePending, EndStream, Replay,
     ReplayUnreadable, ReplayUnknown, CheckFails, NothingToChange, Claim, ClaimTorn, Post,
     PostFails, Verified, VerifyFails, VerifiedUnknown, Consume, ResultTorn, Crash, Unknown
  <2>. QED BY <2>1, <2>2
<1>2. cursor' \in [Stream -> [known : BOOLEAN, seen : {0} \union Event,
                            pending : {0} \union Event, try : 0..MaxRetries,
                            parked : BOOLEAN]]
  BY StepCursor DEF Cursor
<1>. QED BY <1>1, <1>2, StepPlace, StepJira, StepFireFlow DEF TypeOK

-----------------------------------------------------------------------------
(* The cursor.                                                             *)

(* The numbers of a stream. *)
LEMMA StreamNumbers ==
  ASSUME TypeOK, NEW s \in Stream
  PROVE  /\ cursor[s] \in Cursor
         /\ cursor[s].seen \in Nat /\ cursor[s].pending \in Nat
         /\ cursor[s].try \in 0..MaxRetries /\ cursor[s].try \in Nat
         /\ cursor[s].pending # 0 => cursor[s].pending \in Event
         /\ base[s] \in Nat /\ top[s] \in Nat
         /\ settled[s] \subseteq Event /\ rows[s] \subseteq Event
         /\ live[s] \subseteq Event /\ wanted[s] \subseteq Event
         /\ applied[s] \in Seq(Event)
<1>1. cursor[s] \in Cursor
  BY DEF TypeOK, Cursor
<1>2. /\ cursor[s].seen \in {0} \union Event
      /\ cursor[s].pending \in {0} \union Event
      /\ cursor[s].try \in 0..MaxRetries
  BY <1>1 DEF Cursor
<1>3. base[s] \in {0} \union Event /\ top[s] \in {0} \union Event
  BY DEF TypeOK
<1>4. cursor[s].try \in Nat
  BY <1>2, BoundAssumption
<1>5. /\ settled[s] \subseteq Event /\ rows[s] \subseteq Event
      /\ live[s] \subseteq Event /\ wanted[s] \subseteq Event
      /\ applied[s] \in Seq(Event)
  BY DEF TypeOK
<1>. QED BY <1>1, <1>2, <1>3, <1>4, <1>5, Numbers

(* A step that moves no cursor: at most it parks. *)
Stands(s) == /\ cursor'[s].known = cursor[s].known
             /\ cursor'[s].seen = cursor[s].seen
             /\ cursor'[s].pending = cursor[s].pending
             /\ cursor'[s].try = cursor[s].try
             /\ cursor'[s].parked => cursor[s].parked \/ cursor[s].pending # 0
             /\ base'[s] = base[s]

(* A cursor stands, or moves by one of a few steps, each alone. *)
LEMMA HowCursorsMove ==
  ASSUME TypeOK, Placed, [Next]_vars
  PROVE  \/ \A s \in Stream : Stands(s)
         \/ Bootstrap \/ SkipRow \/ SavePending \/ Consume
         \/ \E s \in Stream : Acknowledge(s) \/ Retry(s)
<1>1. CASE UNCHANGED <<cursor, base>>
  BY <1>1 DEF Stands
<1>2. CASE ParkPending /\ UNCHANGED base
  <2>1. ASSUME NEW s \in Stream PROVE Stands(s)
    <3>1. cursor'[s] = [cursor[s] EXCEPT !.parked = @ \/ cursor[s].pending # 0]
      BY <1>2 DEF ParkPending
    <3>2. cursor[s] \in Cursor
      BY StreamNumbers
    <3>. QED BY <1>2, <3>1, <3>2 DEF Stands, Cursor
  <2>. QED BY <2>1
<1>. QED
  BY <1>1, <1>2 DEF Next, vars, PassStep, Happen, Delete, ReadComments, ReadStatuses, ReadFails,
   Redeliver, EndStream, Replay, ReplayUnreadable,
   ReplayUnknown, CheckFails, NothingToChange, Claim, ClaimTorn, Post, PostFails, Verified,
   VerifyFails, VerifiedUnknown, ResultTorn, Crash, Unknown

(* What is settled grows by a pending event at most, and only when no      *)
(* cursor moves.                                                           *)
LEMMA HowItSettles ==
  ASSUME TypeOK, Placed, [Next]_vars, NEW s \in Stream
  PROVE  \/ settled'[s] = settled[s]
         \/ /\ settled'[s] = settled[s] \union {cursor[s].pending}
            /\ cursor[s].pending # 0
            /\ s = at /\ pc \in {"post", "deliver"}
<1>1. settled \in [Stream -> SUBSET Event]
  BY DEF TypeOK
<1>2. pc \in {"post", "deliver"} => at \in Stream /\ cursor[at].pending # 0
  BY DEF Placed, Delivering
<1>3. CASE UNCHANGED <<applied, settled>>
  BY <1>3
<1>4. CASE Apply /\ pc = "post"
  BY <1>1, <1>2, <1>4 DEF Apply
<1>5. CASE NothingToChange
  BY <1>1, <1>2, <1>5 DEF NothingToChange
<1>. QED BY <1>3, <1>4, <1>5, WhoSettles

(* Ids are given in order, and everything there is has one. *)
LEMMA TopGrows ==
  ASSUME TypeOK, [Next]_vars, NEW s \in Stream
  PROVE  top'[s] \in Nat /\ top[s] <= top'[s]
<1>1. top \in [Stream -> ({0} \union Event)] /\ top[s] \in Nat
  BY StreamNumbers DEF TypeOK
<1>2. CASE UNCHANGED jira
  BY <1>1, <1>2 DEF jira
<1>3. ASSUME NEW x \in Stream, Happen(x) PROVE top'[s] \in Nat /\ top[s] <= top'[s]
  BY <1>1, <1>3 DEF Happen
<1>4. ASSUME NEW e \in Event, Delete(e) PROVE top'[s] \in Nat /\ top[s] <= top'[s]
  BY <1>1, <1>4 DEF Delete
<1>. QED BY <1>2, <1>3, <1>4, WhoChangesJira

(* What Consumed makes of a cursor with a pending event. *)
LEMMA Consuming ==
  ASSUME TypeOK, NEW s \in Stream, Marked(s), cursor[s].pending # 0
  PROVE  LET c == Consumed(cursor[s])
         IN /\ c.known /\ c.seen = cursor[s].pending
            /\ c.pending = 0 /\ c.try = 0 /\ ~c.parked
<1>1. cursor[s] \in Cursor /\ cursor[s].seen \in Nat /\ cursor[s].pending \in Nat
  BY StreamNumbers
<1>2. cursor[s].known /\ cursor[s].seen < cursor[s].pending
  BY DEF Marked
<1>. QED BY <1>1, <1>2 DEF Consumed, Cursor

(* How each moving step moves a cursor. *)
LEMMA Moves ==
  ASSUME IInv, [Next]_vars, NEW s \in Stream
  PROVE  \/ Stands(s)
         \/ /\ Bootstrap /\ s = at
            /\ cursor'[s].known /\ cursor'[s].seen = Highest(rows[s])
            /\ cursor'[s].pending = 0 /\ cursor[s].pending = 0
            /\ ~cursor'[s].parked
            /\ base'[s] = Highest(rows[s])
         \/ /\ UNCHANGED <<jira, receipt, applied, base, settled>>
            /\ cursor'[s].known /\ cursor[s].known
            /\ \/ \E e \in New : /\ s = at /\ IsNextRow(e)
                                  /\ cursor[s].pending = 0
                                  /\ ~cursor'[s].parked
                                  /\ \/ /\ SkipRow /\ e \notin wanted[s]
                                        /\ cursor'[s].seen = e
                                        /\ cursor'[s].pending = 0
                                     \/ /\ SavePending
                                        /\ cursor'[s].seen = cursor[s].seen
                                        /\ cursor'[s].pending = e
                                        /\ cursor'[s].try = 0
               \/ /\ cursor[s].pending \in settled[s]
                  /\ cursor'[s].seen = cursor[s].pending
                  /\ cursor'[s].pending = 0 /\ ~cursor'[s].parked
               \/ /\ cursor[s].pending # 0 /\ cursor[s].pending \notin settled[s]
                  /\ cursor'[s].seen = cursor[s].seen
                  /\ cursor'[s].pending = cursor[s].pending
                  /\ cursor'[s].try = cursor[s].try + 1 /\ ~cursor'[s].parked
<1> USE DEF IInv, Data
<1>1. /\ cursor[s] \in Cursor /\ cursor \in [Stream -> Cursor]
      /\ base \in [Stream -> ({0} \union Event)]
  BY StreamNumbers DEF TypeOK, Cursor
<1>2. /\ cursor[s].parked => cursor[s].pending # 0
      /\ cursor[s].pending # 0 => cursor[s].known
      /\ cursor[s].parked \in BOOLEAN
  BY <1>1 DEF Marked, Cursor
<1>3. CASE \A x \in Stream : Stands(x)
  BY <1>3
<1>4. CASE Bootstrap
  <2>1. CASE s = at
    <3>1. cursor'[s] = [cursor[s] EXCEPT !.known = TRUE, !.seen = Highest(rows[s])]
      BY <1>1, <1>4, <2>1 DEF Bootstrap
    <3>2. ~cursor[s].known /\ base'[s] = Highest(rows[s])
      BY <1>1, <1>4, <2>1 DEF Bootstrap
    <3>. QED BY <1>1, <1>2, <1>4, <2>1, <3>1, <3>2 DEF Cursor
  <2>2. CASE s # at
    <3>1. cursor'[s] = cursor[s] /\ base'[s] = base[s]
      BY <1>1, <1>4, <2>2 DEF Bootstrap
    <3>. QED BY <3>1 DEF Stands
  <2>. QED BY <2>1, <2>2
<1>5. CASE SkipRow
  <2>1. PICK e \in New : /\ IsNextRow(e) /\ e \notin wanted[at]
                         /\ cursor' = [cursor EXCEPT ![at].seen = e]
    BY <1>5 DEF SkipRow
  <2>2. /\ cursor[at].known /\ cursor[at].pending = 0
        /\ UNCHANGED <<jira, receipt, applied, base, settled>>
    BY <1>5 DEF SkipRow, InRows
  <2>3. CASE s = at
    <3>1. cursor'[s] = [cursor[s] EXCEPT !.seen = e]
      BY <1>1, <2>1, <2>3
    <3>. QED BY <1>1, <1>2, <1>5, <2>1, <2>2, <2>3, <3>1 DEF Cursor
  <2>4. CASE s # at
    BY <1>1, <2>1, <2>2, <2>4 DEF Stands
  <2>. QED BY <2>3, <2>4
<1>6. CASE SavePending
  <2>1. PICK e \in New : /\ IsNextRow(e)
                         /\ cursor' = [cursor EXCEPT ![at].pending = e, ![at].try = 0]
    BY <1>6 DEF SavePending
  <2>2. /\ cursor[at].known /\ cursor[at].pending = 0
        /\ UNCHANGED <<jira, receipt, applied, base, settled>>
    BY <1>6 DEF SavePending, InRows
  <2>3. CASE s = at
    <3>1. cursor'[s] = [cursor[s] EXCEPT !.pending = e, !.try = 0]
      BY <1>1, <2>1, <2>3
    <3>. QED BY <1>1, <1>2, <1>6, <2>1, <2>2, <2>3, <3>1 DEF Cursor
  <2>4. CASE s # at
    BY <1>1, <2>1, <2>2, <2>4 DEF Stands
  <2>. QED BY <2>3, <2>4
<1>7. ASSUME NEW x \in Stream, cursor' = [cursor EXCEPT ![x] = Consumed(@)],
             cursor[x].pending \in settled[x],
             UNCHANGED <<jira, receipt, applied, base, settled>>
      PROVE  \/ Stands(s)
             \/ /\ cursor'[s].known /\ cursor[s].known
                /\ cursor[s].pending \in settled[s]
                /\ cursor'[s].seen = cursor[s].pending
                /\ cursor'[s].pending = 0 /\ ~cursor'[s].parked
  <2>1. CASE s = x
    <3>1. cursor[s].pending # 0
      BY <1>7, <2>1, StreamNumbers, Numbers
    <3>2. cursor'[s] = Consumed(cursor[s])
      BY <1>1, <1>7, <2>1
    <3>. QED BY <1>2, <1>7, <2>1, <3>1, <3>2, Consuming
  <2>2. CASE s # x
    BY <1>1, <1>7, <2>2 DEF Stands
  <2>. QED BY <2>1, <2>2
<1>8. CASE Consume
  <2>1. at \in Stream /\ cursor[at].pending \in settled[at]
    BY <1>8 DEF Consume, Placed
  <2>. QED BY <1>7, <1>8, <2>1 DEF Consume
<1>9. ASSUME NEW x \in Stream, Acknowledge(x)
      PROVE  \/ Stands(s)
             \/ /\ cursor'[s].known /\ cursor[s].known
                /\ cursor[s].pending \in settled[s]
                /\ cursor'[s].seen = cursor[s].pending
                /\ cursor'[s].pending = 0 /\ ~cursor'[s].parked
  BY <1>7, <1>9 DEF Acknowledge
<1>10. ASSUME NEW x \in Stream, Retry(x)
       PROVE  \/ Stands(s)
              \/ /\ cursor'[s].known /\ cursor[s].known
                 /\ cursor[s].pending # 0 /\ cursor[s].pending \notin settled[s]
                 /\ cursor'[s].seen = cursor[s].seen
                 /\ cursor'[s].pending = cursor[s].pending
                 /\ cursor'[s].try = cursor[s].try + 1 /\ ~cursor'[s].parked
  <2>1. CASE s = x
    <3>1. cursor'[s] = [cursor[s] EXCEPT !.try = @ + 1, !.parked = FALSE]
      BY <1>1, <1>10, <2>1 DEF Retry
    <3>2. cursor[s].parked /\ cursor[s].pending \notin settled[s]
      BY <1>10, <2>1 DEF Retry
    <3>. QED BY <1>1, <1>2, <3>1, <3>2 DEF Cursor
  <2>2. CASE s # x
    BY <1>1, <1>10, <2>2 DEF Stands, Retry
  <2>. QED BY <2>1, <2>2
<1>11. (\E x \in Stream : Acknowledge(x) \/ Retry(x)) =>
         UNCHANGED <<jira, receipt, applied, base, settled>>
  BY DEF Acknowledge, Retry
<1>12. Consume => UNCHANGED <<jira, receipt, applied, base, settled>>
  BY DEF Consume
<1>. QED
  BY <1>3, <1>4, <1>5, <1>6, <1>7, <1>8, <1>9, <1>10, <1>11, <1>12, HowCursorsMove DEF Consume

-----------------------------------------------------------------------------
(* The invariant, part by part.                                            *)

(* What the next row is. *)
LEMMA NextRows ==
  ASSUME IInv, at \in Stream, NEW e \in New, IsNextRow(e)
  PROVE  /\ e \in Event /\ e \in rows[at] /\ cursor[at].seen < e /\ e <= top[at]
         /\ \A x \in live[at] : cursor[at].seen < x => e <= x
<1>1. e \in rows[at] /\ cursor[at].seen < e
  BY DEF New
<1>2. e \in Event /\ e \in Nat /\ e <= top[at] /\ live[at] \subseteq Event
  BY <1>1, StreamNumbers, Numbers DEF IInv, Data, Contiguous
<1>3. ASSUME NEW x \in live[at], cursor[at].seen < x PROVE e <= x
  <2>1. x \in Nat
    BY <1>2, Numbers
  <2>2. CASE x <= e
    <3>1. x \in rows[at]
      BY <1>1, <2>2 DEF IInv, Data, Contiguous
    <3>2. x \in New
      BY <1>3, <3>1 DEF New
    <3>. QED BY <3>2 DEF IsNextRow
  <2>3. CASE ~(x <= e)
    BY <1>2, <2>1, <2>3
  <2>. QED BY <2>2, <2>3
<1>. QED BY <1>1, <1>2, <1>3

(* The cursor stays above the baseline, below the last id, and above or at *)
(* all that is settled.                                                    *)
LEMMA StepMarked ==
  ASSUME IInv, [Next]_vars, NEW s \in Stream
  PROVE  Marked(s)'
<1>1. /\ Marked(s) /\ Contiguous(s) /\ TypeOK /\ Placed
  BY DEF IInv, Data
<1>2. /\ cursor[s].seen \in Nat /\ cursor[s].pending \in Nat
      /\ base[s] \in Nat /\ top[s] \in Nat
      /\ top'[s] \in Nat /\ top[s] <= top'[s]
      /\ \A e \in settled[s] : e \in Nat /\ e > 0
      /\ rows[s] \subseteq Event
  BY <1>1, StreamNumbers, TopGrows, Numbers
<1>3. CASE Stands(s)
  <2>1. CASE settled'[s] = settled[s]
    BY <1>1, <1>2, <1>3, <2>1 DEF Stands, Marked
  <2>2. CASE /\ settled'[s] = settled[s] \union {cursor[s].pending}
             /\ cursor[s].pending # 0
    BY <1>1, <1>2, <1>3, <2>2 DEF Stands, Marked
  <2>. QED BY <1>1, <2>1, <2>2, HowItSettles
<1>4. CASE /\ Bootstrap /\ s = at
           /\ cursor'[s].known /\ cursor'[s].seen = Highest(rows[s])
           /\ cursor'[s].pending = 0 /\ ~cursor'[s].parked
           /\ base'[s] = Highest(rows[s])
  <2>1. settled'[s] = {}
    BY <1>1, <1>4 DEF Bootstrap, Marked
  <2>2. Highest(rows[s]) \in Nat /\ Highest(rows[s]) <= top[s]
    BY <1>1, <1>2, HighestIsGreatest, Numbers DEF Contiguous
  <2>. QED BY <1>2, <1>4, <2>1, <2>2 DEF Marked
<1>5. ASSUME /\ UNCHANGED <<jira, receipt, applied, base, settled>>
             /\ cursor'[s].known, ~cursor'[s].parked
      PROVE  /\ base'[s] = base[s] /\ settled'[s] = settled[s] /\ top'[s] = top[s]
             /\ cursor'[s].known /\ ~cursor'[s].parked
  BY <1>5 DEF jira
<1>6. ASSUME UNCHANGED <<jira, receipt, applied, base, settled>>,
             cursor'[s].known, ~cursor'[s].parked, s = at, cursor[s].pending = 0,
             NEW e \in New, IsNextRow(e),
             \/ cursor'[s].seen = e /\ cursor'[s].pending = 0
             \/ cursor'[s].seen = cursor[s].seen /\ cursor'[s].pending = e
      PROVE  Marked(s)'
  <2>1. e \in Nat /\ cursor[s].seen < e /\ e <= top[s]
    BY <1>6, NextRows, Numbers
  <2>2. \A x \in settled[s] : base[s] < x /\ x <= cursor[s].seen
    BY <1>1, <1>2, <1>6 DEF Marked
  <2>. QED BY <1>1, <1>2, <1>5, <1>6, <2>1, <2>2 DEF Marked
<1>7. ASSUME UNCHANGED <<jira, receipt, applied, base, settled>>,
             cursor'[s].known, ~cursor'[s].parked, cursor[s].pending \in settled[s],
             cursor'[s].seen = cursor[s].pending, cursor'[s].pending = 0
      PROVE  Marked(s)'
  <2>1. cursor[s].pending # 0 /\ cursor[s].seen < cursor[s].pending
    BY <1>1, <1>2, <1>7 DEF Marked
  <2>. QED BY <1>1, <1>2, <1>5, <1>7, <2>1 DEF Marked
<1>8. ASSUME UNCHANGED <<jira, receipt, applied, base, settled>>,
             cursor'[s].known, ~cursor'[s].parked, cursor[s].known,
             cursor'[s].seen = cursor[s].seen, cursor'[s].pending = cursor[s].pending
      PROVE  Marked(s)'
  BY <1>1, <1>2, <1>5, <1>8 DEF Marked
<1>. QED BY <1>3, <1>4, <1>6, <1>7, <1>8, Moves

(* What is applied stays in order: a pending event that is not settled is  *)
(* above all that is.                                                      *)
LEMMA StepInOrder ==
  ASSUME IInv, [Next]_vars, NEW s \in Stream
  PROVE  InOrder(s)'
<1>1. InOrder(s) /\ Marked(s) /\ TypeOK /\ Placed
  BY DEF IInv, Data
<1>2. applied[s] \in Seq(Event) /\ applied \in [Stream -> Seq(Event)]
      /\ settled \in [Stream -> SUBSET Event]
  BY <1>1, StreamNumbers DEF TypeOK
<1>3. CASE applied'[s] = applied[s]
  <2>1. settled[s] \subseteq settled'[s]
    BY <1>1, HowItSettles
  <2>. QED BY <1>1, <1>3, <2>1 DEF InOrder
<1>4. CASE Apply /\ pc = "post" /\ s = at
  <2> DEFINE e == cursor[s].pending
             q == applied[s]
  <2>1. e \notin settled[s] /\ e # 0
    BY <1>1, <1>4 DEF Placed, Delivering
  <2>2. e \in Event /\ e \in Nat /\ cursor[s].seen \in Nat /\ cursor[s].seen < e
    BY <1>1, <2>1, StreamNumbers DEF Marked
  <2>3. applied'[s] = Append(q, e) /\ settled'[s] = settled[s] \union {e}
    BY <1>2, <1>4 DEF Apply
  <2>4. /\ Len(q) \in Nat /\ DOMAIN q = 1..Len(q)
        /\ DOMAIN applied'[s] = 1..Len(q)+1
        /\ \A n \in 1..Len(q) : applied'[s][n] = q[n]
        /\ applied'[s][Len(q)+1] = e
    BY <1>2, <2>2, <2>3, AppendProperties, LenProperties
  <2>5. \A n \in 1..Len(q) : q[n] \in Nat /\ q[n] < e
    <3>1. \A x \in settled[s] : x \in Nat /\ x < e
      BY <1>1, <2>1, <2>2, StreamNumbers, Numbers DEF Marked
    <3>2. \A n \in 1..Len(q) : q[n] \in settled[s]
      BY <1>1, <2>4 DEF InOrder
    <3>. QED BY <3>1, <3>2
  <2>6. \A n \in DOMAIN applied'[s] : applied'[s][n] \in settled'[s]
    BY <1>1, <2>3, <2>4 DEF InOrder
  <2>7. ASSUME NEW m \in DOMAIN applied'[s], NEW n \in DOMAIN applied'[s], m < n
        PROVE  applied'[s][m] < applied'[s][n]
    <3>1. m \in 1..Len(q)
      BY <2>4, <2>7
    <3>2. CASE n \in 1..Len(q)
      BY <1>1, <2>4, <2>7, <3>1, <3>2 DEF InOrder
    <3>3. CASE n = Len(q) + 1
      BY <2>4, <2>5, <3>1, <3>3
    <3>. QED BY <2>4, <3>2, <3>3
  <2>. QED BY <2>6, <2>7 DEF InOrder
<1>5. CASE Apply /\ s # at
  BY <1>2, <1>3, <1>5 DEF Apply
<1>6. CASE NothingToChange
  BY <1>3, <1>6 DEF NothingToChange
<1>. QED BY <1>3, <1>4, <1>5, <1>6, WhoSettles

(* A receipt stays, and other operations' receipts do not change. *)
LEMMA ReceiptsStay ==
  ASSUME TypeOK, [Next]_vars, NEW s \in Stream, NEW e \in Event, NEW t \in 0..MaxRetries
  PROVE  /\ receipt[<<s, e, t>>] # "none" => receipt'[<<s, e, t>>] # "none"
         /\ <<s, e, t>> # Current => receipt'[<<s, e, t>>] = receipt[<<s, e, t>>]
         /\ \/ receipt'[<<s, e, t>>] = receipt[<<s, e, t>>]
            \/ receipt'[<<s, e, t>>] # "result"
            \/ NothingToChange \/ pc = "verify"
<1>1. receipt \in [Operation -> {"none", "started", "torn", "result"}]
  BY DEF TypeOK
<1>2. <<s, e, t>> \in Operation
  BY DEF Operation
<1>. QED BY <1>1, <1>2, OneReceipt

(* No receipt is of a later event or a later try than the cursor's. *)
LEMMA StepFiled ==
  ASSUME IInv, [Next]_vars, NEW s \in Stream
  PROVE  Filed(s)'
<1>1. Filed(s) /\ Marked(s) /\ TypeOK /\ Placed
  BY DEF IInv, Data
<1> SUFFICES ASSUME NEW e \in Event, NEW t \in 0..MaxRetries, receipt'[<<s, e, t>>] # "none"
             PROVE  \/ e <= cursor'[s].seen
                    \/ e = cursor'[s].pending /\ t <= cursor'[s].try
  BY DEF Filed
<1>2. /\ e \in Nat /\ e > 0 /\ t \in Nat
      /\ cursor[s].seen \in Nat /\ cursor[s].pending \in Nat /\ cursor[s].try \in Nat
  BY <1>1, StreamNumbers, Numbers, BoundAssumption
<1>3. \/ e <= cursor[s].seen
      \/ e = cursor[s].pending /\ t <= cursor[s].try
  <2>1. CASE <<s, e, t>> = Current
    BY <1>2, <2>1 DEF Current
  <2>2. CASE <<s, e, t>> # Current
    BY <1>1, <2>2, ReceiptsStay DEF Filed
  <2>. QED BY <2>1, <2>2
<1>4. CASE Stands(s)
  BY <1>3, <1>4 DEF Stands
<1>5. CASE Bootstrap /\ s = at
  <2>1. receipt'[<<s, e, t>>] = receipt[<<s, e, t>>]
    BY <1>5 DEF Bootstrap
  <2>2. cursor[s].seen = 0 /\ cursor[s].pending = 0
    BY <1>1, <1>5 DEF Bootstrap, Marked
  <2>. QED BY <1>2, <1>3, <2>2
<1>6. ASSUME s = at, cursor[s].pending = 0, NEW x \in New, IsNextRow(x),
             \/ cursor'[s].seen = x
             \/ cursor'[s].seen = cursor[s].seen
      PROVE  e <= cursor'[s].seen
  <2>1. x \in Nat /\ cursor[s].seen < x
    BY <1>6, NextRows, Numbers
  <2>. QED BY <1>2, <1>3, <1>6, <2>1
<1>7. ASSUME cursor[s].pending \in settled[s], cursor'[s].seen = cursor[s].pending
      PROVE  e <= cursor'[s].seen
  <2>1. cursor[s].seen < cursor[s].pending
    BY <1>1, <1>7, StreamNumbers, Numbers DEF Marked
  <2>. QED BY <1>2, <1>3, <1>7, <2>1
<1>8. ASSUME cursor'[s].seen = cursor[s].seen, cursor'[s].pending = cursor[s].pending,
             cursor'[s].try = cursor[s].try + 1
      PROVE  \/ e <= cursor'[s].seen
             \/ e = cursor'[s].pending /\ t <= cursor'[s].try
  BY <1>2, <1>3, <1>8
<1>. QED BY <1>4, <1>5, <1>6, <1>7, <1>8, Moves

(* The receipt of a pending event and what FireFlow has of it agree. *)
LEMMA StepAnswered ==
  ASSUME IInv, [Next]_vars, NEW s \in Stream
  PROVE  Answered(s)'
<1>1. /\ Answered(s) /\ Filed(s) /\ Marked(s) /\ TypeOK /\ Placed
  BY DEF IInv, Data
<1>2. /\ cursor[s].seen \in Nat /\ cursor[s].pending \in Nat /\ cursor[s].try \in Nat
      /\ cursor[s].try \in 0..MaxRetries
      /\ cursor[s].pending # 0 => cursor[s].pending \in Event
  BY <1>1, StreamNumbers
<1>3. CASE Stands(s)
  <2> SUFFICES ASSUME cursor[s].pending # 0
               PROVE  /\ Answer(s)' = "result" => cursor[s].pending \in settled'[s]
                      /\ cursor[s].pending \in settled'[s] => Answer(s)' # "none"
    BY <1>3 DEF Stands, Answered
  <2>1. Answer(s)' = receipt'[<<s, cursor[s].pending, cursor[s].try>>]
    BY <1>3 DEF Stands, Answer
  <2>2. cursor[s].pending \in Event
    BY <1>2
  <2>3. settled[s] \subseteq settled'[s]
    BY <1>1, HowItSettles
  <2>4. ASSUME Answer(s)' = "result" PROVE cursor[s].pending \in settled'[s]
    <3>1. CASE Answer(s) = "result"
      BY <1>1, <2>3, <3>1 DEF Answered
    <3>2. CASE Answer(s) # "result"
      <4>1. <<s, cursor[s].pending, cursor[s].try>> = Current /\ (NothingToChange \/ pc = "verify")
        BY <1>1, <1>2, <2>1, <2>2, <2>4, <3>2, ReceiptsStay DEF Answer
      <4>2. s = at
        BY <4>1 DEF Current
      <4>3. CASE pc = "verify"
        BY <1>1, <2>3, <4>2, <4>3 DEF Placed
      <4>4. CASE NothingToChange
        BY <1>1, <4>2, <4>4 DEF NothingToChange, TypeOK
      <4>. QED BY <4>1, <4>3, <4>4
    <3>. QED BY <3>1, <3>2
  <2>5. ASSUME cursor[s].pending \in settled'[s] PROVE Answer(s)' # "none"
    <3>1. CASE cursor[s].pending \in settled[s]
      BY <1>1, <1>2, <2>1, <2>2, <3>1, ReceiptsStay DEF Answered, Answer
    <3>2. CASE cursor[s].pending \notin settled[s]
      <4>1. s = at /\ ((Apply /\ pc = "post") \/ NothingToChange)
        BY <1>1, <2>5, <3>2, HowItSettles, WhoSettles
      <4>2. CASE pc = "post"
        <5>1. Answer(s) = "started"
          BY <1>1, <4>1, <4>2 DEF Placed, Current, Answer
        <5>. QED BY <1>1, <1>2, <2>1, <2>2, <5>1, ReceiptsStay DEF Answer
      <4>3. CASE NothingToChange
        <5>1. Current \in Operation /\ Current = <<s, cursor[s].pending, cursor[s].try>>
          BY <1>2, <2>2, <4>1 DEF Current, Operation
        <5>. QED BY <1>1, <2>1, <4>3, <5>1 DEF NothingToChange, TypeOK
      <4>. QED BY <4>1, <4>2, <4>3
    <3>. QED BY <3>1, <3>2
  <2>. QED BY <2>4, <2>5
<1>4. CASE cursor'[s].pending = 0
  BY <1>4 DEF Answered
<1>5. ASSUME UNCHANGED <<jira, receipt, applied, base, settled>>, s = at,
             cursor[s].pending = 0, NEW e \in New, IsNextRow(e),
             cursor'[s].pending = e, cursor'[s].try = 0
      PROVE  Answered(s)'
  <2>1. e \in Event /\ e \in Nat /\ e > 0 /\ cursor[s].seen < e
    BY <1>5, NextRows, Numbers
  <2>2. receipt[<<s, e, 0>>] = "none"
    BY <1>1, <1>2, <1>5, <2>1, BoundAssumption DEF Filed
  <2>3. e \notin settled[s]
    BY <1>1, <1>2, <1>5, <2>1 DEF Marked
  <2>. QED BY <1>5, <2>2, <2>3 DEF Answered, Answer
<1>6. ASSUME UNCHANGED <<jira, receipt, applied, base, settled>>,
             cursor[s].pending # 0, cursor[s].pending \notin settled[s],
             cursor'[s].pending = cursor[s].pending, cursor'[s].try = cursor[s].try + 1
      PROVE  Answered(s)'
  <2>1. cursor[s].pending \in Event /\ cursor[s].seen < cursor[s].pending
    BY <1>1, <1>2, <1>6 DEF Marked
  <2>2. cursor'[s].try \in 0..MaxRetries
    BY <1>1, StepTypes, StreamNumbers, StepCursor DEF Cursor
  <2>3. receipt[<<s, cursor[s].pending, cursor[s].try + 1>>] = "none"
    BY <1>1, <1>2, <1>6, <2>1, <2>2 DEF Filed
  <2>. QED BY <1>6, <2>3 DEF Answered, Answer
<1>. QED BY <1>3, <1>4, <1>5, <1>6, Moves

(* What an event in Jira changes: it is above all there was. *)
LEMMA Happening ==
  ASSUME TypeOK, NEW x \in Stream, Happen(x), NEW s \in Stream
  PROVE  /\ rows'[s] = rows[s]
         /\ live[s] \subseteq live'[s]
         /\ \A e \in live'[s] : e \in live[s] \/ (e = top[s] + 1 /\ top'[s] = top[s] + 1)
         /\ \A e \in wanted'[s] : e \in wanted[s] \/ (e = top[s] + 1 /\ top'[s] = top[s] + 1)
<1>1. /\ live \in [Stream -> SUBSET Event] /\ wanted \in [Stream -> SUBSET Event]
      /\ top \in [Stream -> ({0} \union Event)]
  BY DEF TypeOK
<1>2. /\ rows' = rows
      /\ top' = [top EXCEPT ![x] = top[x] + 1]
      /\ live' = [live EXCEPT ![x] = live[x] \union {top'[x]}]
      /\ \/ wanted' = wanted
         \/ wanted' = [wanted EXCEPT ![x] = wanted[x] \union {top'[x]}]
  BY DEF Happen
<1>3. top'[x] = top[x] + 1
  BY <1>1, <1>2
<1>4. CASE s = x
  BY <1>1, <1>2, <1>3, <1>4
<1>5. CASE s # x
  <2>1. live'[s] = live[s] /\ wanted'[s] = wanted[s] /\ rows'[s] = rows[s]
    BY <1>1, <1>2, <1>5
  <2>. QED BY <2>1
<1>. QED BY <1>4, <1>5

(* What a pass has read is a beginning of what there is. *)
LEMMA StepContiguous ==
  ASSUME IInv, [Next]_vars, NEW s \in Stream
  PROVE  Contiguous(s)'
<1>1. Contiguous(s) /\ TypeOK /\ Placed
  BY DEF IInv, Data
<1>2. /\ live[s] \subseteq Event /\ rows[s] \subseteq Event /\ wanted[s] \subseteq Event
      /\ top[s] \in Nat /\ top'[s] \in Nat /\ top[s] <= top'[s]
  BY <1>1, StreamNumbers, TopGrows
<1>3. ASSUME NEW x \in Stream, Happen(x) PROVE Contiguous(s)'
  <2>1. ASSUME NEW e \in live'[s] \union rows'[s] \union wanted'[s] PROVE e <= top'[s]
    <3>1. CASE e \in live[s] \union rows[s] \union wanted[s]
      <4>1. e \in Nat /\ e <= top[s]
        BY <1>1, <1>2, <3>1, Numbers DEF Contiguous
      <4>. QED BY <1>2, <4>1
    <3>2. CASE e = top[s] + 1 /\ top'[s] = top[s] + 1
      BY <1>2, <3>2
    <3>. QED BY <1>1, <1>3, <2>1, <3>1, <3>2, Happening
  <2>2. ASSUME NEW e \in live'[s], NEW y \in rows'[s], e <= y PROVE e \in rows'[s]
    <3>1. y \in rows[s] /\ y \in Nat /\ y <= top[s]
      BY <1>1, <1>2, <1>3, <2>2, Happening, Numbers DEF Contiguous
    <3>2. e \in live[s]
      BY <1>1, <1>2, <1>3, <2>2, <3>1, Happening
    <3>. QED BY <1>1, <1>3, <2>2, <3>1, <3>2, Happening DEF Contiguous
  <2>. QED BY <2>1, <2>2 DEF Contiguous
<1>4. ASSUME NEW d \in Event, Delete(d) PROVE Contiguous(s)'
  <2>1. /\ live'[s] \subseteq live[s]
        /\ rows'[s] = rows[s] /\ wanted'[s] = wanted[s] /\ top'[s] = top[s]
    BY <1>1, <1>4 DEF Delete, TypeOK
  <2>. QED BY <1>1, <2>1 DEF Contiguous
<1>5. CASE UNCHANGED jira
  <2>1. live'[s] = live[s] /\ wanted'[s] = wanted[s] /\ top'[s] = top[s]
    BY <1>5 DEF jira
  <2>2. rows'[s] = rows[s] \/ rows'[s] = {} \/ rows'[s] = live[s]
    BY <1>1, WhoReads DEF TypeOK
  <2>. QED BY <1>1, <2>1, <2>2 DEF Contiguous
<1>. QED BY <1>3, <1>4, <1>5, WhoChangesJira

(* The cursor passes over nothing that is meant for FireFlow. *)
LEMMA StepComplete ==
  ASSUME IInv, [Next]_vars, NEW s \in Stream
  PROVE  Complete(s)'
<1>1. Complete(s) /\ Marked(s) /\ Contiguous(s) /\ TypeOK /\ Placed
  BY DEF IInv, Data
<1>2. /\ cursor[s].seen \in Nat /\ cursor[s].pending \in Nat
      /\ base[s] \in Nat /\ top[s] \in Nat
      /\ cursor[s].seen <= top[s] /\ cursor[s].pending <= top[s]
      /\ settled[s] \subseteq settled'[s]
      /\ \A e \in live[s] : e \in Nat /\ e > 0
  BY <1>1, StreamNumbers, Numbers, HowItSettles DEF Marked
<1>3. ASSUME Stands(s), NEW e \in live'[s], e \in wanted'[s], base'[s] < e,
             e <= cursor'[s].seen \/ e < cursor'[s].pending
      PROVE  e \in settled'[s]
  <2>1. ~(e = top[s] + 1)
    BY <1>2, <1>3 DEF Stands
  <2>2. e \in live[s] /\ e \in wanted[s]
    <3>1. ASSUME NEW x \in Stream, Happen(x) PROVE e \in live[s] /\ e \in wanted[s]
      BY <1>1, <1>3, <2>1, <3>1, Happening
    <3>2. ASSUME NEW d \in Event, Delete(d) PROVE e \in live[s] /\ e \in wanted[s]
      BY <1>1, <1>3, <3>2 DEF Delete, TypeOK
    <3>3. CASE UNCHANGED jira
      BY <1>3, <3>3 DEF jira
    <3>. QED BY <3>1, <3>2, <3>3, WhoChangesJira
  <2>. QED BY <1>1, <1>2, <1>3, <2>2 DEF Stands, Complete
<1>4. ASSUME cursor'[s].seen = base'[s], cursor'[s].pending = 0, base'[s] \in Nat,
             Bootstrap
      PROVE  Complete(s)'
  <2>1. \A e \in live'[s] : e \in Nat /\ e > 0
    BY <1>2, <1>4 DEF Bootstrap, jira
  <2>. QED BY <1>4, <2>1 DEF Complete
<1>5. Bootstrap /\ s = at => Highest(rows[s]) \in Nat
  BY <1>1, HighestIsGreatest, Numbers, StreamNumbers
<1>6. ASSUME UNCHANGED <<jira, receipt, applied, base, settled>>
      PROVE  /\ live'[s] = live[s] /\ wanted'[s] = wanted[s] /\ base'[s] = base[s]
             /\ settled'[s] = settled[s]
  BY <1>6 DEF jira
<1>7. ASSUME UNCHANGED <<jira, receipt, applied, base, settled>>, s = at,
             cursor[s].pending = 0, NEW x \in New, IsNextRow(x),
             \/ x \notin wanted[s] /\ cursor'[s].seen = x /\ cursor'[s].pending = 0
             \/ cursor'[s].seen = cursor[s].seen /\ cursor'[s].pending = x
      PROVE  Complete(s)'
  <2>1. x \in Nat /\ \A e \in live[s] : cursor[s].seen < e => x <= e
    BY <1>7, NextRows, Numbers
  <2>2. ASSUME NEW e \in live[s], e \in wanted[s], base[s] < e,
               e <= cursor'[s].seen \/ e < cursor'[s].pending
        PROVE  e \in settled[s]
    <3>1. CASE e <= cursor[s].seen
      BY <1>1, <2>2, <3>1 DEF Complete
    <3>2. CASE cursor[s].seen < e
      BY <1>2, <1>7, <2>1, <2>2, <3>2
    <3>. QED BY <1>2, <3>1, <3>2
  <2>. QED BY <1>6, <1>7, <2>2 DEF Complete
<1>8. ASSUME UNCHANGED <<jira, receipt, applied, base, settled>>,
             cursor[s].pending \in settled[s],
             cursor'[s].seen = cursor[s].pending, cursor'[s].pending = 0
      PROVE  Complete(s)'
  <2>1. ASSUME NEW e \in live[s], e \in wanted[s], base[s] < e, e <= cursor[s].pending
        PROVE  e \in settled[s]
    <3>1. CASE e = cursor[s].pending
      BY <1>8, <3>1
    <3>2. CASE e < cursor[s].pending
      BY <1>1, <2>1, <3>2 DEF Complete
    <3>. QED BY <1>2, <2>1, <3>1, <3>2
  <2>2. \A e \in live[s] : ~(e < 0)
    BY <1>2
  <2>. QED BY <1>6, <1>8, <2>1, <2>2 DEF Complete
<1>9. ASSUME UNCHANGED <<jira, receipt, applied, base, settled>>,
             cursor'[s].seen = cursor[s].seen, cursor'[s].pending = cursor[s].pending
      PROVE  Complete(s)'
  BY <1>1, <1>6, <1>9 DEF Complete
<1>10. CASE Stands(s)
  BY <1>3, <1>10 DEF Complete
<1>. QED BY <1>4, <1>5, <1>7, <1>8, <1>9, <1>10, Moves

(* Where the pass is says what its delivery has come to. *)
LEMMA StepPlaced ==
  ASSUME IInv, [Next]_vars
  PROVE  Placed'
<1>1. TypeOK /\ Placed
  BY DEF IInv
<1>2. /\ pc' # "idle" => at' \in Stream
      /\ pc # "idle" => at \in Stream
  BY <1>1, StepPlace DEF Placed
<1>3. CASE pc' \in {"idle", "read", "stream"}
  BY <1>2, <1>3 DEF Placed, Delivering
<1>4. CASE UNCHANGED <<cursor, receipt, settled, pc, at>>
  BY <1>1, <1>4 DEF Placed, Current
<1>5. CASE SavePending
  <2>1. at' = at /\ pc' = "deliver" /\ at \in Stream
    BY <1>2, <1>5 DEF SavePending, InRows
  <2>2. PICK e \in New : IsNextRow(e) /\ cursor' = [cursor EXCEPT ![at].pending = e, ![at].try = 0]
    BY <1>5 DEF SavePending
  <2>3. e # 0
    BY <2>1, <2>2, NextRows, Numbers
  <2>4. cursor'[at].pending = e
    BY <1>1, <2>1, <2>2 DEF TypeOK
  <2>. QED BY <1>2, <2>1, <2>3, <2>4 DEF Placed, Delivering
<1>6. CASE Redeliver
  BY <1>2, <1>6 DEF Redeliver, Placed, Delivering
<1>7. ASSUME pc \in Delivering
      PROVE  /\ at \in Stream /\ cursor[at].pending # 0
             /\ Current \in Operation /\ receipt[Current] = Answer(at) /\ Answered(at)
  <2>1. at \in Stream /\ cursor[at].pending # 0
    BY <1>1, <1>7 DEF Placed, Delivering
  <2>2. cursor[at].pending \in Event /\ cursor[at].try \in 0..MaxRetries
    BY <1>1, <2>1, StreamNumbers
  <2>3. Current \in Operation
    BY <2>1, <2>2 DEF Current, Operation
  <2>4. receipt[Current] = Answer(at)
    BY DEF Current, Answer
  <2>. QED BY <2>1, <2>3, <2>4 DEF IInv, Data
<1>8. CASE Replay
  BY <1>7, <1>8 DEF Replay, Placed, Delivering, Answered
<1>9. CASE NothingToChange
  <2>1. cursor[at].pending \in settled'[at] /\ UNCHANGED <<cursor, at>> /\ pc' = "delivered"
    BY <1>1, <1>7, <1>9 DEF NothingToChange, Delivering, TypeOK
  <2>. QED BY <1>7, <1>9, <2>1 DEF NothingToChange, Placed, Delivering
<1>10. CASE Claim
  <2>1. receipt'[Current] = "started" /\ UNCHANGED <<cursor, at, settled>> /\ pc' = "post"
    BY <1>1, <1>7, <1>10 DEF Claim, Delivering, TypeOK
  <2>2. cursor[at].pending \notin settled[at]
    BY <1>7, <1>10 DEF Claim, Delivering, Answered
  <2>3. Current' = Current
    BY <2>1 DEF Current
  <2>. QED BY <1>7, <1>10, <2>1, <2>2, <2>3 DEF Claim, Placed, Delivering
<1>11. CASE Post
  <2>1. /\ cursor[at].pending \in settled'[at] /\ UNCHANGED <<cursor, at, receipt>>
        /\ pc' = "verify"
    BY <1>1, <1>7, <1>11 DEF Post, Apply, Delivering, TypeOK
  <2>2. Current' = Current
    BY <2>1 DEF Current
  <2>. QED BY <1>1, <1>7, <1>11, <2>1, <2>2 DEF Post, Placed, Delivering
<1>12. CASE Verified
  BY <1>1, <1>7, <1>12 DEF Verified, Placed, Delivering
<1>. QED
  BY <1>3, <1>4, <1>5, <1>6, <1>8, <1>9, <1>10, <1>11, <1>12 DEF Next, vars, PassStep, Happen,
   Delete, Acknowledge, Retry, ReadComments, ReadStatuses, ReadFails, Bootstrap, SkipRow,
   EndStream, NextStream, ReplayUnreadable, ReplayUnknown, CheckFails, ClaimTorn,
   PostFails, VerifyFails, VerifiedUnknown, Consume, ResultTorn, Crash, Unknown, Over, InRows

(* It all holds at the start. *)
LEMMA InitIInv == Init => IInv
<1> SUFFICES ASSUME Init PROVE IInv
  OBVIOUS
<1>1. NoCursor \in Cursor
  <2>1. 0 \in 0..MaxRetries
    BY BoundAssumption
  <2>. QED BY <2>1 DEF NoCursor, Cursor
<1>2. cursor \in [Stream -> Cursor]
  BY <1>1 DEF Init
<1>3. applied \in [Stream -> Seq(Event)]
  BY EmptySeq DEF Init
<1>4. TypeOK
  BY <1>2, <1>3 DEF Init, TypeOK, Cursor
<1>5. Placed
  BY DEF Init, Placed, Delivering
<1>6. ASSUME NEW s \in Stream PROVE Data(s)
  <2>1. /\ cursor[s] = NoCursor /\ top[s] = 0 /\ base[s] = 0 /\ settled[s] = {}
        /\ live[s] = {} /\ wanted[s] = {} /\ rows[s] = {} /\ applied[s] = <<>>
    BY DEF Init
  <2>2. Marked(s)
    BY <2>1 DEF Marked, NoCursor
  <2>3. InOrder(s)
    BY <2>1 DEF InOrder
  <2>4. Filed(s)
    BY DEF Init, Filed, Operation
  <2>5. Answered(s) /\ Contiguous(s) /\ Complete(s)
    BY <2>1 DEF Answered, Contiguous, Complete, NoCursor
  <2>. QED BY <2>2, <2>3, <2>4, <2>5 DEF Data
<1>. QED BY <1>4, <1>5, <1>6 DEF IInv

-----------------------------------------------------------------------------
(* The theorems.                                                           *)

(* The inductive invariant: cursor, receipts, what FireFlow has and what   *)
(* was read of Jira, together.                                             *)
THEOREM Invariant == Spec => []IInv
<1>1. ASSUME IInv, [Next]_vars PROVE IInv'
  <2>1. TypeOK' /\ Placed'
    BY <1>1, StepTypes, StepPlaced DEF IInv
  <2>2. ASSUME NEW s \in Stream PROVE Data(s)'
    <3>1. Marked(s)' /\ InOrder(s)'
      BY <1>1, StepMarked, StepInOrder
    <3>2. Filed(s)' /\ Answered(s)'
      BY <1>1, StepFiled, StepAnswered
    <3>3. Contiguous(s)' /\ Complete(s)'
      BY <1>1, StepContiguous, StepComplete
    <3>. QED BY <3>1, <3>2, <3>3 DEF Data
  <2>. QED BY <2>1, <2>2 DEF IInv
<1>. QED BY <1>1, InitIInv, PTL DEF Spec

(* Every variable of the updates keeps its shape. *)
THEOREM TypeCorrect == Spec => []TypeOK
<1>. QED BY Invariant, PTL DEF IInv

(* No event is applied twice, and all in the order of Jira, across kills,  *)
(* redeliveries and retries by a person (jira_updates.py:3-5).             *)
THEOREM EachOnceInOrder == Spec => []AppliedInOrder
<1>1. IInv => AppliedInOrder
  BY DEF IInv, Data, InOrder, AppliedInOrder
<1>. QED BY <1>1, Invariant, PTL

(* What was there when a stream was first read is never sent               *)
(* (jira_updates.py:3, README.md:201-202).                                 *)
THEOREM HistoryStays == Spec => []BaselineNotReplayed
<1>1. IInv => BaselineNotReplayed
  BY DEF IInv, Data, InOrder, Marked, BaselineNotReplayed
<1>. QED BY <1>1, Invariant, PTL

(* No event that is meant for FireFlow is passed over                      *)
(* (jira_updates.py:143).                                                  *)
THEOREM NonePassedOver == Spec => []NothingSkipped
<1>1. IInv => NothingSkipped
  BY DEF IInv, Data, Complete, NothingSkipped
<1>. QED BY <1>1, Invariant, PTL

(* An event is only sent while FireFlow does not have it, whatever was     *)
(* sent of it before.                                                      *)
THEOREM SendsWhatIsAbsent == Spec => SentOnlyIfAbsent
<1>1. IInv /\ [Next]_vars => [pc = "post" => cursor[at].pending \notin settled[at]]_vars
  BY DEF IInv, Placed
<1>. QED BY <1>1, Invariant, PTL DEF Spec, SentOnlyIfAbsent

-----------------------------------------------------------------------------
(* Each stream is a Delivery.                                              *)

(* What happens in Jira, happens in Jira only. *)
LEMMA JiraSteps ==
  ASSUME TypeOK, [Next]_vars, ~UNCHANGED jira, NEW s \in Stream
  PROVE  [Promise(s)!Next]_(Promise(s)!vars)
<1> USE DEF Promise!Next, Promise!vars, Promise!jira, Promise!record, Promise!fireflow
<1>1. /\ live \in [Stream -> SUBSET Event] /\ wanted \in [Stream -> SUBSET Event]
      /\ top \in [Stream -> ({0} \union Event)]
  BY DEF TypeOK
<1>2. ASSUME NEW x \in Stream, Happen(x) PROVE [Promise(s)!Next]_(Promise(s)!vars)
  <2>1. UNCHANGED <<cursor, applied, settled>>
    BY <1>2 DEF Happen
  <2>2. CASE s = x
    <3>1. /\ top'[s] = top[s] + 1 /\ live'[s] = live[s] \union {top'[s]}
          /\ wanted'[s] \in {wanted[s], wanted[s] \union {top'[s]}}
      BY <1>1, <1>2, <2>2 DEF Happen
    <3>2. Promise(s)!Happen
      BY <2>1, <3>1 DEF Promise!Happen
    <3>. QED BY <3>2
  <2>3. CASE s # x
    <3>1. top'[s] = top[s] /\ live'[s] = live[s] /\ wanted'[s] = wanted[s]
      BY <1>1, <1>2, <2>3 DEF Happen
    <3>. QED BY <2>1, <3>1
  <2>. QED BY <2>2, <2>3
<1>3. ASSUME NEW e \in Event, Delete(e) PROVE [Promise(s)!Next]_(Promise(s)!vars)
  <2>1. UNCHANGED <<top, wanted, cursor, applied, settled>>
    BY <1>3 DEF Delete
  <2>2. CASE s = "comments"
    <3>1. e \in live[s] /\ live'[s] = live[s] \ {e}
      BY <1>1, <1>3, <2>2 DEF Delete
    <3>2. Promise(s)!Withdraw
      BY <2>1, <3>1 DEF Promise!Withdraw
    <3>. QED BY <3>2
  <2>3. CASE s # "comments"
    <3>1. live'[s] = live[s]
      BY <1>1, <1>3, <2>3 DEF Delete
    <3>. QED BY <2>1, <3>1
  <2>. QED BY <2>2, <2>3
<1>. QED BY <1>2, <1>3, WhoChangesJira

(* FireFlow gets the event whose delivery is open, and only if it has not  *)
(* got it.                                                                 *)
LEMMA SettlingSteps ==
  ASSUME IInv, [Next]_vars, ~UNCHANGED <<applied, settled>>, NEW s \in Stream
  PROVE  [Promise(s)!Next]_(Promise(s)!vars)
<1> USE DEF Promise!Next, Promise!vars, Promise!jira, Promise!record, Promise!fireflow
<1>1. /\ applied \in [Stream -> Seq(Event)] /\ settled \in [Stream -> SUBSET Event]
      /\ Placed /\ TypeOK /\ Answered(s)
  BY DEF IInv, Data, TypeOK
<1>2. UNCHANGED <<jira, cursor>> \/ (UNCHANGED jira /\ Stands(s))
  <2>1. UNCHANGED jira
    BY WhoChangesJira DEF Happen, Delete
  <2>2. Stands(s) \/ Bootstrap \/ UNCHANGED <<applied, settled>>
    BY Moves
  <2>. QED BY <2>1, <2>2 DEF Bootstrap
<1>3. /\ live'[s] = live[s] /\ wanted'[s] = wanted[s] /\ top'[s] = top[s]
      /\ cursor'[s].known = cursor[s].known /\ cursor'[s].seen = cursor[s].seen
      /\ cursor'[s].pending = cursor[s].pending
  BY <1>2 DEF jira, Stands
<1>4. ASSUME s = at, cursor[s].pending \notin settled[s], cursor[s].pending # 0,
             settled'[s] = settled[s] \union {cursor[s].pending},
             applied'[s] \in {applied[s], Append(applied[s], cursor[s].pending)}
      PROVE  Promise(s)!Settle
  BY <1>3, <1>4 DEF Promise!Settle
<1>5. CASE Apply /\ pc = "post"
  <2>1. CASE s = at
    <3>1. cursor[s].pending \notin settled[s] /\ cursor[s].pending # 0
      BY <1>1, <1>5, <2>1 DEF Placed, Delivering
    <3>2. /\ settled'[s] = settled[s] \union {cursor[s].pending}
          /\ applied'[s] = Append(applied[s], cursor[s].pending)
      BY <1>1, <1>5, <2>1 DEF Apply
    <3>. QED BY <1>4, <2>1, <3>1, <3>2
  <2>2. CASE s # at
    <3>1. settled'[s] = settled[s] /\ applied'[s] = applied[s]
      BY <1>1, <1>5, <2>2 DEF Apply
    <3>. QED BY <1>3, <3>1
  <2>. QED BY <2>1, <2>2
<1>6. CASE NothingToChange
  <2>1. pc = "deliver" /\ receipt[Current] = "none" /\ UNCHANGED applied
    BY <1>6 DEF NothingToChange
  <2>2. CASE s = at
    <3>1. cursor[s].pending # 0
      BY <1>1, <2>1, <2>2 DEF Placed, Delivering
    <3>2. cursor[s].pending \notin settled[s]
      BY <1>1, <2>1, <2>2, <3>1 DEF Answered, Answer, Current
    <3>3. settled'[s] = settled[s] \union {cursor[s].pending}
      BY <1>1, <1>6, <2>2 DEF NothingToChange
    <3>. QED BY <1>4, <2>1, <2>2, <3>1, <3>2, <3>3
  <2>3. CASE s # at
    <3>1. settled'[s] = settled[s]
      BY <1>1, <1>6, <2>3 DEF NothingToChange
    <3>. QED BY <1>3, <2>1, <3>1
  <2>. QED BY <2>2, <2>3
<1>. QED BY <1>5, <1>6, WhoSettles

(* The cursor moves past what FireFlow has and what is not meant for it,   *)
(* and a delivery is opened for the next event.                            *)
LEMMA CursorSteps ==
  ASSUME IInv, [Next]_vars, UNCHANGED <<jira, applied, settled>>, NEW s \in Stream
  PROVE  [Promise(s)!Next]_(Promise(s)!vars)
<1> USE DEF Promise!Next, Promise!vars, Promise!jira, Promise!record, Promise!fireflow
<1>1. /\ live'[s] = live[s] /\ wanted'[s] = wanted[s] /\ top'[s] = top[s]
      /\ applied'[s] = applied[s] /\ settled'[s] = settled[s]
  BY DEF jira
<1>2. /\ cursor[s].seen \in Nat /\ top[s] \in Nat /\ live[s] \subseteq Event
      /\ rows[s] \subseteq Event
      /\ Marked(s) /\ Contiguous(s) /\ cursor \in [Stream -> Cursor]
  BY StreamNumbers DEF IInv, Data, TypeOK, Cursor
<1>3. CASE Stands(s)
  BY <1>1, <1>3 DEF Stands
<1>4. CASE /\ Bootstrap /\ s = at
           /\ cursor'[s].known /\ cursor'[s].seen = Highest(rows[s])
           /\ cursor'[s].pending = 0 /\ cursor[s].pending = 0
  <2>1. ~cursor[s].known
    BY <1>4 DEF Bootstrap
  <2>2. Highest(rows[s]) \in 0..top[s]
    <3>1. /\ Highest(rows[s]) \in {0} \union Event
          /\ rows[s] # {} => Highest(rows[s]) \in rows[s]
          /\ rows[s] = {} => Highest(rows[s]) = 0
      BY <1>2, HighestIsGreatest
    <3>2. Highest(rows[s]) \in Nat /\ Highest(rows[s]) <= top[s]
      BY <1>2, <3>1, Numbers DEF Contiguous
    <3>. QED BY <1>2, <3>2
  <2>3. cursor'[s].known = TRUE
    <3>1. cursor' = [cursor EXCEPT ![at].known = TRUE, ![at].seen = Highest(rows[at])]
      BY <1>4 DEF Bootstrap
    <3>. QED BY <1>2, <1>4, <3>1 DEF Cursor
  <2>4. Promise(s)!Begin
    BY <1>1, <1>4, <2>1, <2>2, <2>3 DEF Promise!Begin
  <2>. QED BY <2>4
<1>5. ASSUME NEW e \in New, s = at, IsNextRow(e)
      PROVE  /\ e \in Nat /\ cursor[s].seen < e /\ e <= top[s]
             /\ \A x \in live[s] : x \in Nat /\ (cursor[s].seen < x => e <= x)
  BY <1>2, <1>5, NextRows, Numbers
<1>6. cursor[s].known /\ cursor'[s].known => cursor'[s].known = cursor[s].known
  <2>1. cursor[s].known \in BOOLEAN /\ cursor'[s].known \in BOOLEAN
    <3>1. cursor' \in [Stream -> Cursor]
      BY StepCursor DEF IInv
    <3>. QED BY <1>2, <3>1 DEF Cursor
  <2>. QED BY <2>1
<1>7. ASSUME NEW e \in New, s = at, IsNextRow(e), cursor[s].pending = 0,
             e \notin wanted[s], cursor'[s].seen = e, cursor'[s].pending = 0,
             cursor[s].known, cursor'[s].known
      PROVE  Promise(s)!Pass
  <2>1. \A x \in live[s] \intersect wanted[s] : cursor[s].seen < x => e + 1 <= x
    <3> SUFFICES ASSUME NEW x \in live[s] \intersect wanted[s], cursor[s].seen < x
                 PROVE  e + 1 <= x
      OBVIOUS
    <3>1. x # e /\ e <= x /\ x \in Nat /\ e \in Nat
      BY <1>5, <1>7
    <3>. QED BY <3>1
  <2>2. cursor[s].seen < cursor'[s].seen /\ cursor'[s].seen <= top[s]
    BY <1>5, <1>7
  <2>. QED BY <1>1, <1>6, <1>7, <2>1, <2>2 DEF Promise!Pass, Promise!NoneBefore
<1>8. ASSUME SavePending, NEW e \in New, s = at, IsNextRow(e), cursor[s].pending = 0,
             cursor'[s].seen = cursor[s].seen, cursor'[s].pending = e,
             cursor[s].known, cursor'[s].known
      PROVE  Promise(s)!Open
  <2>1. e \in wanted[s]
    <3>1. PICK x \in New : x \in wanted[at] /\
              cursor' = [cursor EXCEPT ![at].pending = x, ![at].try = 0]
      BY <1>8 DEF SavePending
    <3>2. cursor'[s].pending = x
      BY <1>2, <1>8, <3>1 DEF Cursor
    <3>. QED BY <1>8, <3>1, <3>2
  <2>. QED BY <1>1, <1>5, <1>6, <1>8, <2>1 DEF Promise!Open, Promise!NoneBefore
<1>9. ASSUME cursor[s].pending \in settled[s], cursor'[s].seen = cursor[s].pending,
             cursor'[s].pending = 0, cursor[s].known, cursor'[s].known
      PROVE  Promise(s)!Close
  BY <1>1, <1>6, <1>9 DEF Promise!Close
<1>10. CASE /\ cursor'[s].seen = cursor[s].seen /\ cursor'[s].pending = cursor[s].pending
            /\ cursor[s].known /\ cursor'[s].known
  BY <1>1, <1>6, <1>10
<1>. QED BY <1>3, <1>4, <1>7, <1>8, <1>9, <1>10, Moves

(* Each stream is a Delivery: an event that is meant for FireFlow is on    *)
(* record before it is sent, gets there once and in Jira's order, and the  *)
(* cursor moves past it only when FireFlow has it (jira_updates.py:3-5,    *)
(* jira_updates.py:192-252).                                               *)
THEOREM DeliveryRefinement == Spec => DeliverySpec
<1>1. Init => \A s \in Stream : Promise(s)!Init
  BY DEF Init, NoCursor, Promise!Init
<1>2. IInv /\ [Next]_vars => [\A s \in Stream : [Promise(s)!Next]_(Promise(s)!vars)]_vars
  <2> SUFFICES ASSUME IInv, [Next]_vars, NEW s \in Stream
               PROVE  [Promise(s)!Next]_(Promise(s)!vars)
    OBVIOUS
  <2>. QED BY JiraSteps, SettlingSteps, CursorSteps DEF IInv
<1>. QED BY <1>1, <1>2, Invariant, PTL DEF Spec, DeliverySpec
(* What FireFlow has and the cursor is not past yet is the one pending      *)
(* event, and the receipt of its current operation says that it was begun   *)
(* (jira_updates.py:4-5).                                                   *)
THEOREM SendsAreOnRecord == Spec => []WritesAreOnRecord
<1>1. IInv => WritesAreOnRecord
  <2> SUFFICES ASSUME IInv, NEW s \in Stream, NEW e \in settled[s], e > cursor[s].seen
               PROVE  /\ e = cursor[s].pending
                      /\ receipt[<<s, e, cursor[s].try>>] # "none"
    BY DEF WritesAreOnRecord
  <2>1. e \in Event /\ cursor[s].seen \in {0} \union Event
    BY DEF IInv, TypeOK
  <2>2. ~(e <= cursor[s].seen) /\ e # 0
    BY <2>1, Numbers
  <2>3. e = cursor[s].pending
    BY <2>2 DEF IInv, Data, Marked
  <2>. QED BY <2>2, <2>3 DEF IInv, Data, Answered, Answer
<1>. QED BY <1>1, Invariant, PTL
=============================================================================
