------------------------------ MODULE IssueTail ------------------------------
(***************************************************************************)
(* jira._issue_tail: the newest events of an issue, read page by page,     *)
(* while people add events and delete some.  Comments come newest first,   *)
(* and can be deleted; the changelog comes oldest first, and only grows.   *)
(* sync_updates keeps the greatest event it was given as its cursor: what  *)
(* a read leaves out below that is never read again.  JiraUpdates.tla has  *)
(* what is done with the events; there a read is one step.                 *)
(***************************************************************************)
EXTENDS Integers, FiniteSetsExt

CONSTANTS PageSize,    \* limit
          MaxItems,    \* max_items: the longest tail that is read
          ShortPages,  \* Jira may return fewer events than it is asked for
          Before,      \* bound: the events there are at the beginning
          Ever         \* bound: the events there will ever be

ASSUME TailAssumption == /\ ShortPages \in BOOLEAN
                         /\ PageSize \in Nat \ {0} /\ MaxItems \in Nat \ {0}
                         /\ Before \in Nat \ {0} /\ Ever \in Nat /\ Before <= Ever

VARIABLES
  newestFirst, \* the stream: comments, or else the changelog
  events,     \* Jira: the events, by their ids
  newest,     \* Jira: the last id given
  cursor,     \* after_id: the durable high-water mark; 0: it began when
              \* there was no event, -1: it has not begun
  pc,         \* "idle", "page" or "hydrate"
  start,      \* _issue_tail: where the next page begins
  total,      \* _issue_tail: the size it was told first, or -1
  result,     \* _issue_tail: the events read
  delivered,  \* history: the events that reads returned, and the baseline
  blind       \* history: a read that no cursor bounded left events out

reader == <<pc, start, total, result>>
jira == <<newestFirst, events, newest>>
vars == <<jira, cursor, reader, delivered, blind>>

Init == /\ newestFirst \in BOOLEAN
        /\ newest \in {0, Before}
        /\ events = 1..newest
        /\ cursor \in {-1} \union IF newest = 0 THEN {0} ELSE 1..newest
        /\ delivered = 1..cursor
        /\ blind = FALSE
        /\ pc = "idle"
        /\ start = 0
        /\ total = -1
        /\ result = {}

-----------------------------------------------------------------------------
Add == /\ newest < Ever
       /\ newest' = newest + 1
       /\ events' = events \union {newest'}
       /\ UNCHANGED <<newestFirst, cursor, reader, delivered, blind>>

Delete(e) == /\ newestFirst
             /\ events' = events \ {e}
             /\ UNCHANGED <<newestFirst, newest, cursor, reader, delivered, blind>>

-----------------------------------------------------------------------------
(* Where an event comes in Jira's answer, from 0. *)
Place(e) == Cardinality({f \in events : IF newestFirst THEN f > e ELSE f < e})

(* The pages that Jira may return: at most what is asked for. *)
Pages == LET room == Min({PageSize, MaxItems - Cardinality(result)})
             ends == IF ShortPages THEN start + 1..start + room ELSE {start + room}
         IN {{e \in events : Place(e) \in start..end - 1} : end \in ends}

Start == /\ pc = "idle"
         /\ pc' = "page"
         /\ start' = 0
         /\ total' = -1
         /\ result' = {}
         /\ UNCHANGED <<jira, cursor, delivered, blind>>

(* The read ends with an error, or with events.  The caller passes over    *)
(* those up to the cursor, and its cursor ends at the newest; the first    *)
(* read of a stream only gives the cursor.                                 *)
Fails == /\ pc' = "idle"
         /\ UNCHANGED <<start, total, result, cursor, delivered, blind>>

Returns(found) == /\ pc' = "idle"
                  /\ result' = found
                  /\ cursor' = Max(found \union {cursor, 0})
                  /\ delivered' = delivered \union
                       IF cursor = -1 THEN 1..cursor' ELSE {e \in found : e > cursor}
                  /\ blind' = (blind \/ (cursor = 0 /\ ~events \subseteq found))
                  /\ UNCHANGED <<start, total>>

(* The first answer says how long the changelog is: the tail begins later. *)
Jumps == total = -1 /\ ~newestFirst /\ Cardinality(events) > MaxItems /\ start = 0

Jump == /\ total' = Cardinality(events)
        /\ start' = total' - MaxItems
        /\ result' = {}
        /\ UNCHANGED <<pc, cursor, delivered, blind>>

(* Faults, for the mutants: a cursor that the tail does not reach is not   *)
(* noticed; the comment of the cursor itself must have survived.           *)
CoveredAnyway(found, end) == TRUE
OverlapsExactly(found) == cursor \in found

SameTotal == total \in {-1, Cardinality(events)}

(* An id at or below the cursor shows that the tail goes back far enough;  *)
(* so does a tail that is all there is.                                    *)
Overlaps(found) == \E e \in found : e <= cursor

Covered(found, end) == \/ cursor <= 0
                       \/ Overlaps(found)
                       \/ /\ start = 0
                          /\ end = Cardinality(events)

(* Jira's page is empty too early, or repeats an event.                    *)
Broken(page) == \/ page = {} /\ start < Cardinality(events)
                \/ page \intersect result # {}

Enough(found, end) == \/ newestFirst /\ Overlaps(found)
                      \/ end = Cardinality(events)
                      \/ Cardinality(found) = MaxItems

GoOn(found, end) == /\ start' = end
                    /\ total' = Cardinality(events)
                    /\ result' = found
                    /\ UNCHANGED <<pc, cursor, delivered, blind>>

ToHydrate(found) == /\ pc' = "hydrate"
                    /\ result' = found
                    /\ UNCHANGED <<start, total, cursor, delivered, blind>>

ReadPage(page) ==
  LET end   == start + Cardinality(page)
      found == result \union page
  IN \/ ~SameTotal /\ Fails
     \/ SameTotal /\ Jumps /\ Jump
     \/ SameTotal /\ ~Jumps /\ Broken(page) /\ Fails
     \/ /\ SameTotal /\ ~Jumps /\ ~Broken(page)
        /\ \/ ~Enough(found, end) /\ GoOn(found, end)
           \/ Enough(found, end) /\ ~Covered(found, end) /\ Fails
           \/ /\ Enough(found, end) /\ Covered(found, end)
              /\ IF newestFirst THEN ToHydrate(found) ELSE Returns(found)

(* Each entry of the changelog gives one event, of a status or of another  *)
(* kind, so that the caller sees every id.                                 *)
Read == /\ pc = "page"
        /\ \E page \in Pages : ReadPage(page)
        /\ UNCHANGED jira

(* comments: the properties of all of them, which tell our own comments.   *)
Hydrate == /\ pc = "hydrate"
           /\ IF result \subseteq events THEN Returns(result) ELSE Fails
           /\ UNCHANGED jira

Next == \/ Start \/ Read \/ Hydrate
        \/ Add
        \/ \E e \in events : Delete(e)

Spec == Init /\ [][Next]_vars

(* Polls come again and again; people need not write. *)
FairSpec == Spec /\ WF_vars(Start) /\ WF_vars(Read) /\ WF_vars(Hydrate)

-----------------------------------------------------------------------------
(* No event is overtaken: one that is on the issue and not above the cursor *)
(* was returned by some read, whatever was added and deleted while the     *)
(* pages were read (jira.py:130-193).  A stream that began with no event   *)
(* at all has no id to reach back to: it loses events when more of them    *)
(* than the tail holds come at once.                                       *)
NothingOvertaken == ~blind => \A e \in events : e <= cursor => e \in delivered

(* The read that JiraUpdates takes for one step: when a read moves the      *)
(* cursor, it gives the caller every event that is on the issue at that    *)
(* moment between the old cursor and the new one, however many pages it    *)
(* took and whatever came and went between them (jira.py:130-193).         *)
ReadsAreWhole ==
  [][ cursor >= 0 /\ cursor' # cursor /\ ~blind' =>
        \A e \in events' : cursor < e /\ e <= cursor' => e \in result' ]_vars

AllRead == cursor >= 0 /\ events \subseteq delivered

(* So many events are new that the tail does not reach back to the cursor. *)
OutOfReach == Cardinality({e \in events : e > cursor}) >= MaxItems

(* All that the cursor covered has been deleted, and the rest does not fit *)
(* one page.                                                               *)
NothingOlder == /\ newestFirst
                /\ \A e \in events : e > cursor
                /\ Cardinality(events) > IF ShortPages THEN 1 ELSE PageSize

(* Once people pause, every event is read, except that a read fails, for a *)
(* person to see, while the bounded tail does not reach back to the cursor *)
(* or nothing is left that it could reach (jira.py:171-189).               *)
EventsAreRead == <>[]AllRead \/ <>[](blind \/ OutOfReach \/ NothingOlder)
=============================================================================
