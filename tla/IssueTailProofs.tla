---------------------------- MODULE IssueTailProofs ----------------------------
(***************************************************************************)
(* What IssueTail.tla says of the safety of jira._issue_tail, for pages    *)
(* and tails of any size and any number of events that are added and       *)
(* deleted between two pages.                                              *)
(*                                                                         *)
(* The changelog only grows at its end, so what is read is an interval.    *)
(* Comments shift in both directions.  The last page of a tail reaches     *)
(* down to the cursor; if all that was read is still there, it fills the   *)
(* places above that page, so there is no room for an event that was left  *)
(* out (NoGap).  That it is still there is what the read of the properties *)
(* checks (Hydrate).                                                       *)
(***************************************************************************)
EXTENDS IssueTail, FiniteSetTheorems, WellFoundedInduction, TLAPS

Shape == /\ newestFirst \in BOOLEAN /\ blind \in BOOLEAN
         /\ newest \in Nat
         /\ events \subseteq 1..newest
         /\ cursor \in {-1} \union 0..newest
         /\ pc \in {"idle", "page", "hydrate"}
         /\ start \in Nat
         /\ result \subseteq 1..newest

(* The changelog only grows, and needs no more than its pages. *)
Grows == ~newestFirst => events = 1..newest /\ pc # "hydrate"

(* What has been read, page by page. *)
Paged == pc = "page" =>
  IF newestFirst THEN Cardinality(result) = start /\ ~Overlaps(result)
  ELSE start <= newest /\ \E b \in 0..start : result = b + 1..start

(* What the tail leaves out is not above the cursor. *)
Reaches(found) == cursor > 0 =>
  \A e \in events, x \in found : e <= x => e <= cursor \/ e \in found

Ready == pc = "hydrate" /\ result \subseteq events => Reaches(result)

IInv == Shape /\ Grows /\ Paged /\ Ready /\ NothingOvertaken

-----------------------------------------------------------------------------
(* Numbers and finite sets.                                                *)

(* A set of naturals has a least one. *)
LEMMA Least ==
  ASSUME NEW T \in SUBSET Nat, T # {}
  PROVE  \E m \in T : \A k \in T : m <= k
<1> DEFINE R == OpToRel(<, Nat)
<1>1. IsWellFoundedOn(R, Nat)
  BY NatLessThanWellFounded
<1>2. \E x \in T : \A y \in T : ~ (<<y, x>> \in R)
  <2> HIDE DEF R
  <2>. QED BY <1>1, WFMin
<1>3. PICK x \in T : \A y \in T : ~ (<<y, x>> \in R)
  BY <1>2
<1>4. ASSUME NEW y \in T, y < x PROVE FALSE
  <2>1. <<y, x>> \in R
    BY <1>4 DEF OpToRel
  <2>. QED BY <2>1, <1>3
<1>5. \A k \in T : k \in Nat /\ x \in Nat
  OBVIOUS
<1>. QED BY <1>4, <1>5

(* A bounded set of numbers has a greatest one. *)
LEMMA Greatest ==
  ASSUME NEW n \in Nat, NEW T \in SUBSET (-1..n), T # {}
  PROVE  \E m \in T : \A k \in T : m >= k
<1> DEFINE D == {n - k : k \in T}
<1>1. D \in SUBSET Nat /\ D # {}
  <2>1. ASSUME NEW k \in T PROVE n - k \in Nat
    BY <2>1
  <2>2. PICK k \in T : TRUE
    OBVIOUS
  <2>3. n - k \in D
    BY <2>2
  <2>. QED BY <2>1, <2>3
<1>2. PICK d \in D : \A k \in D : d <= k
  <2> HIDE DEF D
  <2>. QED BY <1>1, Least
<1>3. PICK m \in T : d = n - m
  BY <1>2
<1>4. ASSUME NEW k \in T PROVE m >= k
  <2>1. n - k \in D
    BY <1>4
  <2>2. n - m <= n - k
    BY <2>1, <1>2, <1>3
  <2>. QED BY <2>2
<1>. QED BY <1>3, <1>4

(* So Max means what it says. *)
LEMMA MaxIsGreatest ==
  ASSUME NEW n \in Nat, NEW T \in SUBSET (-1..n), T # {}
  PROVE  Max(T) \in T /\ \A k \in T : Max(T) >= k
<1>1. \E m \in T : \A k \in T : m >= k
  BY Greatest
<1>. QED BY <1>1 DEF Max

(* And so does Min of two numbers. *)
LEMMA MinOfTwo ==
  ASSUME NEW a \in Int, NEW b \in Int
  PROVE  Min({a, b}) \in Int
<1>1. \E x \in {a, b} : \A y \in {a, b} : x =< y
  OBVIOUS
<1>. QED BY <1>1 DEF Min

(* The events above one. *)
Above(E, e) == {f \in E : f > e}

(* The events at some places, the highest first. *)
At(E, s, t) == {e \in E : Cardinality(Above(E, e)) \in s..t}

(* Events are numbers, and finitely many. *)
LEMMA Events ==
  ASSUME NEW n \in Nat, NEW E \in SUBSET (1..n)
  PROVE  /\ \A e \in E : e \in Nat /\ e <= n
         /\ \A S \in SUBSET E : IsFiniteSet(S) /\ Cardinality(S) \in Nat
         /\ \A e : Above(E, e) \in SUBSET E
<1>1. IsFiniteSet(1..n)
  BY FS_Interval
<1>2. IsFiniteSet(E)
  BY <1>1, FS_Subset
<1>3. ASSUME NEW S \in SUBSET E PROVE IsFiniteSet(S) /\ Cardinality(S) \in Nat
  BY <1>2, <1>3, FS_Subset, FS_CardinalityType
<1>4. \A e : Above(E, e) \in SUBSET E
  BY DEF Above
<1>5. \A e \in E : e \in Nat /\ e <= n
  OBVIOUS
<1>. QED BY <1>3, <1>4, <1>5

(* Fewer events are above a later one. *)
LEMMA Antitone ==
  ASSUME NEW n \in Nat, NEW E \in SUBSET (1..n), NEW a \in E, NEW b \in E, a < b
  PROVE  Cardinality(Above(E, b)) < Cardinality(Above(E, a))
<1>1. a \in Nat /\ b \in Nat /\ \A e \in E : e \in Nat
  BY Events
<1>2. IsFiniteSet(Above(E, a)) /\ IsFiniteSet(Above(E, b))
  BY Events
<1>3. b \notin Above(E, b)
  BY <1>1 DEF Above
<1>4. Cardinality(Above(E, b) \union {b}) = Cardinality(Above(E, b)) + 1
  BY <1>2, <1>3, FS_AddElement
<1>5. Above(E, b) \union {b} \subseteq Above(E, a)
  <2>1. ASSUME NEW f \in E, f > b PROVE f > a
    BY <1>1, <2>1
  <2>2. b > a
    BY <1>1
  <2>. QED BY <2>1, <2>2 DEF Above
<1>6. Cardinality(Above(E, b) \union {b}) <= Cardinality(Above(E, a))
  BY <1>2, <1>5, FS_Subset
<1>7. Cardinality(Above(E, a)) \in Nat /\ Cardinality(Above(E, b)) \in Nat
  BY Events
<1>. QED BY <1>4, <1>6, <1>7

(* As many events as there are places above the page, all of them above    *)
(* one of its events, fill those places.                                   *)
LEMMA NoGap ==
  ASSUME NEW n \in Nat, NEW E \in SUBSET (1..n), NEW s \in Nat, NEW t \in Int,
         NEW R \in SUBSET E, Cardinality(R) = s, R \intersect At(E, s, t) = {},
         NEW c \in At(E, s, t), \A r \in R : r > c,
         NEW h \in E, h > c
  PROVE  h \in R \union At(E, s, t)
<1> DEFINE Q == At(E, s, t)
<1>1. Q = {e \in E : Cardinality(Above(E, e)) \in s..t}
  BY DEF At
<1> HIDE DEF Q
<1> DEFINE P(e) == Cardinality(Above(E, e))
<1>2. R \intersect Q = {} /\ c \in Q
  BY DEF Q
<1>3. SUFFICES ASSUME h \notin R, h \notin Q PROVE FALSE
  BY DEF Q
<1>4. IsFiniteSet(R) /\ \A e : IsFiniteSet(Above(E, e))
  BY Events
<1>5. \A e : P(e) \in Nat
  BY Events
<1>6. \A e \in E : e \in Nat /\ e <= n
  BY Events
<1>7. \A a, b \in E : a < b => P(b) < P(a)
  BY Antitone
<1>8. c \in E /\ P(c) <= t
  BY <1>5, <1>1, <1>2
<1>9. ASSUME NEW r \in R \union {h} PROVE P(r) < s
  <2>1. r \in E /\ r > c /\ r \notin Q
    BY <1>3, <1>2
  <2>2. P(r) < P(c)
    BY <2>1, <1>7, <1>8
  <2>. QED BY <2>1, <2>2, <1>5, <1>8, <1>1
<1>10. PICK p \in Q : \A k \in Q : p >= k
  <2>1. ASSUME NEW k \in Q PROVE k \in -1..n
    <3>1. k \in E
      BY <1>1
    <3>. QED BY <1>6, <3>1
  <2>2. Q \in SUBSET (-1..n) /\ Q # {}
    BY <2>1, <1>2
  <2>. QED BY <2>2, Greatest
<1>11. p \in E /\ P(p) >= s /\ P(p) <= t
  BY <1>10, <1>1
<1>12. R \union {h} \subseteq Above(E, p)
  <2>1. ASSUME NEW r \in R \union {h} PROVE r > p
    <3>1. r \in E /\ P(r) < P(p)
      BY <1>9, <1>11, <1>5
    <3>2. ~(r < p) /\ r # p
      BY <3>1, <1>5, <1>7, <1>11
    <3>. QED BY <3>1, <3>2, <1>11
  <2>. QED BY <2>1 DEF Above
<1>13. P(p) >= s + 1
  <2>1. Cardinality(R \union {h}) = s + 1
    BY <1>3, <1>4, FS_AddElement
  <2>2. Cardinality(R \union {h}) <= P(p)
    BY <1>4, <1>12, FS_Subset
  <2>. QED BY <2>1, <2>2
<1>14. PICK q \in Above(E, p) : \A k \in Above(E, p) : q <= k
  <2>1. Above(E, p) \in SUBSET Nat /\ Above(E, p) # {}
    BY <1>6, <1>12 DEF Above
  <2>. QED BY <2>1, Least
<1>15. q \in E /\ q > p
  BY <1>14 DEF Above
<1>16. Above(E, p) = Above(E, q) \union {q} /\ q \notin Above(E, q)
  <2>1. \A f \in Above(E, p) : f = q \/ f > q
    BY <1>6, <1>14, <1>15 DEF Above
  <2>2. \A f \in E : f > q => f > p
    BY <1>6, <1>15, <1>11
  <2>3. Above(E, p) \subseteq Above(E, q) \union {q}
    BY <2>1 DEF Above
  <2>4. Above(E, q) \subseteq Above(E, p)
    BY <2>2 DEF Above
  <2>5. q \notin Above(E, q)
    BY <1>6, <1>15 DEF Above
  <2>. QED BY <1>14, <2>3, <2>4, <2>5
<1>17. P(p) = P(q) + 1
  BY <1>4, <1>16, FS_AddElement
<1>18. q \in Q
  BY <1>5, <1>11, <1>13, <1>15, <1>17, <1>1
<1>. QED BY <1>10, <1>11, <1>15, <1>18

-----------------------------------------------------------------------------
(* Pages.                                                                  *)

(* A page is what is at some places, from start on. *)
LEMMA PageShape ==
  ASSUME Shape, NEW page \in Pages
  PROVE  \E t \in Int : page = {e \in events : Place(e) \in start..t}
<1> DEFINE room == Min({PageSize, MaxItems - Cardinality(result)})
<1>1. Cardinality(result) \in Nat
  BY Events DEF Shape
<1>2. MaxItems - Cardinality(result) \in Int /\ PageSize \in Int
  BY <1>1, TailAssumption
<1>3. room \in Int
  BY <1>2, MinOfTwo
<1>4. ASSUME NEW z \in Int, page = {e \in events : Place(e) \in start..z - 1}
      PROVE  \E t \in Int : page = {e \in events : Place(e) \in start..t}
  <2>1. z - 1 \in Int
    OBVIOUS
  <2>. QED BY <1>4, <2>1
<1>5. PICK z \in IF ShortPages THEN start + 1..start + room ELSE {start + room} :
            page = {e \in events : Place(e) \in start..z - 1}
  BY DEF Pages
<1>6. z \in Int
  <2> HIDE DEF room
  <2>. QED BY <1>3, <1>5 DEF Shape
<1>. QED BY <1>4, <1>5, <1>6

(* Of comments: a page that reaches the cursor leaves nothing out. *)
LEMMA CommentsReach ==
  ASSUME IInv, newestFirst, pc = "page", NEW page \in Pages,
         page \intersect result = {},
         Covered(result \union page, start + Cardinality(page)),
         result \union page \subseteq events
  PROVE  Reaches(result \union page)
<1>1. Shape /\ Cardinality(result) = start /\ ~Overlaps(result)
  BY DEF IInv, Paged
<1>2. PICK t \in Int : page = {e \in events : Place(e) \in start..t}
  BY <1>1, PageShape
<1>3. page = At(events, start, t) /\ page \in SUBSET events
  BY <1>2 DEF Place, Above, At
<1>4. newest \in Nat /\ events \in SUBSET (1..newest) /\ start \in Nat
      /\ result \in SUBSET (1..newest) /\ cursor \in Int
  BY <1>1 DEF Shape
<1>5. CASE cursor > 0 /\ Overlaps(result \union page)
  <2>1. PICK c \in page : c <= cursor
    BY <1>1, <1>5 DEF Overlaps
  <2>2. \A r \in result : r > c
    BY <1>1, <1>4, <2>1, <1>3 DEF Overlaps
  <2>3. ASSUME NEW e \in events, e > cursor PROVE e \in result \union page
    <3>1. e > c
      BY <2>1, <2>3, <1>3, <1>4
    <3>2. result \in SUBSET events
      OBVIOUS
    <3>3. Cardinality(result) = start /\ result \intersect page = {}
      BY <1>1
    <3>4. start \in Nat /\ newest \in Nat /\ events \in SUBSET (1..newest) /\ c \in At(events, start, t)
          /\ result \intersect At(events, start, t) = {}
      BY <1>3, <1>4, <2>1, <3>3
    <3>5. e \in result \union At(events, start, t)
      BY <2>2, <3>1, <3>2, <3>3, <3>4, NoGap
    <3>. QED BY <1>3, <3>5
  <2>. QED BY <1>4, <2>3 DEF Reaches
<1>6. CASE start = 0 /\ start + Cardinality(page) = Cardinality(events)
  <2>1. IsFiniteSet(events) /\ events \in SUBSET events
    BY <1>4, Events
  <2>2. page \in SUBSET events
    BY <1>3
  <2>3. Cardinality(page) \in Nat /\ Cardinality(events) \in Nat
    BY <1>4, <2>1, <2>2, Events
  <2>4. Cardinality(page) = Cardinality(events)
    BY <1>6, <2>3
  <2>5. page = events
    BY <2>1, <2>2, <2>4, FS_Subset
  <2>. QED BY <2>5 DEF Reaches
<1>. QED BY <1>4, <1>5, <1>6 DEF Covered, Reaches

(* Of the changelog: a page is the next interval. *)
LEMMA ChangelogPage ==
  ASSUME IInv, ~newestFirst, pc = "page", NEW page \in Pages
  PROVE  LET end == start + Cardinality(page)
         IN end \in start..newest /\ page = start + 1..end
<1>1. Shape /\ events = 1..newest /\ newest \in Nat /\ start \in Nat /\ start <= newest
  BY DEF IInv, Shape, Grows, Paged
<1>2. PICK t \in Int : page = {e \in events : Place(e) \in start..t}
  BY <1>1, PageShape
<1>3. ASSUME NEW e \in events PROVE Place(e) = e - 1
  <2>1. e \in Nat /\ e <= newest /\ e >= 1
    BY <1>1, <1>3
  <2>2. {f \in events : f < e} = 1..e - 1
    BY <1>1, <2>1
  <2>3. Place(e) = Cardinality(1..e - 1)
    BY <2>2 DEF Place
  <2>. QED BY <2>1, <2>3, FS_Interval
<1>4. page = {e \in events : e - 1 \in start..t}
  BY <1>2, <1>3
<1>5. CASE t < start
  <2>1. page = {} /\ start + 1..start = {}
    BY <1>1, <1>4, <1>5
  <2>. QED BY <1>1, <2>1, FS_EmptySet
<1>6. ASSUME NEW u \in start..newest, page = start + 1..u
      PROVE  u = start + Cardinality(page)
  <2>1. start + 1 \in Int /\ u \in Int /\ start + 1 > u <=> u = start
    BY <1>1
  <2>2. Cardinality(start + 1..u) = IF start + 1 > u THEN 0 ELSE u - (start + 1) + 1
    BY <1>1, <2>1, FS_Interval
  <2>. QED BY <1>1, <1>6, <2>1, <2>2
<1>7. CASE t >= start /\ t + 1 <= newest
  <2>1. page = start + 1..t + 1 /\ t + 1 \in start..newest
    BY <1>1, <1>4, <1>7
  <2>. QED BY <2>1, <1>6
<1>8. CASE t >= start /\ t + 1 > newest
  <2>1. page = start + 1..newest /\ newest \in start..newest
    BY <1>1, <1>4, <1>8
  <2>. QED BY <2>1, <1>6
<1>. QED BY <1>1, <1>5, <1>7, <1>8

(* ... and a tail that reaches the cursor, or begins at the first, is whole. *)
LEMMA ChangelogReach ==
  ASSUME IInv, ~newestFirst, pc = "page", NEW page \in Pages,
         Covered(result \union page, start + Cardinality(page))
  PROVE  Reaches(result \union page)
<1>1. newest \in Nat /\ events = 1..newest /\ start \in Nat /\ cursor \in Int
  BY DEF IInv, Shape, Grows
<1>2. PICK b \in 0..start : result = b + 1..start
  BY DEF IInv, Paged
<1>3. PICK u \in start..newest : u = start + Cardinality(page) /\ page = start + 1..u
  BY ChangelogPage
<1>4. result \union page = b + 1..u
  <2>1. b \in Nat /\ u \in Nat /\ b <= start /\ start <= u
    BY <1>1, <1>2, <1>3
  <2>2. \A e : e \in b + 1..start \/ e \in start + 1..u <=> e \in b + 1..u
    BY <1>1, <2>1
  <2>. QED BY <1>2, <1>3, <2>2
<1>5. CASE Overlaps(result \union page)
  <2>1. PICK c \in b + 1..u : c <= cursor
    BY <1>4, <1>5 DEF Overlaps
  <2>2. ASSUME NEW e \in events, NEW x \in b + 1..u, e <= x, e > cursor
        PROVE  e \in b + 1..u
    BY <1>1, <1>2, <1>3, <2>1, <2>2
  <2>. QED BY <1>1, <1>4, <2>2 DEF Reaches
<1>6. CASE start = 0 /\ start + Cardinality(page) = Cardinality(events)
  <2>1. Cardinality(events) = newest
    BY <1>1, FS_Interval
  <2>2. b = 0 /\ u = newest
    BY <1>2, <1>3, <1>6, <2>1
  <2>. QED BY <1>1, <1>4, <2>2 DEF Reaches
<1>. QED BY <1>1, <1>5, <1>6 DEF Covered, Reaches

-----------------------------------------------------------------------------
(* Steps.                                                                  *)

(* What a read returns moves the cursor, and overtakes nothing. *)
LEMMA ReturnsAll ==
  ASSUME Shape, NothingOvertaken, UNCHANGED jira,
         NEW found \in SUBSET (1..newest), Reaches(found), Returns(found)
  PROVE  cursor' \in 0..newest /\ NothingOvertaken'
<1> DEFINE T == found \union {cursor, 0}
<1>1. newest \in Nat /\ events \subseteq 1..newest /\ cursor \in {-1} \union 0..newest
  BY DEF Shape
<1>2. events' = events /\ newest' = newest
  BY DEF jira
<1>3. cursor' \in T /\ \A k \in T : cursor' >= k
  <2>1. T \in SUBSET (-1..newest) /\ T # {}
    BY <1>1
  <2>2. cursor' = Max(T)
    BY DEF Returns
  <2> HIDE DEF T
  <2>. QED BY <1>1, <2>1, <2>2, MaxIsGreatest
<1>4. cursor' \in 0..newest
  BY <1>1, <1>3
<1>5. CASE cursor = -1
  <2>1. 1..cursor' \subseteq delivered'
    BY <1>5 DEF Returns
  <2>. QED BY <1>1, <1>2, <1>4, <2>1 DEF NothingOvertaken
<1>6. CASE cursor = 0
  <2>1. ~blind' => events \subseteq found
    BY <1>6 DEF Returns
  <2>2. {e \in found : e > 0} \subseteq delivered'
    BY <1>6 DEF Returns
  <2>3. \A e \in events : e > 0
    BY <1>1
  <2>. QED BY <1>2, <1>4, <2>1, <2>2, <2>3 DEF NothingOvertaken
<1>7. CASE cursor > 0
  <2>1. delivered' = delivered \union {e \in found : e > cursor} /\ blind' = blind
    BY <1>1, <1>7 DEF Returns, Shape
  <2>2. ASSUME NEW e \in events, e <= cursor', e > cursor PROVE e \in found
    <3>1. cursor' \in found
      BY <1>1, <1>3, <1>7, <2>2
    <3>. QED BY <1>1, <1>7, <2>2, <3>1 DEF Reaches
  <2>3. ASSUME ~blind', NEW e \in events, e <= cursor' PROVE e \in delivered'
    BY <1>1, <2>1, <2>2, <2>3 DEF NothingOvertaken
  <2>. QED BY <1>2, <1>4, <2>3 DEF NothingOvertaken
<1>. QED BY <1>1, <1>4, <1>5, <1>6, <1>7

(* An event is added, which is newer than all there were. *)
LEMMA AddStep ==
  ASSUME IInv, Add
  PROVE  IInv'
<1>1. Shape /\ newest \in Nat /\ events \subseteq 1..newest /\ cursor \in {-1} \union 0..newest
      /\ result \subseteq 1..newest /\ start \in Nat
  BY DEF IInv, Shape
<1>2. newest' = newest + 1 /\ events' = events \union {newest + 1}
      /\ UNCHANGED <<newestFirst, cursor, pc, start, result, delivered, blind>>
  BY DEF Add, reader
<1>3. Shape'
  BY <1>1, <1>2 DEF Shape
<1>4. Grows'
  BY <1>1, <1>2 DEF IInv, Grows
<1>5. Paged'
  BY <1>1, <1>2 DEF IInv, Paged, Overlaps
<1>6. Ready'
  <2>1. ASSUME NEW x \in result PROVE x <= newest
    BY <1>1, <2>1
  <2>2. ASSUME result \subseteq events', pc = "hydrate" PROVE Reaches(result)
    BY <1>1, <1>2, <2>1, <2>2 DEF IInv, Ready
  <2>3. ASSUME NEW e \in events', NEW x \in result, e <= x PROVE e \in events
    BY <1>1, <1>2, <2>1, <2>3
  <2>. QED BY <1>2, <2>2, <2>3 DEF Ready, Reaches
<1>7. NothingOvertaken'
  BY <1>1, <1>2 DEF IInv, NothingOvertaken
<1>. QED BY <1>3, <1>4, <1>5, <1>6, <1>7 DEF IInv

(* A comment is deleted. *)
LEMMA DeleteStep ==
  ASSUME IInv, NEW d \in events, Delete(d)
  PROVE  IInv'
<1>1. newestFirst /\ events' = events \ {d}
      /\ UNCHANGED <<newestFirst, newest, cursor, pc, start, result, delivered, blind>>
  BY DEF Delete, reader
<1>2. Shape'
  BY <1>1 DEF IInv, Shape
<1>3. Grows'
  BY <1>1 DEF IInv, Grows
<1>4. Paged'
  BY <1>1 DEF IInv, Paged, Overlaps
<1>5. Ready'
  BY <1>1 DEF IInv, Ready, Reaches
<1>6. NothingOvertaken'
  BY <1>1 DEF IInv, NothingOvertaken
<1>. QED BY <1>2, <1>3, <1>4, <1>5, <1>6 DEF IInv

(* A read that ends without events, or begins. *)
LEMMA IdleStep ==
  ASSUME IInv, UNCHANGED <<newestFirst, events, newest, cursor, delivered, blind>>,
         pc' \in {"idle", "page"}, start' \in Nat, result' \subseteq 1..newest, Paged'
  PROVE  IInv'
BY DEF IInv, Shape, Grows, Ready, NothingOvertaken

(* One page. *)
LEMMA ReadStep ==
  ASSUME IInv, Read
  PROVE  IInv'
<1>1. PICK page \in Pages : ReadPage(page)
  BY DEF Read
<1> DEFINE end == start + Cardinality(page)
           found == result \union page
<1>2. pc = "page" /\ UNCHANGED <<newestFirst, events, newest>>
  BY DEF Read, jira
<1>3. Shape /\ newest \in Nat /\ start \in Nat /\ events \in SUBSET (1..newest)
      /\ result \in SUBSET (1..newest)
  BY DEF IInv, Shape
<1>4. page \in SUBSET events /\ found \in SUBSET (1..newest)
  BY <1>3, PageShape
<1>5. CASE Fails
  BY <1>2, <1>3, <1>5, IdleStep DEF Fails, Paged
<1>6. CASE Jumps /\ Jump
  <2>1. ~newestFirst /\ Cardinality(events) > MaxItems /\ total' = Cardinality(events)
        /\ start' = Cardinality(events) - MaxItems /\ result' = {}
        /\ UNCHANGED <<pc, cursor, delivered, blind>>
    BY <1>6 DEF Jumps, Jump
  <2>2. Cardinality(events) = newest
    BY <1>3, <2>1, FS_Interval DEF IInv, Grows
  <2>3. start' \in 0..newest
    BY <1>3, <2>1, <2>2, TailAssumption
  <2>4. result' = start' + 1..start'
    BY <2>1, <2>3
  <2>5. Paged'
    BY <1>2, <1>3, <2>1, <2>3, <2>4 DEF Paged
  <2>. QED BY <1>2, <1>3, <2>1, <2>3, <2>5, IdleStep
<1>7. CASE ~Broken(page) /\ ~Enough(found, end) /\ GoOn(found, end)
  <2>1. start' = end /\ result' = found /\ UNCHANGED <<pc, cursor, delivered, blind>>
    BY <1>7 DEF GoOn
  <2>2. Cardinality(page) \in Nat /\ IsFiniteSet(page) /\ IsFiniteSet(result)
    BY <1>3, <1>4, Events
  <2>3. end \in Nat
    BY <1>3, <2>2
  <2>4. CASE newestFirst
    <3>1. ~Overlaps(found)
      BY <1>7, <2>4 DEF Enough
    <3>2. Cardinality(found) = end
      <4>1. Cardinality(result) = start /\ result \intersect page = {}
        BY <1>2, <1>7, <2>4 DEF IInv, Paged, Broken
      <4>2. Cardinality(found) = Cardinality(result) + Cardinality(page)
                                 - Cardinality(result \intersect page)
        BY <2>2, FS_Union
      <4>3. Cardinality(result \intersect page) = 0
        BY <4>1, FS_EmptySet
      <4>. QED BY <1>3, <2>2, <4>1, <4>2, <4>3
    <3>3. Paged'
      BY <1>2, <2>1, <2>4, <3>1, <3>2 DEF Paged, Overlaps
    <3>. QED BY <1>2, <1>4, <2>1, <2>3, <3>3, IdleStep
  <2>5. CASE ~newestFirst
    <3>1. end \in start..newest /\ page = start + 1..end
      BY <1>2, <2>5, ChangelogPage
    <3>2. PICK b \in 0..start : result = b + 1..start
      BY <1>2, <2>5 DEF IInv, Paged
    <3>3. found = b + 1..end /\ b \in 0..end
      BY <1>3, <3>1, <3>2
    <3>4. Paged'
      BY <1>2, <1>3, <2>1, <2>5, <3>1, <3>3 DEF Paged
    <3>. QED BY <1>2, <1>4, <2>1, <2>3, <3>4, IdleStep
  <2>. QED BY <2>4, <2>5
<1>8. CASE newestFirst /\ ~Broken(page) /\ Covered(found, end) /\ ToHydrate(found)
  <2>1. pc' = "hydrate" /\ result' = found
        /\ UNCHANGED <<start, cursor, delivered, blind>>
    BY <1>8 DEF ToHydrate
  <2>2. found \subseteq events => Reaches(found)
    BY <1>2, <1>8, CommentsReach DEF Broken
  <2>3. Shape' /\ Grows' /\ Paged'
    BY <1>2, <1>3, <1>4, <1>8, <2>1 DEF Shape, Grows, Paged
  <2>4. Ready'
    BY <1>2, <2>1, <2>2 DEF Ready, Reaches
  <2>5. NothingOvertaken'
    BY <1>2, <2>1 DEF IInv, NothingOvertaken
  <2>. QED BY <2>3, <2>4, <2>5 DEF IInv
<1>9. CASE ~newestFirst /\ Covered(found, end) /\ Returns(found)
  <2>1. Reaches(found)
    BY <1>2, <1>9, ChangelogReach
  <2>2. cursor' \in 0..newest /\ NothingOvertaken'
    BY <1>2, <1>3, <1>4, <1>9, <2>1, ReturnsAll DEF IInv, jira
  <2>3. pc' = "idle" /\ result' = found /\ start' = start /\ blind' \in BOOLEAN
    BY <1>3, <1>9 DEF Returns, Shape
  <2>4. Shape' /\ Grows' /\ Paged' /\ Ready'
    BY <1>2, <1>3, <1>4, <1>9, <2>2, <2>3 DEF IInv, Shape, Grows, Paged, Ready
  <2>. QED BY <2>2, <2>4 DEF IInv
<1>. QED BY <1>1, <1>5, <1>6, <1>7, <1>8, <1>9 DEF ReadPage

(* The properties of the comments. *)
LEMMA HydrateStep ==
  ASSUME IInv, Hydrate
  PROVE  IInv'
<1>1. pc = "hydrate" /\ UNCHANGED <<newestFirst, events, newest>>
  BY DEF Hydrate, jira
<1>2. Shape /\ result \in SUBSET (1..newest) /\ start \in Nat
  BY DEF IInv, Shape
<1>3. CASE Fails
  BY <1>1, <1>2, <1>3, IdleStep DEF Fails, Paged
<1>4. CASE result \subseteq events /\ Returns(result)
  <2>1. Reaches(result)
    BY <1>1, <1>4 DEF IInv, Ready
  <2>2. cursor' \in 0..newest /\ NothingOvertaken'
    BY <1>1, <1>2, <1>4, <2>1, ReturnsAll DEF IInv, jira
  <2>3. pc' = "idle" /\ result' = result /\ start' = start /\ blind' \in BOOLEAN
    BY <1>2, <1>4 DEF Returns, Shape
  <2>4. Shape' /\ Grows' /\ Paged' /\ Ready'
    BY <1>1, <1>2, <2>2, <2>3 DEF IInv, Shape, Grows, Paged, Ready
  <2>. QED BY <2>2, <2>4 DEF IInv
<1>. QED BY <1>3, <1>4 DEF Hydrate

-----------------------------------------------------------------------------
(* The invariant: what is read, what it leaves out, what was overtaken.    *)
THEOREM Invariant == Spec => []IInv
<1>1. Init => IInv
  <2>1. ASSUME Init PROVE Shape /\ Grows
    <3>1. newest \in Nat
      BY <2>1, TailAssumption DEF Init
    <3>2. cursor \in {-1} \union 0..newest
      BY <2>1, <3>1 DEF Init
    <3>. QED BY <2>1, <3>1, <3>2 DEF Init, Shape, Grows
  <2>2. ASSUME Init PROVE NothingOvertaken
    BY <2>2, TailAssumption DEF Init, NothingOvertaken
  <2>. QED BY <2>1, <2>2 DEF Init, IInv, Paged, Ready
<1>2. ASSUME IInv, [Next]_vars PROVE IInv'
  <2>1. CASE Start
    <3>1. pc' = "page" /\ start' = 0 /\ result' = {}
          /\ UNCHANGED <<newestFirst, events, newest, cursor, delivered, blind>>
      BY <2>1 DEF Start, jira
    <3>2. newest \in Nat
      BY <1>2 DEF IInv, Shape
    <3>3. 0 \in 0..0 /\ 0 + 1..0 = {}
      OBVIOUS
    <3>4. Paged'
      BY <3>1, <3>2, <3>3, FS_EmptySet DEF Paged, Overlaps
    <3>. QED BY <1>2, <3>1, <3>4, IdleStep
  <2>2. CASE UNCHANGED vars
    BY <1>2, <2>2 DEF IInv, Shape, Grows, Paged, Ready, Reaches, NothingOvertaken,
       Overlaps, vars, jira, reader
  <2>. QED BY <1>2, <2>1, <2>2, ReadStep, HydrateStep, AddStep, DeleteStep DEF Next
<1>. QED BY <1>1, <1>2, PTL DEF Spec

(* No event is overtaken by the cursor, however the pages shift while they *)
(* are read: one that is on the issue and not above the cursor was         *)
(* returned by some read (jira.py:130-193).                                *)
THEOREM NoneOvertaken == Spec => []NothingOvertaken
<1>. QED BY Invariant, PTL DEF IInv
-----------------------------------------------------------------------------
(* A read is whole.                                                        *)

(* What is returned, and reaches the cursor, is all between the cursors. *)
LEMMA ReturnsWhole ==
  ASSUME Shape, UNCHANGED jira, NEW found \in SUBSET (1..newest),
         Reaches(found), Returns(found), cursor >= 0, ~blind',
         NEW e \in events', cursor < e, e <= cursor'
  PROVE  e \in result'
<1> DEFINE T == found \union {cursor, 0}
<1>1. newest \in Nat /\ events \subseteq 1..newest /\ cursor \in {-1} \union 0..newest
  BY DEF Shape
<1>2. events' = events /\ result' = found
  BY DEF jira, Returns
<1>3. cursor' \in T
  <2>1. T \in SUBSET (-1..newest) /\ T # {}
    BY <1>1
  <2>2. cursor' = Max(T)
    BY DEF Returns
  <2> HIDE DEF T
  <2>. QED BY <1>1, <2>1, <2>2, MaxIsGreatest
<1>4. CASE cursor = 0
  BY <1>2, <1>4 DEF Returns
<1>5. CASE cursor > 0
  <2>1. cursor' \in found
    BY <1>1, <1>2, <1>3, <1>5
  <2>. QED BY <1>1, <1>2, <1>5, <2>1 DEF Reaches
<1>. QED BY <1>1, <1>4, <1>5

(* Only the end of a read moves the cursor: of the changelog the last page, *)
(* of comments the read of their properties.                               *)
LEMMA WhatMovesTheCursor ==
  ASSUME IInv, [Next]_vars, cursor' # cursor
  PROVE  /\ UNCHANGED jira
         /\ \E found \in SUBSET (1..newest) : Reaches(found) /\ Returns(found)
<1>1. CASE Start \/ Add \/ (\E e \in events : Delete(e)) \/ UNCHANGED vars
  BY <1>1 DEF Start, Add, Delete, vars
<1>2. CASE Read
  <2>1. PICK page \in Pages : ReadPage(page)
    BY <1>2 DEF Read
  <2> DEFINE end == start + Cardinality(page)
             found == result \union page
  <2>2. pc = "page" /\ UNCHANGED jira
    BY <1>2 DEF Read
  <2>3. ~newestFirst /\ Covered(found, end) /\ Returns(found)
    BY <2>1 DEF ReadPage, Fails, Jump, GoOn, ToHydrate
  <2>4. Reaches(found)
    BY <2>2, <2>3, ChangelogReach
  <2>5. found \in SUBSET (1..newest)
    <3>1. newest \in Nat /\ start \in Nat /\ events \in SUBSET (1..newest)
          /\ result \in SUBSET (1..newest)
      BY DEF IInv, Shape
    <3>2. page \in SUBSET events
      BY <3>1, PageShape DEF IInv
    <3>. QED BY <3>1, <3>2
  <2>. QED BY <2>2, <2>3, <2>4, <2>5
<1>3. CASE Hydrate
  <2>1. pc = "hydrate" /\ UNCHANGED jira /\ result \subseteq events /\ Returns(result)
    BY <1>3 DEF Hydrate, Fails
  <2>2. Reaches(result) /\ result \in SUBSET (1..newest)
    BY <2>1 DEF IInv, Ready, Shape
  <2>. QED BY <2>1, <2>2
<1>. QED BY <1>1, <1>2, <1>3 DEF Next

(* A read that moves the cursor gives every event that is on the issue then *)
(* between the old cursor and the new one, so that it can be taken for one *)
(* step, as JiraUpdates.tla does (jira.py:130-193).                        *)
THEOREM ReadsWhole == Spec => ReadsAreWhole
<1>1. ASSUME IInv, [Next]_vars
      PROVE  [ cursor >= 0 /\ cursor' # cursor /\ ~blind' =>
                 \A e \in events' : cursor < e /\ e <= cursor' => e \in result' ]_vars
  <2>1. ASSUME cursor >= 0, cursor' # cursor, ~blind',
               NEW e \in events', cursor < e, e <= cursor'
        PROVE  e \in result'
    <3>1. UNCHANGED jira /\ \E found \in SUBSET (1..newest) : Reaches(found) /\ Returns(found)
      BY <1>1, <2>1, WhatMovesTheCursor
    <3>2. Shape
      BY <1>1 DEF IInv
    <3>. QED BY <2>1, <3>1, <3>2, ReturnsWhole
  <2>. QED BY <2>1
<1>. QED BY <1>1, Invariant, PTL DEF Spec, ReadsAreWhole
=============================================================================
