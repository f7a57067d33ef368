------------------------- MODULE PointsServerProofs -------------------------
(***************************************************************************)
(* The numbers of an object's points, for any number of requests and       *)
(* retries: AddPoints numbers from 0 without a gap, and what handlers hold  *)
(* for an object that goes never reaches the table.                         *)
(***************************************************************************)
EXTENDS JourneyServerProofs, WellFoundedInduction

-----------------------------------------------------------------------------
(* Counting the elements below a number. *)

\* A set of naturals with an element has a least one.
LEMMA LeastNat ==
    ASSUME NEW T \in SUBSET Nat, T # {}
    PROVE  \E x \in T : \A y \in T : x <= y
<1>1. PICK x \in T : \A y \in T : ~ (<<y, x>> \in OpToRel(<, Nat))
  BY NatLessThanWellFounded, WFMin
<1>2. \A y \in T : ~ (y < x)
  BY <1>1 DEF OpToRel
<1> QED
  BY <1>2

\* A bounded set of naturals with an element has a greatest one.
LEMMA GreatestNat ==
    ASSUME NEW T \in SUBSET Nat, T # {}, NEW b \in Nat, \A y \in T : y <= b
    PROVE  \E x \in T : \A y \in T : y <= x
<1> DEFINE Bounds == {c \in Nat : \A y \in T : y <= c}
<1>1. PICK c \in Bounds : \A d \in Bounds : c <= d
  <2>1. Bounds \in SUBSET Nat /\ b \in Bounds
    OBVIOUS
  <2> HIDE DEF Bounds
  <2> QED
    BY <2>1, LeastNat
<1>2. c \in T
  <2> SUFFICES ASSUME c \notin T PROVE FALSE
    OBVIOUS
  <2>1. \A y \in T : y <= c - 1 /\ c - 1 \in Nat
    BY <1>1
  <2>2. c - 1 \in Bounds
    BY <2>1
  <2> QED
    BY <1>1, <2>2
<1> QED
  BY <1>1, <1>2

\* How many of a set are below i.
Below(kept, i) == {k \in kept : k < i}

\* Where there are n + 1 or more elements below one, another has n below it.
LEMMA BelowHasNoGap ==
    ASSUME NEW top \in Nat, NEW kept \in SUBSET (1..top), NEW i \in kept,
           NEW n \in Nat, n <= Cardinality(Below(kept, i))
    PROVE  \E j \in kept : Cardinality(Below(kept, j)) = n
<1> DEFINE T == {j \in kept : Cardinality(Below(kept, j)) >= n}
<1>1. ASSUME NEW j \in kept
      PROVE  IsFiniteSet(Below(kept, j)) /\ Cardinality(Below(kept, j)) \in Nat
  <2>1. Below(kept, j) \subseteq 1..top
    BY DEF Below
  <2>2. IsFiniteSet(1..top)
    BY FS_Interval
  <2> QED
    BY <2>1, <2>2, FS_Subset, FS_CardinalityType
<1>2. PICK j \in T : \A k \in T : j <= k
  <2>1. Cardinality(Below(kept, i)) \in Nat
    BY <1>1
  <2>2. i \in T
    BY <2>1
  <2>3. T \in SUBSET Nat
    <3>1. kept \subseteq Nat
      OBVIOUS
    <3>2. T \subseteq kept
      OBVIOUS
    <3> QED
      BY <3>1, <3>2, Zenon
  <2> HIDE DEF T
  <2> QED
    BY <2>2, <2>3, LeastNat
<1>n. j \in Nat /\ \A k \in kept : k \in Nat /\ k <= top
  OBVIOUS
<1>3. CASE Below(kept, j) = {}
  <2>1. Cardinality(Below(kept, j)) = 0
    BY <1>3, FS_EmptySet
  <2> QED
    BY <1>2, <2>1
<1>4. CASE Below(kept, j) # {}
  <2>1. PICK m \in Below(kept, j) : \A y \in Below(kept, j) : y <= m
    <3>1. Below(kept, j) \in SUBSET Nat
      BY <1>n DEF Below
    <3>2. \A y \in Below(kept, j) : y <= top
      BY <1>n DEF Below
    <3> QED
      BY <1>4, <3>1, <3>2, GreatestNat
  <2>2. /\ m \in kept /\ m < j /\ m \notin Below(kept, m)
        /\ Below(kept, j) = Below(kept, m) \cup {m}
    <3>1. m \in kept /\ m < j /\ m \in Nat
      BY <1>n DEF Below
    <3>2. \A y \in kept : y < j <=> y < m \/ y = m
      BY <1>n, <2>1, <3>1 DEF Below
    <3>3. ~ (m < m)
      BY <3>1
    <3>4. Below(kept, j) \subseteq Below(kept, m) \cup {m}
      BY <3>2, Zenon DEF Below
    <3>5. Below(kept, m) \cup {m} \subseteq Below(kept, j)
      BY <3>1, <3>2, Zenon DEF Below
    <3> QED
      BY <3>1, <3>3, <3>4, <3>5, Zenon DEF Below
  <2>3. Cardinality(Below(kept, j)) = Cardinality(Below(kept, m)) + 1
    <3>1. IsFiniteSet(Below(kept, m))
      BY <1>1, <2>2
    <3> QED
      BY <2>2, <3>1, FS_AddElement
  <2>4. ~ (Cardinality(Below(kept, m)) >= n)
    BY <1>2, <2>2
  <2>5. Cardinality(Below(kept, j)) >= n /\ Cardinality(Below(kept, m)) \in Nat
    BY <1>1, <1>2, <2>2
  <2> QED
    BY <1>2, <2>3, <2>4, <2>5
<1> QED
  BY <1>3, <1>4

-----------------------------------------------------------------------------
(* Points without gaps. *)

\* With a point there are those of its object with every lower number.
Gapless(S) ==
    \A p \in S : \A n \in 0..p.order : \E q \in S : q.object = p.object /\ q.order = n

\* Nothing else is asked of two sets of points to be put together.
LEMMA GaplessUnion ==
    ASSUME NEW S, NEW T, Gapless(S), Gapless(T)
    PROVE  Gapless(S \cup T)
<1>1. ASSUME NEW p \in S \cup T, NEW n \in 0..p.order
      PROVE  \E q \in S \cup T : q.object = p.object /\ q.order = n
  <2>1. (\E q \in S : q.object = p.object /\ q.order = n)
        \/ (\E q \in T : q.object = p.object /\ q.order = n)
    BY <1>1, Zenon DEF Gapless
  <2> QED
    BY <2>1
<1> QED
  BY <1>1 DEF Gapless

\* AddPoints numbers the points it makes, all of one object, from 0.
LEMMA AddPointsGapless ==
    ASSUME NEW o \in Object, NEW list \in PointLists, NEW kept \in SUBSET (DOMAIN list)
    PROVE  /\ Gapless(AddPoints(o, list, kept))
           /\ \A p \in AddPoints(o, list, kept) : p.object = o
<1>1. list \in Seq(Coord)
  BY BoundsAssumption
<1>2. Len(list) \in Nat /\ kept \in SUBSET (1..Len(list))
  BY <1>1
<1> DEFINE PointAt(i) == [object |-> o, order |-> Cardinality(Below(kept, i)), at |-> list[i]]
<1>3. AddPoints(o, list, kept) = {PointAt(i) : i \in kept}
  BY DEF AddPoints, Below
<1>4. ASSUME NEW p \in AddPoints(o, list, kept), NEW n \in 0..p.order
      PROVE  \E q \in AddPoints(o, list, kept) : q.object = p.object /\ q.order = n
  <2>1. PICK i \in kept : p = PointAt(i)
    BY <1>3
  <2>2. p.object = o /\ p.order = Cardinality(Below(kept, i))
    BY <2>1
  <2>3. n \in Nat /\ n <= Cardinality(Below(kept, i))
    BY <2>2
  <2>4. PICK j \in kept : Cardinality(Below(kept, j)) = n
    BY <1>2, <2>3, BelowHasNoGap
  <2>5. PointAt(j) \in AddPoints(o, list, kept)
    BY <1>3
  <2>6. PointAt(j).object = o /\ PointAt(j).order = n
    BY <2>4
  <2> QED
    BY <2>2, <2>5, <2>6
<1>5. ASSUME NEW p \in AddPoints(o, list, kept) PROVE p.object = o
  BY <1>3
<1> QED
  BY <1>4, <1>5 DEF Gapless

\* An entry names an object of the report, each a different one.
Distinct(list) ==
    \A i, j \in DOMAIN list : i # j /\ list[i].id = list[j].id => list[i].id = Unsynced

\* Does the list ask to delete the object, or to keep or edit it?
Deletes(list, o) == \E i \in DOMAIN list : list[i].id = o /\ list[i].op = "delete"
Keeps(list, o) == \E i \in DOMAIN list : list[i].id = o /\ list[i].op # "delete"

\* What a request is about to insert has no gaps, and is for an object it inserts
\* or keeps: over all attempts none that it removes.
PointsFit(r) ==
    LET t == tracker[r] IN
    /\ Gapless(t.placed)
    /\ input[r].op = "finalise" =>
          /\ Distinct(input[r].entries)
          /\ \A o \in t.removed : Deletes(input[r].entries, o)
          /\ \A p \in t.placed : p.object \in t.added \/ Keeps(input[r].entries, p.object)
PointsOK ==
    /\ Gapless(points) /\ \A p \in points : Exists(p.object)
    /\ \A r \in Request : PointsFit(r)

\* What the database holds then is what is asked for.
LEMMA PointsOKSuffices == TypeOK /\ PointsOK => PointsWellFormed
<1> SUFFICES ASSUME TypeOK, PointsOK, NEW o \in Object
             PROVE  LET orders == {p.order : p \in {q \in points : q.object = o}}
                    IN  /\ orders # {} => Exists(o)
                        /\ \A n \in orders : 0..n \subseteq orders
  BY DEF PointsWellFormed
<1> DEFINE orders == {p.order : p \in {q \in points : q.object = o}}
<1>1. orders # {} => Exists(o)
  BY DEF PointsOK
<1>2. ASSUME NEW n \in orders, NEW m \in 0..n PROVE m \in orders
  <2>1. PICK p \in points : p.object = o /\ p.order = n
    OBVIOUS
  <2>2. PICK q \in points : q.object = o /\ q.order = m
    BY <2>1 DEF PointsOK, Gapless
  <2> QED
    BY <2>2
<1> QED
  BY <1>1, <1>2

-----------------------------------------------------------------------------
(* What a step adds. *)

\* The handlers that make points make them for one object: a new one, or the one
\* of an entry that does not delete it.
LEMMA PlaceEffect ==
    ASSUME TypeOK, ControlOK, NEW r \in Request,
           SyncObject(r) \/ UpdateObject(r) \/ CreateObject(r)
    PROVE  \E o \in Object, list \in PointLists : \E kept \in SUBSET (DOMAIN list) :
              /\ \/ tracker'[r].placed = AddPoints(o, list, kept)
                 \/ tracker'[r].placed = tracker[r].placed \cup AddPoints(o, list, kept)
              /\ \/ o \in tracker'[r].added
                 \/ /\ UpdateObject(r) /\ o = CurrentEntry(r).id
                    /\ CurrentEntry(r).op # "delete"
              /\ tracker[r].added \subseteq tracker'[r].added
              /\ tracker'[r].removed = tracker[r].removed
<1>t. tracker[r] \in Tracker
  BY DEF TypeOK
<1>1. CASE SyncObject(r)
  <2>1. input[r].points \in PointLists
    BY <1>1, InputOf DEF SyncObject, SyncInput
  <2>2. PICK new \in FreshObjects :
           tracker'[r] = [tracker[r] EXCEPT !.added = @ \cup {new},
                             !.placed = AddPoints(new, input[r].points,
                                                  DOMAIN input[r].points)]
    BY <1>1 DEF SyncObject, Track, TypeOK
  <2>3. /\ tracker'[r].placed = AddPoints(new, input[r].points, DOMAIN input[r].points)
        /\ tracker'[r].added = tracker[r].added \cup {new}
        /\ tracker'[r].removed = tracker[r].removed
    BY <1>t, <2>2 DEF Tracker
  <2>4. new \in Object
    BY DEF FreshObjects
  <2> QED
    BY <2>1, <2>3, <2>4
<1>2. ASSUME UpdateObject(r) \/ CreateObject(r)
      PROVE  CurrentEntry(r) \in Entry /\ CurrentEntry(r).points \in PointLists
  <2>1. pc[r] = "entries" /\ MoreEntries(r)
    BY <1>2 DEF UpdateObject, CreateObject
  <2>2. input[r].op = "finalise"
    BY <2>1, InputOf DEF ControlOK, ControlFits
  <2> QED
    BY <2>1, <2>2, CurrentEntryType DEF Entry
<1>3. CASE UpdateObject(r)
  <2> DEFINE e == CurrentEntry(r)
  <2>1. PICK edited :
           tracker'[r] = [tracker[r] EXCEPT !.next = @ + 1, !.edited = edited,
                             !.placed = @ \cup AddPoints(e.id, e.points, NewPoints(r, e))]
    BY <1>3 DEF UpdateObject, Track, TypeOK
  <2>2. e.id \in Object /\ e.op # "delete" /\ NewPoints(r, e) \in SUBSET (DOMAIN e.points)
    BY <1>3 DEF UpdateObject, Found, NewPoints
  <2> HIDE DEF e
  <2>3. /\ tracker'[r].placed =
              tracker[r].placed \cup AddPoints(e.id, e.points, NewPoints(r, e))
        /\ tracker'[r].added = tracker[r].added
        /\ tracker'[r].removed = tracker[r].removed
    BY <1>t, <2>1 DEF Tracker
  <2> QED
    BY <1>2, <1>3, <2>2, <2>3 DEF e
<1>4. CASE CreateObject(r)
  <2> DEFINE e == CurrentEntry(r)
  <2>1. PICK new \in FreshObjects :
           tracker'[r] = [tracker[r] EXCEPT !.next = @ + 1, !.added = @ \cup {new},
                             !.placed = @ \cup AddPoints(new, e.points, DOMAIN e.points)]
    BY <1>4 DEF CreateObject, Track, TypeOK
  <2> HIDE DEF e
  <2>2. /\ tracker'[r].placed =
              tracker[r].placed \cup AddPoints(new, e.points, DOMAIN e.points)
        /\ tracker'[r].added = tracker[r].added \cup {new}
        /\ tracker'[r].removed = tracker[r].removed
    BY <1>t, <2>1 DEF Tracker
  <2>3. new \in Object
    BY DEF FreshObjects
  <2> QED
    BY <1>2, <1>4, <2>2, <2>3 DEF e
<1> QED
  BY <1>1, <1>3, <1>4

-----------------------------------------------------------------------------
(* Each step keeps the points in order. *)

\* A request that has nothing in its context and no entries is in order.
LEMMA EmptyFits ==
    ASSUME NEW r \in Request, tracker[r] = NoTracker, input[r].op # "finalise"
    PROVE  PointsFit(r)
BY DEF PointsFit, Gapless, NoTracker

\* A request that arrives.
LEMMA ReceivePoints ==
    ASSUME TypeOK, Consistent, NEW r \in Request, Receive(r)
    PROVE  PointsFit(r)'
<1>1. tracker'[r] = NoTracker
  <2>1. pc[r] = "idle" /\ tracker' = tracker
    BY ReceiveEffect
  <2> QED
    BY <2>1 DEF Consistent, ControlOK, ControlFits, TrackerFits
<1>2. tracker'[r].placed = {} /\ tracker'[r].removed = {}
  BY <1>1 DEF NoTracker
<1>3. input'[r].op = "finalise" => Distinct(input'[r].entries)
  <2>1. CASE ReceiveSync(r) \/ ReceiveReview(r)
    BY <2>1 DEF ReceiveSync, ReceiveReview, Accept, TypeOK
  <2>2. CASE ReceiveFinalise(r)
    <3>1. PICK rp \in Report : \E list \in EntryLists(rp) :
             Accept(r, [op |-> "finalise", journey |-> rp, entries |-> list])
      BY <2>2 DEF ReceiveFinalise
    <3>2. PICK list \in EntryLists(rp) :
             Accept(r, [op |-> "finalise", journey |-> rp, entries |-> list])
      BY <3>1
    <3>3. input'[r].entries = list
      BY <3>2 DEF Accept, TypeOK
    <3>4. Distinct(list)
      BY <3>2 DEF EntryLists, Distinct
    <3> QED
      BY <3>3, <3>4
  <2> QED
    BY <2>1, <2>2 DEF Receive
<1> QED
  BY <1>2, <1>3 DEF PointsFit, Gapless

\* A step that leaves what is to be inserted and removed.
LEMMA SamePoints ==
    ASSUME NEW r \in Request, PointsFit(r), input'[r] = input[r],
           tracker'[r].placed = tracker[r].placed, tracker'[r].added = tracker[r].added,
           tracker'[r].removed = tracker[r].removed
    PROVE  PointsFit(r)'
BY DEF PointsFit

\* The reads of a handler make no points.
LEMMA ReadPlaced ==
    ASSUME TypeOK, NEW r \in Request, GetOrCreateDraft(r) \/ GetDraft(r) \/ ReviewRead(r)
    PROVE  tracker'[r].placed = tracker[r].placed /\ input' = input
<1>t. tracker[r] \in Tracker
  BY DEF TypeOK
<1>1. CASE GetOrCreateDraft(r)
  <2>1. PICK rp, drafts :
           tracker'[r] = [tracker[r] EXCEPT !.journey = rp, !.drafts = drafts]
    <3>1. CASE IsDraft(input[r].journey)
      <4>1. tracker'[r] = [tracker[r] EXCEPT !.journey = input[r].journey]
        BY <1>1, <3>1 DEF GetOrCreateDraft, TypeOK, Track
      <4>2. tracker'[r] = [tracker[r] EXCEPT !.journey = input[r].journey,
                                             !.drafts = tracker[r].drafts]
        BY <1>t, <4>1 DEF Tracker
      <4> QED
        BY <4>2
    <3>2. CASE ~ IsDraft(input[r].journey)
      <4>1. PICK new \in FreshReports :
              tracker'[r] = [tracker[r] EXCEPT !.journey = new, !.drafts = @ \cup {new}]
        BY <1>1, <3>2 DEF GetOrCreateDraft, TypeOK, Track
      <4>2. tracker'[r] = [tracker[r] EXCEPT !.journey = new,
                                             !.drafts = tracker[r].drafts \cup {new}]
        BY <4>1
      <4> QED
        BY <4>2
    <3> QED
      BY <3>1, <3>2
  <2> QED
    BY <1>1, <1>t, <2>1 DEF GetOrCreateDraft, Tracker
<1>2. CASE GetDraft(r)
  <2>1. PICK rp, seen, loaded :
           tracker'[r] = [tracker[r] EXCEPT !.journey = rp, !.status = "submitted",
                             !.seen = seen, !.loaded = loaded, !.next = 1]
    BY <1>2 DEF GetDraft, Track, TypeOK
  <2> QED
    BY <1>2, <1>t, <2>1 DEF GetDraft, Tracker
<1>3. CASE ReviewRead(r)
  <2>1. PICK rp, status, seen :
           tracker'[r] = [tracker[r] EXCEPT !.journey = rp, !.status = status,
                             !.seen = seen]
    BY <1>3 DEF ReviewRead, Track, TypeOK
  <2> QED
    BY <1>3, <1>t, <2>1 DEF ReviewRead, Tracker
<1> QED
  BY <1>1, <1>2, <1>3

\* A handler that makes points.
LEMMA PlacePoints ==
    ASSUME TypeOK, Consistent, NEW r \in Request, PointsFit(r),
           SyncObject(r) \/ UpdateObject(r) \/ CreateObject(r)
    PROVE  PointsFit(r)'
<1>1. PICK o \in Object, list \in PointLists : \E kept \in SUBSET (DOMAIN list) :
         /\ \/ tracker'[r].placed = AddPoints(o, list, kept)
            \/ tracker'[r].placed = tracker[r].placed \cup AddPoints(o, list, kept)
         /\ \/ o \in tracker'[r].added
            \/ /\ UpdateObject(r) /\ o = CurrentEntry(r).id
               /\ CurrentEntry(r).op # "delete"
         /\ tracker[r].added \subseteq tracker'[r].added
         /\ tracker'[r].removed = tracker[r].removed
  BY PlaceEffect DEF Consistent
<1>2. PICK kept \in SUBSET (DOMAIN list) :
         /\ \/ tracker'[r].placed = AddPoints(o, list, kept)
            \/ tracker'[r].placed = tracker[r].placed \cup AddPoints(o, list, kept)
         /\ \/ o \in tracker'[r].added
            \/ /\ UpdateObject(r) /\ o = CurrentEntry(r).id
               /\ CurrentEntry(r).op # "delete"
         /\ tracker[r].added \subseteq tracker'[r].added
         /\ tracker'[r].removed = tracker[r].removed
  BY <1>1
<1>3. /\ Gapless(AddPoints(o, list, kept))
      /\ \A p \in AddPoints(o, list, kept) : p.object = o
  BY AddPointsGapless
<1>4. Gapless(tracker'[r].placed)
  BY <1>2, <1>3, GaplessUnion DEF PointsFit
<1>5. input' = input
  BY DEF SyncObject, UpdateObject, CreateObject
<1>6. ASSUME input[r].op = "finalise"
      PROVE  \A p \in tracker'[r].placed :
                p.object \in tracker'[r].added \/ Keeps(input[r].entries, p.object)
  <2>1. o \in tracker'[r].added \/ Keeps(input[r].entries, o)
    <3> SUFFICES ASSUME UpdateObject(r), o = CurrentEntry(r).id,
                        CurrentEntry(r).op # "delete"
                 PROVE  Keeps(input[r].entries, o)
      BY <1>2
    <3>1. MoreEntries(r) /\ input[r].entries \in Seq(Entry) /\ tracker[r].next \in Nat \ {0}
      BY <1>6, InputOf DEF UpdateObject, FinaliseInput, TypeOK, Tracker
    <3>2. tracker[r].next \in DOMAIN input[r].entries
      BY <3>1 DEF MoreEntries
    <3> QED
      BY <3>2 DEF Keeps, CurrentEntry
  <2>2. \A p \in tracker[r].placed :
           p.object \in tracker[r].added \/ Keeps(input[r].entries, p.object)
    BY <1>6 DEF PointsFit
  <2> QED
    BY <1>2, <1>3, <2>1, <2>2
<1>7. input[r].op = "finalise" =>
         /\ Distinct(input[r].entries)
         /\ \A x \in tracker'[r].removed : Deletes(input[r].entries, x)
  BY <1>2 DEF PointsFit
<1> QED
  BY <1>4, <1>5, <1>6, <1>7 DEF PointsFit

\* An entry that deletes.
LEMMA DeletePoints ==
    ASSUME TypeOK, Consistent, NEW r \in Request, PointsFit(r), DeleteObject(r)
    PROVE  PointsFit(r)'
<1> DEFINE e == CurrentEntry(r)
<1>1. pc[r] = "entries" /\ MoreEntries(r) /\ e.op = "delete" /\ input' = input
  BY DEF DeleteObject
<1>2. input[r].op = "finalise"
  BY <1>1, InputOf DEF Consistent, ControlOK, ControlFits
<1>3. tracker[r].next \in DOMAIN input[r].entries
  <2>1. input[r].entries \in Seq(Entry) /\ tracker[r].next \in Nat \ {0}
    BY <1>2, InputOf DEF FinaliseInput, TypeOK, Tracker
  <2> QED
    BY <1>1, <2>1 DEF MoreEntries
<1>4. Deletes(input[r].entries, e.id)
  BY <1>1, <1>3 DEF Deletes, CurrentEntry
<1> HIDE DEF e
<1>5. PICK removed \in SUBSET (tracker[r].removed \cup {e.id}) :
         tracker'[r] = [tracker[r] EXCEPT !.next = @ + 1, !.removed = removed]
  BY DEF DeleteObject, Track, TypeOK, e
<1>6. /\ tracker'[r].placed = tracker[r].placed /\ tracker'[r].added = tracker[r].added
      /\ tracker'[r].removed = removed
  BY <1>5 DEF TypeOK, Tracker
<1> QED
  BY <1>1, <1>2, <1>4, <1>6 DEF PointsFit

\* What is removed is not inserted, and no points are inserted for it.
LEMMA RemovedApart ==
    ASSUME TypeOK, Consistent, NEW r \in Request, PointsFit(r),
           input[r].op \in {"sync", "finalise"}, NEW o \in tracker[r].removed
    PROVE  o \notin tracker[r].added /\ \A p \in tracker[r].placed : p.object # o
<1>1. input[r].op = "finalise"
  BY DEF Consistent, TrackerFits
<1>2. o \in Object
  BY DEF TypeOK, Tracker
<1>3. o \notin tracker[r].added
  <2>1. object[o].status # "none"
    BY <1>1, <1>2 DEF Consistent, KnownBelong, Known
  <2> QED
    BY <2>1 DEF Consistent, FreshKeys, NoRow
<1>4. ~ Keeps(input[r].entries, o)
  <2>1. Deletes(input[r].entries, o) /\ Distinct(input[r].entries)
    BY <1>1 DEF PointsFit
  <2>2. o # Unsynced
    BY <1>2, KeysAssumption
  <2> QED
    BY <2>1, <2>2 DEF Deletes, Keeps, Distinct
<1> QED
  BY <1>1, <1>3, <1>4 DEF PointsFit

\* The commit inserts the points and takes those of removed objects out.
LEMMA CommitPoints ==
    ASSUME TypeOK, Consistent, PointsOK, NEW r \in Request, CommitTransaction(r)
    PROVE  Gapless(points') /\ \A p \in points' : Exists(p.object)'
<1> DEFINE t == tracker[r]
           left == {p \in points : p.object \notin t.removed}
<1>1. /\ input[r].op \in {"sync", "finalise"} /\ points' = left \cup t.placed
      /\ \A p \in t.placed : p.object \in t.added \/ Exists(p.object)
  BY DEF CommitTransaction, Accepted
<1>2. PointsFit(r) /\ Gapless(points) /\ \A p \in points : Exists(p.object)
  BY DEF PointsOK
<1>3. Gapless(left)
  <2>1. ASSUME NEW p \in left, NEW n \in 0..p.order
        PROVE  \E q \in left : q.object = p.object /\ q.order = n
    <3>1. PICK q \in points : q.object = p.object /\ q.order = n
      BY <1>2, Zenon DEF Gapless
    <3> QED
      BY <3>1
  <2> QED
    BY <2>1 DEF Gapless
<1>4. Gapless(points')
  BY <1>1, <1>2, <1>3, GaplessUnion DEF PointsFit
<1>5. ASSUME NEW o \in Object, o \in t.added \/ Exists(o), o \notin t.removed
      PROVE  Exists(o)'
  <2>1. o \in t.added => object'[o].status = "draft"
    BY CommitEffect
  <2>2. o \notin t.added => object'[o] = object[o]
    BY <1>5, CommitEffect
  <2> QED
    BY <1>5, <2>1, <2>2 DEF Exists, ObjectStatus
<1>6. ASSUME NEW p \in points' PROVE Exists(p.object)'
  <2>1. p \in Point
    BY <1>1 DEF TypeOK, Tracker
  <2>2. p.object \in Object
    BY <2>1 DEF Point
  <2>3. CASE p \in left
    BY <1>2, <1>5, <2>2, <2>3
  <2>4. CASE p \in t.placed
    BY <1>1, <1>2, <1>5, <2>2, <2>4, RemovedApart
  <2> QED
    BY <1>1, <2>3, <2>4
<1> QED
  BY <1>4, <1>6

\* Every step keeps PointsOK.
LEMMA PointsStep ==
    ASSUME TypeOK, Consistent, PointsOK, [Next]_vars
    PROVE  PointsOK'
<1>1. CASE UNCHANGED vars
  BY <1>1 DEF vars, PointsOK, PointsFit, Exists
<1>2. CASE Next
  <2>1. PICK r \in Request : Receive(r) \/ Handle(r)
    BY <1>2 DEF Next
  <2>f. PointsFit(r)
    BY DEF PointsOK
  <2>2. ASSUME NEW q \in Request \ {r} PROVE PointsFit(q)'
    <3>1. PointsFit(q) /\ input'[q] = input[q] /\ tracker'[q] = tracker[q]
      BY <2>1, Frame DEF PointsOK
    <3> QED
      BY <3>1, SamePoints
  <2>3. ASSUME \/ DraftNotFound(r) \/ ObjectNotFound(r) \/ Fail(r)
               \/ CommitTransaction(r) \/ ReviewSave(r)
        PROVE  PointsFit(r)'
    <3>1. tracker'[r] = NoTracker /\ input'[r].op # "finalise"
      BY <2>3, EndEffect, DisposeEffect DEF NoInput
    <3> QED
      BY <3>1 DEF PointsFit, Gapless, NoTracker
  <2>4. ASSUME BuildTypeCache(r) \/ EntriesDone(r) \/ TransientError(r)
        PROVE  PointsFit(r)'
    BY <2>4, <2>f, MoveEffect, SamePoints
  <2>5. ASSUME GetOrCreateDraft(r) \/ GetDraft(r) \/ ReviewRead(r)
        PROVE  PointsFit(r)'
    BY <2>5, <2>f, ReadPlaced, DraftEffect, LoadEffect, SamePoints
  <2>6. PointsFit(r)'
    BY <2>1, <2>3, <2>4, <2>5, <2>f, ReceivePoints, PlacePoints, DeletePoints DEF Handle
  <2>7. Gapless(points') /\ \A p \in points' : Exists(p.object)'
    <3>1. CASE CommitTransaction(r)
      BY <3>1, CommitPoints
    <3>2. CASE ReviewSave(r)
      <4>1. points' = points
        BY <3>2 DEF ReviewSave
      <4>2. ASSUME NEW o \in Object, Exists(o) PROVE Exists(o)'
        BY <3>2, <4>2, ReviewEffect DEF Exists, ObjectStatus, Decided
      <4> QED
        BY <4>1, <4>2 DEF PointsOK, TypeOK, Point
    <3>3. CASE ~ CommitTransaction(r) /\ ~ ReviewSave(r)
      <4>1. points' = points /\ object' = object
        BY <2>1, <3>3, Quiet
      <4> QED
        BY <4>1 DEF PointsOK, Exists
    <3> QED
      BY <3>1, <3>2, <3>3
  <2> QED
    BY <2>2, <2>6, <2>7 DEF PointsOK, Gapless
<1> QED
  BY <1>1, <1>2

\* The points of an object are numbered 0, 1, 2, ... without a gap and none outlives
\* its object, whatever is sent, retried, reviewed or refused in between, and although
\* AddPoints starts from 0 each time.
THEOREM PointsNumbered == Spec => []PointsWellFormed
<1>1. Init => PointsOK
  BY EmptyFits DEF Init, PointsOK, Gapless, NoInput
<1>2. TypeOK /\ Consistent /\ PointsOK /\ [Next]_vars => PointsOK'
  BY PointsStep
<1> QED
  BY <1>1, <1>2, PointsOKSuffices, TypeCorrect, ConsistentAlways, PTL DEF Spec
=============================================================================
