------------------------- MODULE JourneyServerProofs -------------------------
(***************************************************************************)
(* Machine-checked proofs about JourneyServer, for any sets of keys, any   *)
(* number of concurrent requests and any bound on retries and entries.     *)
(***************************************************************************)
EXTENDS JourneyRequirements, FiniteSetTheorems, TLAPS

-----------------------------------------------------------------------------
(* Lemmas about the operators. *)

\* AddPoints makes points of the object, whichever positions it keeps.
LEMMA AddPointsType ==
    ASSUME NEW o \in Object, NEW list \in PointLists, NEW kept \in SUBSET (DOMAIN list)
    PROVE  AddPoints(o, list, kept) \in SUBSET Point
<1>1. list \in Seq(Coord)
  BY BoundsAssumption
<1>2. IsFiniteSet(1..Len(list))
  BY <1>1, FS_Interval
<1>3. ASSUME NEW i \in kept
      PROVE  Cardinality({k \in kept : k < i}) \in Nat
  <2>1. {k \in kept : k < i} \subseteq 1..Len(list)
    BY <1>1
  <2> QED
    BY <1>2, <2>1, FS_Subset, FS_CardinalityType
<1>4. ASSUME NEW i \in kept
      PROVE  list[i] \in Coord
  BY <1>1
<1>5. ASSUME NEW i \in kept
      PROVE  [object |-> o, order |-> Cardinality({k \in kept : k < i}),
              at |-> list[i]] \in Point
  BY <1>3, <1>4 DEF Point
<1> QED
  BY <1>5 DEF AddPoints

\* The status of every object of a report, as ObjectReview and GetDraft load it.
LEMMA StatusesInType ==
    ASSUME TypeOK, NEW rp
    PROVE  StatusesIn(rp) \in [Object -> ObjectStatus \cup {"none"}]
BY DEF StatusesIn, ObjectsOf, Exists

\* The same for what the context of a Finalise holds after its query.
LEMMA SeenInType ==
    ASSUME TypeOK, NEW r \in Request, NEW rp
    PROVE  SeenIn(r, rp) \in [Object -> ObjectStatus \cup {"none"}]
<1>1. StatusesIn(rp) \in [Object -> ObjectStatus \cup {"none"}]
  BY StatusesInType
<1>2. tracker[r].seen \in [Object -> ObjectStatus \cup {"none"}]
  BY DEF TypeOK, Tracker
<1> QED
  BY <1>1, <1>2 DEF SeenIn

\* ObjectReview decides, or leaves the status it read.
LEMMA OutcomeCases ==
    ASSUME NEW statuses, NEW current
    PROVE  Outcome(statuses, current) \in Decided \cup {current}
BY DEF Outcome, Decided

\* The message a handler works on is the one its operation takes.
LEMMA InputOf ==
    ASSUME TypeOK, NEW r \in Request
    PROVE  /\ input[r].op = "sync" => input[r] \in SyncInput
           /\ input[r].op = "finalise" => input[r] \in FinaliseInput
           /\ input[r].op = "review" => input[r] \in ReviewInput
           /\ input[r].op \in {"none", "sync", "finalise", "review"}
BY DEF TypeOK, SyncInput, FinaliseInput, ReviewInput, NoInput

\* The entry the loop of Finalise is at.
LEMMA CurrentEntryType ==
    ASSUME TypeOK, NEW r \in Request, input[r].op = "finalise", MoreEntries(r)
    PROVE  CurrentEntry(r) \in Entry
<1>1. input[r].entries \in Seq(Entry)
  BY InputOf DEF FinaliseInput
<1>2. tracker[r].next \in Nat \ {0}
  BY DEF TypeOK, Tracker
<1> QED
  BY <1>1, <1>2 DEF CurrentEntry, MoreEntries

-----------------------------------------------------------------------------
(* Type correctness. *)

\* A change tracker stays one under the changes the operations make to it.
LEMMA LoadReport ==
    ASSUME NEW t \in Tracker, NEW rp \in Report, NEW status \in ReportStatus \cup {"none"},
           NEW seen \in [Object -> ObjectStatus \cup {"none"}],
           NEW loaded \in SUBSET Point, NEW next \in Nat \ {0}
    PROVE  [t EXCEPT !.journey = rp, !.status = status, !.seen = seen,
                     !.loaded = loaded, !.next = next] \in Tracker
BY DEF Tracker

\* The tracker of DeleteObject: an object more to remove, one entry further.
LEMMA TrackRemoved ==
    ASSUME NEW t \in Tracker, NEW removed \in SUBSET Object, NEW next \in Nat \ {0}
    PROVE  [t EXCEPT !.next = next, !.removed = removed] \in Tracker
BY DEF Tracker

\* The tracker of UpdateObject: an object more to update, points to insert.
LEMMA TrackEdited ==
    ASSUME NEW t \in Tracker, NEW edited \in SUBSET Object,
           NEW placed \in SUBSET Point, NEW next \in Nat \ {0}
    PROVE  [t EXCEPT !.next = next, !.edited = edited, !.placed = placed] \in Tracker
BY DEF Tracker

\* The tracker of CreateObject: an object more to insert, with its points.
LEMMA TrackAdded ==
    ASSUME NEW t \in Tracker, NEW added \in SUBSET Object,
           NEW placed \in SUBSET Point, NEW next \in Nat \ {0}
    PROVE  [t EXCEPT !.next = next, !.added = added, !.placed = placed] \in Tracker
BY DEF Tracker

\* A request that ends leaves a context without anything in it.
LEMMA DisposeType ==
    ASSUME TypeOK, NEW r \in Request, Dispose(r)
    PROVE  /\ pc' \in [Request -> {"idle", "begin", "types", "entries", "commit"}]
           /\ input' \in [Request -> SyncInput \cup FinaliseInput \cup ReviewInput
                                                 \cup {NoInput}]
           /\ tracker' \in [Request -> Tracker]
           /\ attempt' \in [Request -> 0..MaxRetry]
<1>1. NoTracker \in Tracker
  BY DEF NoTracker, Tracker
<1>2. 0 \in 0..MaxRetry
  BY BoundsAssumption
<1> QED
  BY <1>1, <1>2 DEF TypeOK, Dispose, Track

\* A handler changes the rows and keeps its context in the types.
LEMMA TypeStep ==
    ASSUME TypeOK, ControlOK, [Next]_vars
    PROVE  TypeOK'
<1> SUFFICES ASSUME Next PROVE TypeOK'
  BY DEF TypeOK, vars
<1> PICK r \in Request : Receive(r) \/ Handle(r)
  BY DEF Next
<1> USE DEF database
<1>t. tracker[r] \in Tracker
  BY DEF TypeOK
<1>next. tracker[r].next + 1 \in Nat \ {0}
  BY <1>t DEF Tracker
<1>1. CASE ReceiveSync(r)
  <2>1. PICK rp \in Report \cup {NoReport}, list \in PointLists :
           Accept(r, [op |-> "sync", journey |-> rp, points |-> list])
    BY <1>1 DEF ReceiveSync
  <2> QED
    BY <2>1 DEF Accept, TypeOK, SyncInput
<1>2. CASE ReceiveFinalise(r)
  <2>1. PICK rp \in Report : \E list \in EntryLists(rp) :
           Accept(r, [op |-> "finalise", journey |-> rp, entries |-> list])
    BY <1>2 DEF ReceiveFinalise
  <2>2. PICK list \in EntryLists(rp) :
           Accept(r, [op |-> "finalise", journey |-> rp, entries |-> list])
    BY <2>1
  <2>3. list \in Seq(Entry)
    BY DEF EntryLists
  <2> QED
    BY <2>2, <2>3 DEF Accept, TypeOK, FinaliseInput
<1>3. CASE ReceiveReview(r)
  <2>1. PICK rp \in Report, verdict \in Decided, o \in Object :
           Accept(r, [op |-> "review", journey |-> rp, object |-> o,
                      verdict |-> verdict])
    BY <1>3 DEF ReceiveReview, ObjectsOf
  <2> QED
    BY <2>1 DEF Accept, TypeOK, ReviewInput
<1>4. CASE GetOrCreateDraft(r)
  <2>1. PICK t \in Tracker : Track(r, t)
    <3>1. CASE IsDraft(input[r].journey)
      <4>1. [tracker[r] EXCEPT !.journey = input[r].journey] \in Tracker
        BY <1>t, <3>1 DEF IsDraft, Tracker
      <4> QED
        BY <1>4, <3>1, <4>1 DEF GetOrCreateDraft
    <3>2. CASE ~ IsDraft(input[r].journey)
      <4>1. PICK new \in FreshReports :
              Track(r, [tracker[r] EXCEPT !.journey = new, !.drafts = @ \cup {new}])
        BY <1>4, <3>2 DEF GetOrCreateDraft
      <4>2. [tracker[r] EXCEPT !.journey = new, !.drafts = @ \cup {new}] \in Tracker
        BY <1>t DEF FreshReports, Tracker
      <4> QED
        BY <4>1, <4>2
    <3> QED
      BY <3>1, <3>2
  <2> QED
    BY <1>4, <2>1 DEF GetOrCreateDraft, TypeOK, Track
<1>5. CASE SyncObject(r)
  <2> DEFINE list == input[r].points
  <2>1. PICK new \in FreshObjects :
           Track(r, [tracker[r] EXCEPT !.added = @ \cup {new},
                        !.placed = AddPoints(new, list, DOMAIN list)])
    BY <1>5 DEF SyncObject
  <2>2. AddPoints(new, list, DOMAIN list) \in SUBSET Point
    BY <1>5, InputOf, AddPointsType DEF SyncObject, SyncInput, FreshObjects
  <2>3. [tracker[r] EXCEPT !.added = @ \cup {new},
                           !.placed = AddPoints(new, list, DOMAIN list)] \in Tracker
    BY <1>t, <2>2 DEF Tracker, FreshObjects
  <2> QED
    BY <1>5, <2>1, <2>3 DEF SyncObject, TypeOK, Track
<1>6. CASE GetDraft(r)
  <2> DEFINE rp == input[r].journey
  <2>1. SeenIn(r, rp) \in [Object -> ObjectStatus \cup {"none"}]
    BY SeenInType
  <2>2. tracker[r].loaded \cup PointsIn(rp) \in SUBSET Point
    BY <1>t DEF PointsIn, TypeOK, Tracker
  <2>3. rp \in Report
    <3>1. IsDraft(rp)
      BY <1>6 DEF GetDraft
    <3> QED
      BY <3>1 DEF IsDraft
  <2>4. [tracker[r] EXCEPT !.journey = rp, !.status = "submitted",
                           !.seen = SeenIn(r, rp), !.loaded = @ \cup PointsIn(rp),
                           !.next = 1] \in Tracker
    <3>1. "submitted" \in ReportStatus \cup {"none"} /\ 1 \in Nat \ {0}
      BY DEF ReportStatus
    <3> QED
      BY <1>t, <2>1, <2>2, <2>3, <3>1, LoadReport
  <2> QED
    BY <1>6, <2>4 DEF GetDraft, TypeOK, Track
<1>7. CASE DraftNotFound(r)
  BY <1>7, DisposeType DEF DraftNotFound, TypeOK
<1>8. CASE BuildTypeCache(r)
  BY <1>8 DEF BuildTypeCache, TypeOK
<1>9. CASE DeleteObject(r)
  <2> DEFINE e == CurrentEntry(r)
             t == [tracker[r] EXCEPT !.next = @ + 1,
                      !.removed = IF Found(r, e.id) THEN @ \cup {e.id} ELSE @]
  <2>1. t \in Tracker
    <3> DEFINE removed == IF Found(r, e.id) THEN tracker[r].removed \cup {e.id}
                                          ELSE tracker[r].removed
    <3>1. removed \in SUBSET Object
      BY <1>t DEF Found, Tracker
    <3> HIDE DEF removed
    <3> QED
      BY <1>next, <1>t, <3>1, TrackRemoved DEF removed
  <2>2. Track(r, t)
    BY <1>9 DEF DeleteObject
  <2> QED
    BY <1>9, <2>1, <2>2 DEF DeleteObject, TypeOK, Track
<1>10. CASE UpdateObject(r)
  <2> DEFINE e == CurrentEntry(r)
             new == AddPoints(e.id, e.points, NewPoints(r, e))
             t == [tracker[r] EXCEPT !.next = @ + 1,
                      !.edited = IF e.op = "edit" THEN @ \cup {e.id} ELSE @,
                      !.placed = @ \cup new]
  <2>1. e \in Entry /\ e.id \in Object
    BY <1>10, InputOf, CurrentEntryType DEF UpdateObject, Found, ControlOK, ControlFits
  <2>2. new \in SUBSET Point
    BY <2>1, AddPointsType DEF NewPoints, Entry
  <2>3. t \in Tracker
    <3>1. /\ tracker[r].placed \cup new \in SUBSET Point
          /\ (IF e.op = "edit" THEN tracker[r].edited \cup {e.id}
                               ELSE tracker[r].edited) \in SUBSET Object
      BY <1>t, <2>1, <2>2 DEF Tracker
    <3> QED
      BY <1>next, <1>t, <3>1, TrackEdited
  <2>4. Track(r, t)
    BY <1>10 DEF UpdateObject
  <2> QED
    BY <1>10, <2>3, <2>4 DEF UpdateObject, TypeOK, Track
<1>11. CASE CreateObject(r)
  <2> DEFINE e == CurrentEntry(r)
  <2>1. e \in Entry
    BY <1>11, InputOf, CurrentEntryType DEF CreateObject, ControlOK, ControlFits
  <2>2. PICK new \in FreshObjects :
           Track(r, [tracker[r] EXCEPT !.next = @ + 1, !.added = @ \cup {new},
                        !.placed = @ \cup AddPoints(new, e.points, DOMAIN e.points)])
    BY <1>11 DEF CreateObject
  <2>3. AddPoints(new, e.points, DOMAIN e.points) \in SUBSET Point
    BY <2>1, AddPointsType DEF Entry, FreshObjects
  <2>4. [tracker[r] EXCEPT !.next = @ + 1, !.added = @ \cup {new},
            !.placed = @ \cup AddPoints(new, e.points, DOMAIN e.points)] \in Tracker
    <3>1. /\ tracker[r].added \cup {new} \in SUBSET Object
          /\ tracker[r].placed \cup AddPoints(new, e.points, DOMAIN e.points)
               \in SUBSET Point
      BY <1>t, <2>3 DEF Tracker, FreshObjects
    <3> QED
      BY <1>next, <1>t, <3>1, TrackAdded
  <2> QED
    BY <1>11, <2>2, <2>4 DEF CreateObject, TypeOK, Track
<1>12. CASE EntriesDone(r)
  BY <1>12 DEF EntriesDone, TypeOK
<1>13. CASE TransientError(r)
  BY <1>13, BoundsAssumption DEF TransientError, TypeOK
<1>14. CASE CommitTransaction(r)
  <2>1. report' \in [Report -> ReportStatus \cup {"none"}]
    BY <1>14 DEF CommitTransaction, TypeOK, ReportStatus
  <2>2. object' \in [Object -> ObjectRow]
    <3>1. tracker[r].journey \in Report
      BY <1>14 DEF CommitTransaction, ControlOK, ControlFits
    <3> QED
      BY <1>14, <3>1 DEF CommitTransaction, TypeOK, ObjectRow, ObjectStatus
  <2>3. points' \in SUBSET Point
    BY <1>14 DEF CommitTransaction, TypeOK, Tracker
  <2>4. stale' \in [Request -> SUBSET (Report \cup Object)]
    <3>1. Written(r) \subseteq Report \cup Object
      BY <1>14 DEF CommitTransaction, ControlOK, ControlFits, Written, TypeOK, Tracker
    <3> QED
      BY <1>14, <3>1 DEF CommitTransaction, MarkStale, TypeOK
  <2> QED
    BY <1>14, <2>1, <2>2, <2>3, <2>4, DisposeType DEF CommitTransaction, TypeOK
<1>15. CASE ReviewRead(r)
  <2> DEFINE rp == input[r].journey
  <2>1. StatusesIn(rp) \in [Object -> ObjectStatus \cup {"none"}]
    BY StatusesInType
  <2>2. rp \in Report
    BY <1>15, InputOf DEF ReviewRead, ReviewInput
  <2>3. [tracker[r] EXCEPT !.journey = rp, !.status = report[rp],
                           !.seen = StatusesIn(rp)] \in Tracker
    <3>1. report[rp] \in ReportStatus \cup {"none"}
      BY <2>2 DEF TypeOK
    <3> QED
      BY <1>t, <2>1, <2>2, <3>1 DEF Tracker
  <2> QED
    BY <1>15, <2>3 DEF ReviewRead, TypeOK, Track
<1>16. CASE ObjectNotFound(r)
  BY <1>16, DisposeType DEF ObjectNotFound, TypeOK
<1>17. CASE ReviewSave(r)
  <2> DEFINE t == tracker[r]
             new == Outcome([t.seen EXCEPT ![input[r].object] = input[r].verdict],
                            t.status)
  <2>1. /\ t.journey \in Report
        /\ input[r].object \in Object /\ input[r].verdict \in Decided
    BY <1>17, InputOf DEF ReviewSave, ControlOK, ControlFits, ReviewInput
  <2>2. new = t.status \/ new \in Decided
    BY OutcomeCases
  <2>3. report' \in [Report -> ReportStatus \cup {"none"}]
    BY <1>17, <2>1, <2>2 DEF ReviewSave, TypeOK, Decided, ReportStatus
  <2>4. object' \in [Object -> ObjectRow]
    BY <1>17, <2>1 DEF ReviewSave, TypeOK, ObjectRow, ObjectStatus, Decided
  <2>5. stale' \in [Request -> SUBSET (Report \cup Object)]
    BY <1>17, <2>1 DEF ReviewSave, MarkStale, TypeOK
  <2> QED
    BY <1>17, <2>3, <2>4, <2>5, DisposeType DEF ReviewSave, TypeOK
<1>18. CASE Fail(r)
  BY <1>18, DisposeType DEF Fail, TypeOK
<1> QED
  BY <1>1, <1>2, <1>3, <1>4, <1>5, <1>6, <1>7, <1>8, <1>9, <1>10, <1>11, <1>12,
     <1>13, <1>14, <1>15, <1>16, <1>17, <1>18 DEF Receive, Handle
-----------------------------------------------------------------------------
(* What a step does, in the terms of the invariant. *)

\* A step of a request leaves the memory of the others alone.
LEMMA Frame ==
    ASSUME TypeOK, NEW r \in Request, Receive(r) \/ Handle(r),
           NEW q \in Request, q # r
    PROVE  /\ pc'[q] = pc[q] /\ input'[q] = input[q] /\ tracker'[q] = tracker[q]
           /\ attempt'[q] = attempt[q]
<1> USE DEF TypeOK
<1>1. CASE Receive(r)
  BY <1>1 DEF Receive, ReceiveSync, ReceiveFinalise, ReceiveReview, Accept
<1>2. CASE GetOrCreateDraft(r) \/ SyncObject(r)
  BY <1>2 DEF GetOrCreateDraft, SyncObject, Track
<1>3. CASE GetDraft(r) \/ DraftNotFound(r) \/ BuildTypeCache(r)
  BY <1>3 DEF GetDraft, DraftNotFound, BuildTypeCache, Track, Dispose
<1>4. CASE DeleteObject(r) \/ UpdateObject(r) \/ CreateObject(r) \/ EntriesDone(r)
  BY <1>4 DEF DeleteObject, UpdateObject, CreateObject, EntriesDone, Track
<1>5. CASE TransientError(r) \/ CommitTransaction(r)
  BY <1>5 DEF TransientError, CommitTransaction, Track, Dispose
<1>6. CASE ReviewRead(r) \/ ObjectNotFound(r) \/ ReviewSave(r) \/ Fail(r)
  BY <1>6 DEF ReviewRead, ObjectNotFound, ReviewSave, Fail, Track, Dispose
<1> QED
  BY <1>1, <1>2, <1>3, <1>4, <1>5, <1>6 DEF Handle

\* Only the two saves change the tables or make a row stale for another request.
LEMMA Quiet ==
    ASSUME TypeOK, NEW r \in Request, Receive(r) \/ Handle(r),
           ~ CommitTransaction(r), ~ ReviewSave(r)
    PROVE  /\ report' = report /\ object' = object /\ points' = points
           /\ \A q \in Request \ {r} : stale'[q] = stale[q]
<1> USE DEF TypeOK, database
<1>1. CASE Receive(r)
  BY <1>1 DEF Receive, ReceiveSync, ReceiveFinalise, ReceiveReview, Accept
<1>2. CASE GetOrCreateDraft(r) \/ SyncObject(r)
  BY <1>2 DEF GetOrCreateDraft, SyncObject
<1>3. CASE GetDraft(r) \/ DraftNotFound(r) \/ BuildTypeCache(r)
  BY <1>3 DEF GetDraft, DraftNotFound, BuildTypeCache
<1>4. CASE DeleteObject(r) \/ UpdateObject(r) \/ CreateObject(r) \/ EntriesDone(r)
  BY <1>4 DEF DeleteObject, UpdateObject, CreateObject, EntriesDone
<1>5. CASE TransientError(r)
  BY <1>5 DEF TransientError
<1>6. CASE ReviewRead(r) \/ ObjectNotFound(r) \/ Fail(r)
  BY <1>6 DEF ReviewRead, ObjectNotFound, Fail
<1> QED
  BY <1>1, <1>2, <1>3, <1>4, <1>5, <1>6 DEF Handle

\* The end of a request.
LEMMA DisposeEffect ==
    ASSUME TypeOK, NEW r \in Request, Dispose(r)
    PROVE  pc'[r] = "idle" /\ input'[r] = NoInput /\ tracker'[r] = NoTracker
BY DEF TypeOK, Dispose, Track

\* The arrival of a request.
LEMMA ReceiveEffect ==
    ASSUME TypeOK, NEW r \in Request, Receive(r)
    PROVE  /\ pc[r] = "idle" /\ pc'[r] = "begin"
           /\ tracker' = tracker /\ stale' = stale
           /\ input'[r].op \in {"sync", "finalise", "review"}
           /\ input'[r].op \in {"finalise", "review"} =>
                 input'[r].journey \in Report /\ report[input'[r].journey] # "none"
<1> USE DEF TypeOK, Accept
<1>1. CASE ReceiveSync(r)
  BY <1>1 DEF ReceiveSync
<1>2. CASE ReceiveFinalise(r)
  BY <1>2 DEF ReceiveFinalise
<1>3. CASE ReceiveReview(r)
  <2>1. PICK rp \in Report, verdict \in Decided, o \in Object :
           /\ report[rp] \in ReviewOf /\ o \in ObjectsOf(rp)
           /\ Accept(r, [op |-> "review", journey |-> rp, object |-> o,
                         verdict |-> verdict])
    BY <1>3 DEF ReceiveReview, ObjectsOf
  <2> QED
    BY <2>1, BoundsAssumption DEF ReportStatus
<1> QED
  BY <1>1, <1>2, <1>3 DEF Receive
\* GetOrCreateDraft works on the draft it was asked for or on a fresh one.
LEMMA DraftEffect ==
    ASSUME TypeOK, NEW r \in Request, GetOrCreateDraft(r)
    PROVE  /\ tracker'[r].status = tracker[r].status
           /\ tracker'[r].added = tracker[r].added
           /\ tracker'[r].edited = tracker[r].edited
           /\ tracker'[r].removed = tracker[r].removed
           /\ \/ /\ IsDraft(input[r].journey)
                 /\ tracker'[r].journey = input[r].journey
                 /\ tracker'[r].drafts = tracker[r].drafts
              \/ \E new \in FreshReports :
                    /\ tracker'[r].journey = new
                    /\ tracker'[r].drafts = tracker[r].drafts \cup {new}
<1>t. tracker[r] \in Tracker
  BY DEF TypeOK
<1>1. CASE IsDraft(input[r].journey)
  <2>1. tracker'[r] = [tracker[r] EXCEPT !.journey = input[r].journey]
    BY <1>1 DEF GetOrCreateDraft, TypeOK, Track
  <2> QED
    BY <1>1, <1>t, <2>1 DEF Tracker
<1>2. CASE ~ IsDraft(input[r].journey)
  <2>1. PICK new \in FreshReports :
          tracker'[r] = [tracker[r] EXCEPT !.journey = new, !.drafts = @ \cup {new}]
    BY <1>2 DEF GetOrCreateDraft, TypeOK, Track
  <2>2. /\ tracker'[r].journey = new
        /\ tracker'[r].drafts = tracker[r].drafts \cup {new}
        /\ tracker'[r].status = tracker[r].status
        /\ tracker'[r].added = tracker[r].added
        /\ tracker'[r].edited = tracker[r].edited
        /\ tracker'[r].removed = tracker[r].removed
    BY <1>t, <2>1 DEF Tracker
  <2> QED
    BY <2>2
<1> QED
  BY <1>1, <1>2

\* SyncObject and CreateObject collect a new object under a fresh key.
LEMMA CollectEffect ==
    ASSUME TypeOK, NEW r \in Request, SyncObject(r) \/ CreateObject(r)
    PROVE  /\ tracker'[r].journey = tracker[r].journey
           /\ tracker'[r].status = tracker[r].status
           /\ tracker'[r].seen = tracker[r].seen
           /\ tracker'[r].drafts = tracker[r].drafts
           /\ tracker'[r].edited = tracker[r].edited
           /\ tracker'[r].removed = tracker[r].removed
           /\ \E new \in FreshObjects :
                 tracker'[r].added = tracker[r].added \cup {new}
<1>t. tracker[r] \in Tracker
  BY DEF TypeOK
<1>1. PICK new \in FreshObjects : \E placed :
        \/ tracker'[r] = [tracker[r] EXCEPT !.added = @ \cup {new}, !.placed = placed]
        \/ tracker'[r] = [tracker[r] EXCEPT !.next = @ + 1, !.added = @ \cup {new},
                                            !.placed = placed]
  <2>1. ASSUME SyncObject(r)
        PROVE  \E new \in FreshObjects : \E placed :
                 tracker'[r] = [tracker[r] EXCEPT !.added = @ \cup {new}, !.placed = placed]
    BY <2>1 DEF SyncObject, TypeOK, Track
  <2>2. ASSUME CreateObject(r)
        PROVE  \E new \in FreshObjects : \E placed :
                 tracker'[r] = [tracker[r] EXCEPT !.next = @ + 1, !.added = @ \cup {new},
                                                 !.placed = placed]
    BY <2>2 DEF CreateObject, TypeOK, Track
  <2> QED
    BY <2>1, <2>2
<1>2. /\ tracker'[r].journey = tracker[r].journey
      /\ tracker'[r].status = tracker[r].status
      /\ tracker'[r].seen = tracker[r].seen
      /\ tracker'[r].drafts = tracker[r].drafts
      /\ tracker'[r].edited = tracker[r].edited
      /\ tracker'[r].removed = tracker[r].removed
      /\ tracker'[r].added = tracker[r].added \cup {new}
  BY <1>t, <1>1 DEF Tracker
<1> QED
  BY <1>2

\* What loading a report leaves of a change tracker.
LEMMA LoadFields ==
    ASSUME NEW t \in Tracker, NEW rp, NEW status, NEW seen, NEW loaded, NEW next
    PROVE  LET u == [t EXCEPT !.journey = rp, !.status = status, !.seen = seen,
                              !.loaded = loaded, !.next = next]
           IN  /\ u.journey = rp /\ u.status = status /\ u.seen = seen
               /\ u.drafts = t.drafts /\ u.added = t.added
               /\ u.edited = t.edited /\ u.removed = t.removed
BY DEF Tracker

\* GetDraft and ReviewRead load the report of the request.
LEMMA LoadEffect ==
    ASSUME TypeOK, NEW r \in Request, GetDraft(r) \/ ReviewRead(r)
    PROVE  /\ tracker'[r].journey = input[r].journey
           /\ GetDraft(r) => /\ tracker'[r].status = "submitted"
                             /\ tracker'[r].seen = SeenIn(r, input[r].journey)
           /\ ReviewRead(r) => /\ tracker'[r].status = report[input[r].journey]
                               /\ tracker'[r].seen = StatusesIn(input[r].journey)
           /\ tracker'[r].drafts = tracker[r].drafts
           /\ tracker'[r].added = tracker[r].added
           /\ tracker'[r].edited = tracker[r].edited
           /\ tracker'[r].removed = tracker[r].removed
<1> DEFINE rp == input[r].journey
<1>t. tracker[r] \in Tracker
  BY DEF TypeOK
<1>1. CASE GetDraft(r)
  <2>1. tracker'[r] = [tracker[r] EXCEPT !.journey = rp, !.status = "submitted",
                          !.seen = SeenIn(r, rp), !.loaded = @ \cup PointsIn(rp), !.next = 1]
    BY <1>1 DEF GetDraft, Track, TypeOK
  <2>2. ~ ReviewRead(r)
    BY <1>1 DEF GetDraft, ReviewRead
  <2> HIDE DEF rp
  <2>3. /\ tracker'[r].journey = rp /\ tracker'[r].seen = SeenIn(r, rp)
        /\ tracker'[r].status = "submitted"
        /\ tracker'[r].drafts = tracker[r].drafts
        /\ tracker'[r].added = tracker[r].added
        /\ tracker'[r].edited = tracker[r].edited
        /\ tracker'[r].removed = tracker[r].removed
    BY <1>t, <2>1, LoadFields
  <2> QED
    BY <2>2, <2>3 DEF rp
<1>2. CASE ReviewRead(r)
  <2>1. tracker'[r] = [tracker[r] EXCEPT !.journey = rp, !.status = report[rp],
                          !.seen = StatusesIn(rp)]
    BY <1>2 DEF ReviewRead, Track, TypeOK
  <2>2. ~ GetDraft(r)
    BY <1>2 DEF GetDraft, ReviewRead
  <2> HIDE DEF rp
  <2>3. /\ tracker'[r].journey = rp /\ tracker'[r].seen = StatusesIn(rp)
        /\ tracker'[r].status = report[rp]
        /\ tracker'[r].drafts = tracker[r].drafts
        /\ tracker'[r].added = tracker[r].added
        /\ tracker'[r].edited = tracker[r].edited
        /\ tracker'[r].removed = tracker[r].removed
    BY <1>t, <2>1 DEF Tracker
  <2> QED
    BY <2>2, <2>3 DEF rp
<1> QED
  BY <1>1, <1>2

\* The loop over the entries of a Finalise.
LEMMA EntryEffect ==
    ASSUME TypeOK, NEW r \in Request, DeleteObject(r) \/ UpdateObject(r)
    PROVE  LET t == tracker[r]  u == tracker'[r] IN
           /\ u.journey = t.journey /\ u.status = t.status /\ u.seen = t.seen
           /\ u.drafts = t.drafts /\ u.added = t.added
           /\ u.removed = t.removed \/ (\E o \in Object :
                 u.removed = t.removed \cup {o} /\ Found(r, o))
<1> DEFINE e == CurrentEntry(r)
<1>t. tracker[r] \in Tracker
  BY DEF TypeOK
<1>1. CASE DeleteObject(r)
  <2> DEFINE removed == IF Found(r, e.id) THEN tracker[r].removed \cup {e.id}
                                        ELSE tracker[r].removed
  <2>1. tracker'[r] = [tracker[r] EXCEPT !.next = @ + 1, !.removed = removed]
    BY <1>1 DEF DeleteObject, Track, TypeOK
  <2>2. removed = tracker[r].removed \/ (\E o \in Object :
           removed = tracker[r].removed \cup {o} /\ Found(r, o))
    BY DEF Found
  <2> HIDE DEF removed
  <2> QED
    BY <1>t, <2>1, <2>2 DEF Tracker
<1>2. CASE UpdateObject(r)
  <2>1. PICK edited, placed :
           tracker'[r] = [tracker[r] EXCEPT !.next = @ + 1, !.edited = edited,
                                            !.placed = placed]
    BY <1>2 DEF UpdateObject, Track, TypeOK
  <2> QED
    BY <1>t, <2>1 DEF Tracker
<1> QED
  BY <1>1, <1>2

\* Every other handler step leaves the new rows, or empties the context.
LEMMA KeepEffect ==
    ASSUME TypeOK, NEW r \in Request, Receive(r) \/ Handle(r),
           ~ GetOrCreateDraft(r), ~ SyncObject(r), ~ CreateObject(r)
    PROVE  \/ /\ tracker'[r].drafts = tracker[r].drafts
              /\ tracker'[r].added = tracker[r].added
           \/ tracker'[r] = NoTracker
<1> USE DEF TypeOK, Track
<1>t. tracker[r] \in Tracker
  OBVIOUS
<1>1. CASE Receive(r)
  BY <1>1, ReceiveEffect
<1>2. CASE DraftNotFound(r) \/ ObjectNotFound(r) \/ Fail(r)
           \/ CommitTransaction(r) \/ ReviewSave(r)
  BY <1>2, DisposeEffect
     DEF DraftNotFound, ObjectNotFound, Fail, CommitTransaction, ReviewSave
<1>3. CASE BuildTypeCache(r) \/ EntriesDone(r) \/ TransientError(r)
  BY <1>3 DEF BuildTypeCache, EntriesDone, TransientError
<1>4. CASE GetDraft(r) \/ ReviewRead(r)
  BY <1>4, LoadEffect
<1>5. CASE DeleteObject(r) \/ UpdateObject(r)
  BY <1>5, EntryEffect
<1> QED
  BY <1>1, <1>2, <1>3, <1>4, <1>5 DEF Handle
\* The steps that only move the control of a request.
LEMMA MoveEffect ==
    ASSUME TypeOK, NEW r \in Request,
           BuildTypeCache(r) \/ EntriesDone(r) \/ TransientError(r)
    PROVE  /\ tracker' = tracker /\ input' = input
           /\ TransientError(r) \/ stale' = stale
           /\ TransientError(r) => pc'[r] = "begin"
           /\ TransientError(r) \/ (pc[r] \in {"types", "entries"}
                                      /\ pc'[r] \in {"entries", "commit"})
BY DEF TypeOK, BuildTypeCache, EntriesDone, TransientError

\* The steps that end a request.
LEMMA EndEffect ==
    ASSUME NEW r \in Request,
           \/ DraftNotFound(r) \/ ObjectNotFound(r) \/ Fail(r)
           \/ CommitTransaction(r) \/ ReviewSave(r)
    PROVE  Dispose(r)
BY DEF DraftNotFound, ObjectNotFound, Fail, CommitTransaction, ReviewSave

\* A row with another status.
LEMMA RowWithStatus ==
    ASSUME NEW row \in ObjectRow, NEW status
    PROVE  /\ [row EXCEPT !.status = status].status = status
           /\ [row EXCEPT !.status = status].report = row.report
BY DEF ObjectRow

\* What CommitTransaction writes, for each of the two operations.
LEMMA CommitEffect ==
    ASSUME TypeOK, Consistent, NEW r \in Request, CommitTransaction(r)
    PROVE  /\ pc[r] = "commit" /\ pc'[r] = "idle" /\ tracker[r].journey \in Report
           /\ \A rp \in Report : report'[rp] =
                 IF rp \in tracker[r].drafts THEN "draft"
                 ELSE IF rp = tracker[r].journey /\ input[r].op = "finalise"
                      THEN "submitted" ELSE report[rp]
           /\ \A o \in Object :
                 /\ o \in tracker[r].added =>
                       object'[o].report = tracker[r].journey /\ object'[o].status = "draft"
                 /\ o \notin tracker[r].added /\ o \in tracker[r].removed =>
                       object'[o].report = object[o].report /\ object'[o].status = "deleted"
                 /\ o \notin tracker[r].added /\ o \notin tracker[r].removed =>
                       object'[o] = object[o]
           /\ \/ input[r].op = "sync" /\ tracker[r].removed = {}
              \/ /\ input[r].op = "finalise" /\ tracker[r].drafts = {} /\ InTransaction(r)
                 /\ tracker[r].journey = input[r].journey
                 /\ tracker[r].status = "submitted"
<1>1. /\ pc[r] = "commit" /\ input[r].op \in {"sync", "finalise"}
      /\ TrackerFits(r) /\ ControlFits(r)
  BY DEF CommitTransaction, Consistent, ControlOK
<1>2. pc'[r] = "idle"
  BY EndEffect, DisposeEffect
<1>3. tracker[r].journey \in Report
  BY <1>1 DEF ControlFits
<1>4. (input[r].op = "finalise") <=> (tracker[r].status = "submitted")
  BY <1>1 DEF TrackerFits
<1>5. \/ input[r].op = "sync" /\ tracker[r].removed = {}
      \/ /\ input[r].op = "finalise" /\ tracker[r].drafts = {} /\ InTransaction(r)
         /\ tracker[r].journey = input[r].journey
         /\ tracker[r].status = "submitted"
  BY <1>1 DEF TrackerFits, InTransaction
<1>6. ASSUME NEW rp \in Report
      PROVE  report'[rp] = IF rp \in tracker[r].drafts THEN "draft"
                           ELSE IF rp = tracker[r].journey /\ input[r].op = "finalise"
                                THEN "submitted" ELSE report[rp]
  BY <1>4 DEF CommitTransaction
<1>7. ASSUME NEW o \in Object
      PROVE  /\ o \in tracker[r].added =>
                   object'[o].report = tracker[r].journey /\ object'[o].status = "draft"
             /\ o \notin tracker[r].added /\ o \in tracker[r].removed =>
                   object'[o].report = object[o].report /\ object'[o].status = "deleted"
             /\ o \notin tracker[r].added /\ o \notin tracker[r].removed =>
                   object'[o] = object[o]
  <2> DEFINE gone == [object[o] EXCEPT !.status = "deleted"]
  <2>1. gone.status = "deleted" /\ gone.report = object[o].report
    BY RowWithStatus DEF TypeOK
  <2>2. object'[o] = IF o \in tracker[r].added
                     THEN [report |-> tracker[r].journey, status |-> "draft"]
                     ELSE IF o \in tracker[r].removed THEN gone ELSE object[o]
    BY DEF CommitTransaction
  <2> HIDE DEF gone
  <2> QED
    BY <2>1, <2>2
<1> QED
  BY <1>1, <1>2, <1>3, <1>5, <1>6, <1>7

\* What ReviewSave writes: a verdict on a row that is there, if it is a new one, and
\* a decision only.
LEMMA ReviewEffect ==
    ASSUME TypeOK, Consistent, NEW r \in Request, ReviewSave(r)
    PROVE  \E rp \in Report, o \in Object, verdict \in Decided, new \in Decided :
             /\ Exists(o) /\ report[rp] \in ReportStatus
             /\ object'[o].status = verdict \/ object'[o].status = object[o].status
             /\ object'[o].report = object[o].report
             /\ \A x \in Object \ {o} : object'[x] = object[x]
             /\ \A x \in Report \ {rp} : report'[x] = report[x]
             /\ \A q \in Request \ {r} :
                   InTransaction(q) => o \in stale'[q] /\ stale[q] \subseteq stale'[q]
             /\ \/ report'[rp] = report[rp]
                \/ /\ report'[rp] = new
                   /\ \A q \in Request \ {r} : InTransaction(q) => rp \in stale'[q]
<1> DEFINE t == tracker[r]
           o == input[r].object
           new == Outcome([t.seen EXCEPT ![o] = input[r].verdict], t.status)
           rp == t.journey
<1>1. pc[r] = "commit" /\ input[r].op = "review" /\ TrackerFits(r) /\ ControlFits(r)
  BY DEF ReviewSave, Consistent, ControlOK
<1>2. rp \in Report /\ o \in Object /\ input[r].verdict \in Decided
  BY <1>1, InputOf DEF ControlFits, ReviewInput
<1>3. report[rp] \in ReportStatus
  BY <1>1 DEF Consistent, References, TrackerFits
<1>4. new = t.status \/ new \in Decided
  BY OutcomeCases
<1> HIDE DEF new
<1> DEFINE status == IF t.seen[o] = input[r].verdict THEN object[o].status
                                                     ELSE input[r].verdict
<1>5. /\ Exists(o) /\ object' = [object EXCEPT ![o].status = status]
      /\ report' = [report EXCEPT ![rp] = IF new = t.status THEN @ ELSE new]
      /\ MarkStale(r, {o} \cup (IF new = t.status THEN {} ELSE {rp}))
  BY DEF ReviewSave, new
<1>6. \A q \in Request \ {r} : InTransaction(q) =>
         /\ o \in stale'[q] /\ stale[q] \subseteq stale'[q]
         /\ new # t.status => rp \in stale'[q]
  BY <1>5 DEF MarkStale
<1>7. /\ object'[o].status = status /\ object'[o].report = object[o].report
      /\ \A x \in Object \ {o} : object'[x] = object[x]
  <2> DEFINE row == [object[o] EXCEPT !.status = status]
  <2>1. row.status = status /\ row.report = object[o].report
    BY <1>2, RowWithStatus DEF TypeOK
  <2>2. object' = [object EXCEPT ![o] = row]
    BY <1>5
  <2> HIDE DEF row
  <2> QED
    BY <1>2, <2>1, <2>2 DEF TypeOK
<1>8. /\ \A x \in Report \ {rp} : report'[x] = report[x]
      /\ report'[rp] = IF new = t.status THEN report[rp] ELSE new
  BY <1>2, <1>5 DEF TypeOK
<1>9. CASE new = t.status
  BY <1>2, <1>3, <1>5, <1>6, <1>7, <1>8, <1>9
<1>10. CASE new # t.status
  BY <1>2, <1>3, <1>4, <1>5, <1>6, <1>7, <1>8, <1>10
<1> QED
  BY <1>9, <1>10

\* Rows are never forgotten: a report keeps a status, an object its report, and an
\* object with a verdict is never without one again.
LEMMA RowsStay ==
    ASSUME TypeOK, Consistent, NEW r \in Request, Receive(r) \/ Handle(r)
    PROVE  /\ \A rp \in Report : report[rp] \in ReportStatus => report'[rp] \in ReportStatus
           /\ \A o \in Object : object[o].status # "none" =>
                 /\ object'[o].status # "none" /\ object'[o].report = object[o].report
                 /\ object[o].status # "draft" => object'[o].status # "draft"
<1>1. CASE CommitTransaction(r)
  <2>1. ASSUME NEW rp \in Report, report[rp] \in ReportStatus
        PROVE  report'[rp] \in ReportStatus
    BY <1>1, <2>1, CommitEffect DEF ReportStatus
  <2>2. ASSUME NEW o \in Object, object[o].status # "none"
        PROVE  /\ object'[o].status # "none" /\ object'[o].report = object[o].report
               /\ object[o].status # "draft" => object'[o].status # "draft"
    <3>1. o \notin tracker[r].added
      BY <2>2 DEF Consistent, FreshKeys, NoRow
    <3> QED
      BY <1>1, <2>2, <3>1, CommitEffect
  <2> QED
    BY <2>1, <2>2
<1>2. CASE ReviewSave(r)
  <2>1. "none" \notin Decided /\ "draft" \notin Decided /\ Decided \subseteq ReportStatus
    BY DEF Decided, ReportStatus
  <2>2. PICK rp \in Report, o \in Object, verdict \in Decided, new \in Decided :
           /\ object'[o].status = verdict \/ object'[o].status = object[o].status
           /\ object'[o].report = object[o].report
           /\ \A x \in Object \ {o} : object'[x] = object[x]
           /\ \A x \in Report \ {rp} : report'[x] = report[x]
           /\ report'[rp] = report[rp] \/ report'[rp] = new
    BY <1>2, ReviewEffect
  <2> QED
    BY <2>1, <2>2
<1>3. CASE ~ CommitTransaction(r) /\ ~ ReviewSave(r)
  BY <1>3, Quiet
<1> QED
  BY <1>1, <1>2, <1>3

-----------------------------------------------------------------------------
(* The inductive invariant, one conjunct at a time. *)

\* Where the operations can be.
LEMMA ControlStep ==
    ASSUME TypeOK, ControlOK, [Next]_vars
    PROVE  ControlOK'
<1> SUFFICES ASSUME Next PROVE ControlOK'
  BY DEF ControlOK, ControlFits, vars
<1> PICK r \in Request : Receive(r) \/ Handle(r)
  BY DEF Next
<1> SUFFICES ASSUME NEW q \in Request PROVE ControlFits(q)'
  BY DEF ControlOK
<1>1. CASE q # r
  BY <1>1, Frame DEF ControlOK, ControlFits
<1>2. CASE q = r
  <2> USE DEF TypeOK
  <2>1. CASE Receive(r)
    BY <1>2, <2>1, ReceiveEffect DEF ControlFits
  <2>2. CASE DraftNotFound(r) \/ ObjectNotFound(r) \/ Fail(r)
             \/ CommitTransaction(r) \/ ReviewSave(r)
    <3>1. Dispose(r)
      BY <2>2 DEF DraftNotFound, ObjectNotFound, Fail, CommitTransaction, ReviewSave
    <3> QED
      BY <1>2, <3>1, DisposeEffect DEF ControlFits, NoInput
  <2>3. CASE GetOrCreateDraft(r)
    <3>1. input'[r] = input[r] /\ input[r].op = "sync" /\ pc'[r] = "types"
      BY <2>3 DEF GetOrCreateDraft
    <3>2. tracker'[r].journey \in Report
      BY <2>3, DraftEffect DEF IsDraft, FreshReports
    <3> QED
      BY <1>2, <3>1, <3>2 DEF ControlFits
  <2>4. CASE SyncObject(r) \/ CreateObject(r)
    <3>1. tracker'[r].journey = tracker[r].journey
      BY <2>4, CollectEffect
    <3>2. /\ input'[r] = input[r] /\ pc[r] \in {"types", "entries"}
          /\ SyncObject(r) => input[r].op = "sync" /\ pc'[r] = "commit"
          /\ CreateObject(r) => pc[r] = "entries" /\ pc'[r] = "entries"
      BY <2>4 DEF SyncObject, CreateObject
    <3> QED
      BY <1>2, <2>4, <3>1, <3>2 DEF ControlOK, ControlFits
  <2>5. CASE GetDraft(r) \/ ReviewRead(r)
    <3>1. tracker'[r].journey = input[r].journey
      BY <2>5, LoadEffect
    <3>2. input[r].journey \in Report
      BY <2>5, InputOf DEF GetDraft, ReviewRead, FinaliseInput, ReviewInput
    <3>3. /\ input'[r] = input[r]
          /\ \/ input[r].op = "finalise" /\ pc'[r] = "types"
             \/ input[r].op = "review" /\ pc'[r] = "commit"
      BY <2>5 DEF GetDraft, ReviewRead
    <3> QED
      BY <1>2, <3>1, <3>2, <3>3 DEF ControlFits
  <2>6. CASE DeleteObject(r) \/ UpdateObject(r)
    <3>1. tracker'[r].journey = tracker[r].journey
      BY <2>6, EntryEffect
    <3>2. pc'[r] = pc[r] /\ input'[r] = input[r]
      BY <2>6 DEF DeleteObject, UpdateObject
    <3> QED
      BY <1>2, <3>1, <3>2 DEF ControlOK, ControlFits
  <2>7. CASE BuildTypeCache(r) \/ EntriesDone(r) \/ TransientError(r)
    BY <1>2, <2>7 DEF BuildTypeCache, EntriesDone, TransientError, AtQuery,
                      ControlOK, ControlFits
  <2> QED
    BY <2>1, <2>2, <2>3, <2>4, <2>5, <2>6, <2>7 DEF Handle
<1> QED
  BY <1>1, <1>2

\* The keys a request inserts under: those it had, or fresh ones; none at its end.
LEMMA OwnKeys ==
    ASSUME TypeOK, NEW r \in Request, Receive(r) \/ Handle(r)
    PROVE  /\ tracker'[r].drafts \subseteq tracker[r].drafts \cup FreshReports
           /\ tracker'[r].added \subseteq tracker[r].added \cup FreshObjects
           /\ CommitTransaction(r) \/ ReviewSave(r) =>
                 tracker'[r].drafts = {} /\ tracker'[r].added = {}
<1>0. NoTracker.drafts = {} /\ NoTracker.added = {}
  BY DEF NoTracker
<1>1. CASE CommitTransaction(r) \/ ReviewSave(r)
  BY <1>0, <1>1, EndEffect, DisposeEffect
<1>2. CASE ~ CommitTransaction(r) /\ ~ ReviewSave(r)
  <2>1. CASE GetOrCreateDraft(r)
    BY <1>2, <2>1, DraftEffect
  <2>2. CASE SyncObject(r) \/ CreateObject(r)
    BY <1>2, <2>2, CollectEffect
  <2>3. CASE ~ GetOrCreateDraft(r) /\ ~ SyncObject(r) /\ ~ CreateObject(r)
    BY <1>0, <1>2, <2>3, KeepEffect
  <2> QED
    BY <2>1, <2>2, <2>3
<1> QED
  BY <1>1, <1>2

\* No request takes the keys another one inserts under.
LEMMA OthersKeys ==
    ASSUME TypeOK, Consistent, NEW r \in Request, Receive(r) \/ Handle(r),
           NEW q \in Request \ {r}
    PROVE  /\ \A rp \in tracker[q].drafts : report'[rp] = "none"
           /\ \A o \in tracker[q].added : object'[o] = NoRow
<1>1. /\ \A rp \in tracker[q].drafts : rp \in Report /\ report[rp] = "none"
      /\ \A o \in tracker[q].added : o \in Object /\ object[o] = NoRow
  <2>1. tracker[q] \in Tracker
    BY DEF TypeOK
  <2> QED
    BY <2>1 DEF Tracker, Consistent, FreshKeys
<1>2. CASE CommitTransaction(r)
  <2>1. ASSUME NEW rp \in tracker[q].drafts
        PROVE  report'[rp] = "none"
    <3>1. rp \notin tracker[r].drafts
      BY DEF Consistent, FreshKeys
    <3>2. input[r].op = "finalise" => report[tracker[r].journey] \in ReportStatus
      BY <1>2, CommitEffect DEF Consistent, References
    <3> QED
      BY <1>1, <1>2, <3>1, <3>2, CommitEffect DEF ReportStatus
  <2>2. ASSUME NEW o \in tracker[q].added
        PROVE  object'[o] = NoRow
    <3>1. o \notin tracker[r].added
      BY DEF Consistent, FreshKeys
    <3>2. o \notin tracker[r].removed
      BY <1>1, <1>2, CommitEffect DEF Consistent, KnownBelong, Known, NoRow
    <3> QED
      BY <1>1, <1>2, <3>1, <3>2, CommitEffect
  <2> QED
    BY <2>1, <2>2
<1>3. CASE ReviewSave(r)
  <2>1. PICK rp \in Report, o \in Object :
           /\ Exists(o) /\ report[rp] \in ReportStatus
           /\ \A x \in Object \ {o} : object'[x] = object[x]
           /\ \A x \in Report \ {rp} : report'[x] = report[x]
    BY <1>3, ReviewEffect
  <2>2. rp \notin tracker[q].drafts /\ o \notin tracker[q].added
    BY <1>1, <2>1 DEF Exists, ObjectStatus, ReportStatus, NoRow
  <2> QED
    BY <1>1, <2>1, <2>2
<1>4. CASE ~ CommitTransaction(r) /\ ~ ReviewSave(r)
  BY <1>1, <1>4, Quiet
<1> QED
  BY <1>2, <1>3, <1>4

\* Two requests never insert under one key, nor over a row, whatever steps they take.
LEMMA FreshKeysStep ==
    ASSUME TypeOK, Consistent, NEW r \in Request, Receive(r) \/ Handle(r)
    PROVE  FreshKeys'
<1>1. /\ \A rp \in tracker'[r].drafts : report'[rp] = "none"
      /\ \A o \in tracker'[r].added : object'[o] = NoRow
  <2>1. CASE CommitTransaction(r) \/ ReviewSave(r)
    BY <2>1, OwnKeys
  <2>2. CASE ~ CommitTransaction(r) /\ ~ ReviewSave(r)
    BY <2>2, OwnKeys, Quiet DEF Consistent, FreshKeys, FreshReports, FreshObjects
  <2> QED
    BY <2>1, <2>2
<1>2. ASSUME NEW q \in Request \ {r}
      PROVE  /\ tracker'[q].drafts \cap tracker'[r].drafts = {}
             /\ tracker'[q].added \cap tracker'[r].added = {}
  <2>1. /\ tracker[q].drafts \cap (tracker[r].drafts \cup FreshReports) = {}
        /\ tracker[q].added \cap (tracker[r].added \cup FreshObjects) = {}
    BY DEF Consistent, FreshKeys, FreshReports, FreshObjects
  <2>2. tracker'[q] = tracker[q]
    BY Frame
  <2> QED
    BY <2>1, <2>2, OwnKeys
<1>3. \A q \in Request \ {r} :
         /\ tracker'[q] = tracker[q]
         /\ \A rp \in tracker'[q].drafts : report'[rp] = "none"
         /\ \A o \in tracker'[q].added : object'[o] = NoRow
  BY Frame, OthersKeys
<1>4. \A q, s \in Request \ {r} : q # s =>
         /\ tracker'[q].drafts \cap tracker'[s].drafts = {}
         /\ tracker'[q].added \cap tracker'[s].added = {}
  BY <1>3 DEF Consistent, FreshKeys
<1> QED
  BY <1>1, <1>2, <1>3, <1>4 DEF FreshKeys

\* A handler works on one message until the request ends.
LEMMA InputEffect ==
    ASSUME TypeOK, NEW r \in Request, Handle(r)
    PROVE  \/ input'[r] = input[r]
           \/ input'[r] = NoInput /\ pc'[r] = "idle" /\ tracker'[r] = NoTracker
<1>1. CASE \/ DraftNotFound(r) \/ ObjectNotFound(r) \/ Fail(r)
           \/ CommitTransaction(r) \/ ReviewSave(r)
  BY <1>1, EndEffect, DisposeEffect
<1>2. CASE GetOrCreateDraft(r) \/ SyncObject(r) \/ GetDraft(r) \/ BuildTypeCache(r)
  BY <1>2 DEF GetOrCreateDraft, SyncObject, GetDraft, BuildTypeCache
<1>3. CASE \/ DeleteObject(r) \/ UpdateObject(r) \/ CreateObject(r) \/ EntriesDone(r)
           \/ TransientError(r) \/ ReviewRead(r)
  BY <1>3 DEF DeleteObject, UpdateObject, CreateObject, EntriesDone, TransientError,
              ReviewRead
<1> QED
  BY <1>1, <1>2, <1>3 DEF Handle

\* The report a request works on is a row or is about to be one.
LEMMA JourneyStep ==
    ASSUME TypeOK, Consistent, NEW r \in Request, Receive(r) \/ Handle(r),
           pc'[r] \in {"types", "entries", "commit"}
    PROVE  \/ tracker'[r].journey \in tracker'[r].drafts
           \/ report'[tracker'[r].journey] \in ReportStatus
<1>1. CASE GetOrCreateDraft(r)
  <2>1. report' = report
    BY <1>1 DEF GetOrCreateDraft, database
  <2> QED
    BY <1>1, <2>1, DraftEffect DEF IsDraft, ReportStatus
<1>2. CASE SyncObject(r) \/ CreateObject(r)
  <2>1. report' = report /\ pc[r] \in {"types", "entries"}
    BY <1>2 DEF SyncObject, CreateObject, database
  <2> QED
    BY <1>2, <2>1, CollectEffect DEF Consistent, References
<1>3. CASE GetDraft(r) \/ ReviewRead(r)
  <2>1. report' = report /\ input[r].op \in {"finalise", "review"}
    BY <1>3 DEF GetDraft, ReviewRead, database
  <2> QED
    BY <1>3, <2>1, LoadEffect DEF Consistent, References
<1>4. CASE DeleteObject(r) \/ UpdateObject(r)
  <2>1. report' = report /\ pc[r] = "entries"
    BY <1>4 DEF DeleteObject, UpdateObject, database
  <2> QED
    BY <1>4, <2>1, EntryEffect DEF Consistent, References
<1>5. CASE BuildTypeCache(r) \/ EntriesDone(r) \/ TransientError(r)
  <2>1. report' = report
    BY <1>5 DEF BuildTypeCache, EntriesDone, TransientError, database
  <2> QED
    BY <1>5, <2>1, MoveEffect DEF Consistent, References
<1>6. CASE \/ DraftNotFound(r) \/ ObjectNotFound(r) \/ Fail(r)
           \/ CommitTransaction(r) \/ ReviewSave(r)
  BY <1>6, EndEffect, DisposeEffect
<1>7. CASE Receive(r)
  BY <1>7, ReceiveEffect
<1> QED
  BY <1>1, <1>2, <1>3, <1>4, <1>5, <1>6, <1>7 DEF Handle

\* Every step leaves the reports that objects and requests refer to in place.
LEMMA ReferencesStep ==
    ASSUME TypeOK, Consistent, NEW r \in Request, Receive(r) \/ Handle(r)
    PROVE  References'
<1>1. ASSUME NEW o \in Object, Exists(o)'
      PROVE  object'[o].report \in Report /\ report'[object'[o].report] \in ReportStatus
  <2>1. CASE Exists(o)
    <3>1. object[o].status # "none"
      BY <2>1 DEF Exists, ObjectStatus
    <3>2. object[o].report \in Report /\ report[object[o].report] \in ReportStatus
      BY <2>1 DEF Consistent, References
    <3> QED
      BY <3>1, <3>2, RowsStay
  <2>2. CASE ~ Exists(o)
    <3>1. CommitTransaction(r)
      <4>1. CASE ReviewSave(r)
        <5>1. PICK x \in Object :
                 Exists(x) /\ \A y \in Object \ {x} : object'[y] = object[y]
          BY <4>1, ReviewEffect
        <5> QED
          BY <1>1, <2>2, <5>1 DEF Exists
      <4>2. CASE ~ CommitTransaction(r) /\ ~ ReviewSave(r)
        BY <1>1, <2>2, <4>2, Quiet DEF Exists
      <4> QED
        BY <4>1, <4>2
    <3>2. o \in tracker[r].added
      BY <1>1, <2>2, <3>1, CommitEffect DEF Exists, ObjectStatus
    <3>3. object'[o].report = tracker[r].journey /\ tracker[r].journey \in Report
      BY <3>1, <3>2, CommitEffect
    <3>4. \/ tracker[r].journey \in tracker[r].drafts
          \/ report[tracker[r].journey] \in ReportStatus
      BY <3>1, CommitEffect DEF Consistent, References
    <3> QED
      BY <3>1, <3>3, <3>4, CommitEffect DEF ReportStatus
  <2> QED
    BY <2>1, <2>2
<1>2. ASSUME NEW q \in Request, input'[q].op \in {"finalise", "review"}
      PROVE  report'[input'[q].journey] \in ReportStatus
  <2>1. CASE input'[q] = input[q]
    <3>1. input[q].journey \in Report
      BY <1>2, <2>1, InputOf DEF FinaliseInput, ReviewInput
    <3> QED
      BY <1>2, <2>1, <3>1, RowsStay DEF Consistent, References
  <2>2. CASE q = r /\ Receive(r)
    <3>1. input'[r].journey \in Report /\ report[input'[r].journey] # "none"
      BY <1>2, <2>2, ReceiveEffect
    <3>2. ~ CommitTransaction(r) /\ ~ ReviewSave(r)
      BY <2>2, ReceiveEffect DEF CommitTransaction, ReviewSave
    <3> QED
      BY <2>2, <3>1, <3>2, Quiet DEF TypeOK
  <2>3. CASE q = r /\ Handle(r) /\ input'[r] # input[r]
    BY <1>2, <2>3, InputEffect DEF NoInput
  <2> QED
    BY <2>1, <2>2, <2>3, Frame
<1>3. ASSUME NEW q \in Request, pc'[q] \in {"types", "entries", "commit"}
      PROVE  \/ tracker'[q].journey \in tracker'[q].drafts
             \/ report'[tracker'[q].journey] \in ReportStatus
  <2>1. CASE q # r
    <3>1. tracker[q].journey \in Report
      BY <1>3, <2>1, Frame DEF Consistent, ControlOK, ControlFits
    <3> QED
      BY <1>3, <2>1, <3>1, Frame, RowsStay DEF Consistent, References
  <2> QED
    BY <1>3, <2>1, JourneyStep
<1> QED
  BY <1>1, <1>2, <1>3 DEF References, Exists

\* What a request holds in memory keeps fitting its message.
LEMMA TrackerStep ==
    ASSUME TypeOK, Consistent, NEW r \in Request, Receive(r) \/ Handle(r),
           NEW q \in Request
    PROVE  TrackerFits(q)'
<1> USE DEF TrackerFits
<1>f. TrackerFits(r) /\ ControlFits(r) /\ TrackerFits(q)
  BY DEF Consistent, ControlOK
<1>1. CASE q # r
  BY <1>1, <1>f, Frame
<1>2. CASE q = r /\ Receive(r)
  <2>1. tracker'[r] = NoTracker /\ pc'[r] = "begin"
        /\ input'[r].op \in {"sync", "finalise", "review"}
    BY <1>2, <1>f, ReceiveEffect DEF ControlFits
  <2> QED
    BY <1>2, <2>1 DEF NoTracker
<1>3. CASE q = r /\ GetOrCreateDraft(r)
  <2>1. input'[r] = input[r] /\ input[r].op = "sync"
    BY <1>3 DEF GetOrCreateDraft
  <2> QED
    BY <1>3, <1>f, <2>1, DraftEffect
<1>4. CASE q = r /\ (SyncObject(r) \/ CreateObject(r))
  <2>1. /\ input'[r] = input[r]
        /\ \/ input[r].op = "sync"
           \/ pc[r] = "entries" /\ pc'[r] = "entries" /\ input[r].op = "finalise"
    BY <1>4, <1>f, InputOf DEF SyncObject, CreateObject, ControlFits
  <2> QED
    BY <1>4, <1>f, <2>1, CollectEffect
<1>5. CASE q = r /\ GetDraft(r)
  <2>1. input'[r] = input[r] /\ input[r].op = "finalise"
    BY <1>5 DEF GetDraft
  <2> QED
    BY <1>5, <1>f, <2>1, LoadEffect
<1>6. CASE q = r /\ ReviewRead(r)
  <2>1. input'[r] = input[r] /\ input[r].op = "review"
    BY <1>6 DEF ReviewRead
  <2>2. report[input[r].journey] \in ReportStatus
    BY <2>1 DEF Consistent, References
  <2> QED
    BY <1>6, <1>f, <2>1, <2>2, LoadEffect
<1>7. CASE q = r /\ (DeleteObject(r) \/ UpdateObject(r))
  <2>1. /\ input'[r] = input[r] /\ pc[r] = "entries" /\ pc'[r] = "entries"
        /\ input[r].op = "finalise"
    BY <1>7, <1>f, InputOf DEF DeleteObject, UpdateObject, ControlFits
  <2> QED
    BY <1>7, <1>f, <2>1, EntryEffect
<1>8. CASE q = r /\ (BuildTypeCache(r) \/ EntriesDone(r) \/ TransientError(r))
  <2>1. input[r].op \in {"sync", "finalise"}
    BY <1>8, <1>f, InputOf
       DEF BuildTypeCache, EntriesDone, TransientError, AtQuery, ControlFits
  <2>2. /\ tracker'[r] = tracker[r] /\ input'[r] = input[r]
        /\ pc'[r] # "begin" => pc[r] # "begin"
    BY <1>8, MoveEffect
  <2> QED
    BY <1>8, <1>f, <2>1, <2>2
<1>9. CASE q = r /\ (\/ DraftNotFound(r) \/ ObjectNotFound(r) \/ Fail(r)
                     \/ CommitTransaction(r) \/ ReviewSave(r))
  BY <1>9, EndEffect, DisposeEffect DEF NoInput
<1> QED
  BY <1>1, <1>2, <1>3, <1>4, <1>5, <1>6, <1>7, <1>8, <1>9 DEF Handle

\* A commit makes every existing row it writes stale for the open transactions.
LEMMA CommitMarks ==
    ASSUME NEW r \in Request, CommitTransaction(r),
           NEW q \in Request \ {r}, InTransaction(q)
    PROVE  /\ stale[q] \subseteq stale'[q] /\ tracker[r].removed \subseteq stale'[q]
           /\ tracker[r].status = "submitted" => tracker[r].journey \in stale'[q]
BY DEF CommitTransaction, MarkStale, Written

\* The steps a Finalise takes inside its transaction once it has read the report.
LEMMA InsideTransaction ==
    ASSUME TypeOK, Consistent, NEW r \in Request, Receive(r) \/ Handle(r),
           input'[r].op = "finalise", pc'[r] # "begin", ~ GetDraft(r)
    PROVE  /\ \/ BuildTypeCache(r) \/ EntriesDone(r) \/ CreateObject(r)
              \/ DeleteObject(r) \/ UpdateObject(r)
           /\ input'[r] = input[r] /\ InTransaction(r) /\ stale' = stale
           /\ attempt' = attempt /\ report' = report /\ object' = object
           /\ tracker'[r].journey = tracker[r].journey
           /\ tracker'[r].seen = tracker[r].seen
           /\ tracker'[r].removed = tracker[r].removed \/ (\E o \in Object :
                 tracker'[r].removed = tracker[r].removed \cup {o} /\ Found(r, o))
<1>1. ~ Receive(r) /\ ~ TransientError(r)
  BY ReceiveEffect, MoveEffect
<1>2. \/ BuildTypeCache(r) \/ EntriesDone(r) \/ CreateObject(r)
      \/ DeleteObject(r) \/ UpdateObject(r)
  <2>1. ~ (\/ DraftNotFound(r) \/ ObjectNotFound(r) \/ Fail(r)
           \/ CommitTransaction(r) \/ ReviewSave(r))
    BY EndEffect, DisposeEffect DEF NoInput
  <2>2. ~ GetOrCreateDraft(r) /\ ~ SyncObject(r) /\ ~ ReviewRead(r)
    BY DEF GetOrCreateDraft, SyncObject, ReviewRead
  <2> QED
    BY <1>1, <2>1, <2>2 DEF Handle
<1>3. /\ input'[r] = input[r] /\ stale' = stale /\ attempt' = attempt
      /\ report' = report /\ object' = object /\ pc[r] \in {"types", "entries"}
  BY <1>2 DEF BuildTypeCache, EntriesDone, CreateObject, DeleteObject, UpdateObject,
              database
<1>4. CASE BuildTypeCache(r) \/ EntriesDone(r)
  BY <1>1, <1>2, <1>3, <1>4, MoveEffect DEF InTransaction
<1>5. CASE CreateObject(r)
  BY <1>2, <1>3, <1>5, CollectEffect DEF InTransaction
<1>6. CASE DeleteObject(r) \/ UpdateObject(r)
  BY <1>2, <1>3, <1>6, EntryEffect DEF InTransaction
<1> QED
  BY <1>2, <1>4, <1>5, <1>6

\* What GetDraft reads in the first attempt is what the tables hold, on a retry it
\* adds to what was read before.
LEMMA SnapshotTaken ==
    ASSUME TypeOK, Consistent, NEW r \in Request, GetDraft(r)
    PROVE  /\ report' = report /\ object' = object /\ input'[r] = input[r]
           /\ input[r].op = "finalise" /\ input[r].journey \in Report
           /\ report[input[r].journey] = "draft"
           /\ \A o \in Object :
                 /\ tracker'[r].seen[o] # "none" =>
                       /\ attempt[r] = 0 => object[o].status = tracker'[r].seen[o]
                       /\ Exists(o) /\ object[o].report = input[r].journey
                 /\ object[o].report = input[r].journey /\ Exists(o) =>
                       tracker'[r].seen[o] # "none"
<1>1. /\ report' = report /\ object' = object /\ input'[r] = input[r]
      /\ input[r].op = "finalise" /\ input[r].journey \in Report
      /\ report[input[r].journey] = "draft"
  BY DEF GetDraft, database, IsDraft
<1>2. tracker'[r].seen = SeenIn(r, input[r].journey)
  BY LoadEffect
<1>3. attempt[r] = 0 => \A o \in Object : tracker[r].seen[o] = "none"
  BY DEF GetDraft, Consistent, StartsEmpty, NoTracker
<1>4. \A o \in Object : tracker[r].seen[o] # "none" =>
         object[o].report = input[r].journey /\ Exists(o)
  BY <1>1 DEF Consistent, KnownBelong, Known
<1>5. ASSUME NEW o \in Object, tracker'[r].seen[o] # "none"
      PROVE  /\ attempt[r] = 0 => object[o].status = tracker'[r].seen[o]
             /\ Exists(o) /\ object[o].report = input[r].journey
  BY <1>2, <1>3, <1>4, <1>5 DEF SeenIn, StatusesIn, ObjectsOf
<1>6. ASSUME NEW o \in Object, object[o].report = input[r].journey, Exists(o)
      PROVE  tracker'[r].seen[o] # "none"
  BY <1>2, <1>6 DEF SeenIn, StatusesIn, ObjectsOf, Exists, ObjectStatus
<1> QED
  BY <1>1, <1>5, <1>6

\* What a transaction has read holds of the rows that are not stale.
LEMMA SnapshotStep ==
    ASSUME TypeOK, Consistent, NEW r \in Request, Receive(r) \/ Handle(r),
           NEW q \in Request
    PROVE  SnapshotHolds(q)'
<1> SUFFICES ASSUME input'[q].op = "finalise", pc'[q] # "begin"
             PROVE  /\ tracker'[q].journey \notin stale'[q] =>
                          report'[tracker'[q].journey] = "draft"
                    /\ \A o \in Object :
                          attempt'[q] = 0 /\ tracker'[q].seen[o] # "none"
                              /\ o \notin stale'[q]
                            => object'[o].status = tracker'[q].seen[o]
                    /\ \A o \in tracker'[q].removed : tracker'[q].seen[o] # "none"
  BY DEF SnapshotHolds, InTransaction
<1>1. CASE q # r
  <2>1. tracker'[q] = tracker[q] /\ attempt'[q] = attempt[q] /\ InTransaction(q)
    BY <1>1, Frame DEF InTransaction
  <2>2. SnapshotHolds(q) /\ TrackerFits(r) /\ tracker[q].journey \in Report
    <3>1. pc[q] \in {"types", "entries", "commit"}
      BY <2>1, Frame DEF InTransaction, Consistent, ControlOK, ControlFits, TypeOK
    <3> QED
      BY <3>1 DEF Consistent, ControlOK, ControlFits
  <2>3. CASE CommitTransaction(r)
    <3>1. \A o \in tracker[r].added : object[o].status = "none"
      BY DEF Consistent, FreshKeys, NoRow
    <3>2. /\ stale[q] \subseteq stale'[q] /\ tracker[r].removed \subseteq stale'[q]
          /\ tracker[r].status = "submitted" => tracker[r].journey \in stale'[q]
      BY <1>1, <2>1, <2>3, CommitMarks
    <3> QED
      BY <2>1, <2>2, <2>3, <3>1, <3>2, CommitEffect DEF SnapshotHolds
  <2>4. CASE ReviewSave(r)
    <3>1. PICK rp \in Report, o \in Object :
             /\ \A x \in Object \ {o} : object'[x] = object[x]
             /\ \A x \in Report \ {rp} : report'[x] = report[x]
             /\ o \in stale'[q] /\ stale[q] \subseteq stale'[q]
             /\ report'[rp] = report[rp] \/ rp \in stale'[q]
      BY <1>1, <2>1, <2>4, ReviewEffect
    <3> QED
      BY <2>1, <2>2, <3>1 DEF SnapshotHolds
  <2>5. CASE ~ CommitTransaction(r) /\ ~ ReviewSave(r)
    BY <1>1, <2>1, <2>2, <2>5, Quiet DEF SnapshotHolds
  <2> QED
    BY <2>3, <2>4, <2>5
<1>2. CASE q = r /\ GetDraft(r)
  <2>1. tracker'[r].journey = input[r].journey /\ tracker'[r].removed = tracker[r].removed
    BY <1>2, LoadEffect
  <2>2. \A o \in tracker[r].removed :
           o \in Object /\ object[o].report = input[r].journey /\ Exists(o)
    <3>1. tracker[r] \in Tracker
      BY DEF TypeOK
    <3> QED
      BY <1>2, <3>1, SnapshotTaken DEF Consistent, KnownBelong, Known, Tracker
  <2>3. attempt' = attempt
    BY <1>2 DEF GetDraft
  <2> QED
    BY <1>2, <2>1, <2>2, <2>3, SnapshotTaken
<1>3. CASE q = r /\ ~ GetDraft(r)
  <2>1. SnapshotHolds(r)
    BY DEF Consistent
  <2> QED
    BY <1>3, <2>1, InsideTransaction DEF SnapshotHolds, Found
<1> QED
  BY <1>1, <1>2, <1>3

\* Only a retry brings a handler back to the start.
LEMMA StartsAgain ==
    ASSUME TypeOK, NEW r \in Request, Handle(r), pc'[r] = "begin"
    PROVE  TransientError(r)
<1>1. ~ (\/ DraftNotFound(r) \/ ObjectNotFound(r) \/ Fail(r)
         \/ CommitTransaction(r) \/ ReviewSave(r))
  BY EndEffect, DisposeEffect
<1>2. ~ (\/ GetOrCreateDraft(r) \/ SyncObject(r) \/ GetDraft(r) \/ ReviewRead(r)
         \/ BuildTypeCache(r) \/ EntriesDone(r))
  BY DEF GetOrCreateDraft, SyncObject, GetDraft, ReviewRead, BuildTypeCache,
         EntriesDone, TypeOK
<1>3. ~ (DeleteObject(r) \/ UpdateObject(r) \/ CreateObject(r))
  BY DEF DeleteObject, UpdateObject, CreateObject
<1> QED
  BY <1>1, <1>2, <1>3 DEF Handle

\* The first attempt starts with an empty context: a request that ends leaves
\* nothing, and a retry is counted.
LEMMA StartStep ==
    ASSUME TypeOK, Consistent, NEW r \in Request, Receive(r) \/ Handle(r),
           NEW q \in Request
    PROVE  StartsEmpty(q)'
<1> SUFFICES ASSUME pc'[q] = "begin", attempt'[q] = 0
             PROVE  tracker'[q] = NoTracker
  BY DEF StartsEmpty
<1>1. CASE q # r
  BY <1>1, Frame DEF Consistent, StartsEmpty
<1>2. CASE q = r /\ Receive(r)
  BY <1>2, ReceiveEffect DEF Consistent, ControlOK, ControlFits, TrackerFits
<1>3. CASE q = r /\ Handle(r)
  <2>1. attempt'[r] = attempt[r] + 1
    BY <1>3, StartsAgain DEF TransientError, TypeOK
  <2>2. attempt[r] \in Nat
    BY BoundsAssumption DEF TypeOK
  <2>3. attempt[r] + 1 # 0
    BY <2>2
  <2> QED
    BY <1>3, <2>1, <2>3
<1> QED
  BY <1>1, <1>2, <1>3

\* An object a Finalise knows leaves its report only when the report is submitted.
LEMMA KnownStep ==
    ASSUME TypeOK, Consistent, NEW r \in Request, Receive(r) \/ Handle(r),
           NEW q \in Request
    PROVE  KnownBelong(q)'
<1> SUFFICES ASSUME input'[q].op = "finalise", NEW o \in Known(q)'
             PROVE  /\ object'[o].report = input'[q].journey
                    /\ object'[o].status # "none"
                    /\ report'[input'[q].journey] = "draft" => Exists(o)'
  BY DEF KnownBelong, Exists
<1>k. KnownBelong(q) /\ Known(q) \subseteq Object
  <2>1. tracker[q] \in Tracker
    BY DEF TypeOK
  <2> QED
    BY <2>1 DEF Consistent, Known, Tracker
<1>1. CASE q # r
  <2>1. input'[q] = input[q] /\ o \in Known(q) /\ o \in Object
    BY <1>1, <1>k, Frame DEF Known
  <2>2. /\ object[o].report = input[q].journey /\ object[o].status # "none"
        /\ report[input[q].journey] = "draft" => Exists(o)
    BY <1>k, <2>1 DEF KnownBelong
  <2>3. object'[o].report = input[q].journey /\ object'[o].status # "none"
    BY <2>1, <2>2, RowsStay
  <2>4. input[q].journey \in Report /\ report[input[q].journey] \in ReportStatus
    BY <2>1, InputOf DEF FinaliseInput, Consistent, References
  <2>5. ASSUME report'[input[q].journey] = "draft"
        PROVE  Exists(o)'
    <3>1. CASE CommitTransaction(r)
      <4>1. input[q].journey \notin tracker[r].drafts
        BY <2>4 DEF Consistent, FreshKeys, ReportStatus
      <4>2. /\ report[input[q].journey] = "draft"
            /\ ~ (input[q].journey = tracker[r].journey /\ input[r].op = "finalise")
        BY <2>4, <2>5, <3>1, <4>1, CommitEffect
      <4>3. o \notin tracker[r].removed
        BY <2>2, <3>1, <4>2, CommitEffect DEF Consistent, KnownBelong, Known
      <4> QED
        BY <2>1, <2>2, <3>1, <4>2, <4>3, CommitEffect DEF Exists, ObjectStatus
    <3>2. CASE ReviewSave(r)
      <4>1. PICK rp \in Report, x \in Object, verdict \in Decided, new \in Decided :
               /\ object'[x].status = verdict \/ object'[x].status = object[x].status
               /\ \A y \in Object \ {x} : object'[y] = object[y]
               /\ \A y \in Report \ {rp} : report'[y] = report[y]
               /\ report'[rp] = report[rp] \/ report'[rp] = new
        BY <3>2, ReviewEffect
      <4>2. "draft" \notin Decided /\ Decided \subseteq ObjectStatus
        BY DEF Decided, ObjectStatus
      <4>3. Exists(o)
        BY <2>2, <2>4, <2>5, <4>1, <4>2
      <4> QED
        BY <2>1, <4>1, <4>2, <4>3 DEF Exists
    <3>3. CASE ~ CommitTransaction(r) /\ ~ ReviewSave(r)
      BY <2>2, <2>5, <3>3, Quiet DEF Exists
    <3> QED
      BY <3>1, <3>2, <3>3
  <2> QED
    BY <2>1, <2>3, <2>5
<1>2. CASE q = r /\ Receive(r)
  <2>1. tracker'[r] = NoTracker /\ pc'[r] = "begin"
    BY <1>2, ReceiveEffect DEF Consistent, ControlOK, ControlFits, TrackerFits
  <2> QED
    BY <1>2, <2>1 DEF Known, NoTracker
<1>3. CASE q = r /\ GetDraft(r)
  <2>1. tracker'[r].removed = tracker[r].removed
    BY <1>3, LoadEffect
  <2>2. CASE o \in tracker[r].removed
    BY <1>3, <1>k, <2>2, SnapshotTaken DEF KnownBelong, Known, Exists
  <2>3. CASE o \in Object /\ tracker'[r].seen[o] # "none"
    BY <1>3, <2>3, SnapshotTaken DEF Exists, ObjectStatus
  <2> QED
    BY <1>3, <2>1, <2>2, <2>3 DEF Known
<1>4. CASE q = r /\ pc'[r] # "begin" /\ ~ GetDraft(r)
  <2>1. o \in Known(r)
    BY <1>4, InsideTransaction DEF Known, Found
  <2> QED
    BY <1>4, <1>k, <2>1, InsideTransaction DEF KnownBelong, Exists
<1>5. CASE q = r /\ pc'[r] = "begin" /\ Handle(r)
  <2>1. TransientError(r)
    BY <1>5, StartsAgain
  <2>2. /\ report' = report /\ object' = object /\ input' = input
        /\ tracker' = tracker
    BY <2>1 DEF TransientError, database
  <2>3. o \in Known(r)
    BY <1>5, <2>2 DEF Known
  <2> QED
    BY <1>5, <1>k, <2>2, <2>3 DEF KnownBelong, Exists
<1> QED
  BY <1>1, <1>2, <1>3, <1>4, <1>5

-----------------------------------------------------------------------------
(* The theorems. *)

\* The empty database without requests.
LEMMA TypeInit ==
    ASSUME Init
    PROVE  TypeOK /\ ControlOK
<1>1. NoTracker \in Tracker /\ NoRow \in ObjectRow /\ 0 \in 0..MaxRetry
  BY BoundsAssumption DEF NoTracker, Tracker, NoRow, ObjectRow
<1>2. TypeOK
  BY <1>1 DEF Init, TypeOK
<1>3. ControlOK
  BY DEF Init, ControlOK, ControlFits, NoInput
<1> QED
  BY <1>2, <1>3

\* The tables and what the handlers hold in memory always have their types.
THEOREM TypeCorrect == Spec => []TypeOK
<1>1. Init => TypeOK /\ ControlOK
  BY TypeInit
<1>2. (TypeOK /\ ControlOK) /\ [Next]_vars => (TypeOK /\ ControlOK)'
  BY TypeStep, ControlStep
<1> QED
  BY <1>1, <1>2, PTL DEF Spec

\* The optimistic transactions are consistent: a request holds fresh keys, works
\* on a report that is there, and what its transaction read still holds of every
\* row nobody changed since.
THEOREM ConsistentAlways == Spec => []Consistent
<1>1. Init => TypeOK /\ Consistent
  <2> SUFFICES ASSUME Init PROVE Consistent
    BY TypeInit
  <2>1. FreshKeys
    BY DEF Init, FreshKeys, NoTracker
  <2>2. References
    BY DEF Init, References, Exists, ObjectStatus, NoRow, NoInput
  <2>3. ASSUME NEW r \in Request
        PROVE  TrackerFits(r) /\ StartsEmpty(r) /\ SnapshotHolds(r) /\ KnownBelong(r)
    BY DEF Init, TrackerFits, StartsEmpty, SnapshotHolds, KnownBelong, InTransaction,
           NoInput
  <2> QED
    BY <2>1, <2>2, <2>3, TypeInit DEF Consistent
<1>2. (TypeOK /\ Consistent) /\ [Next]_vars => (TypeOK /\ Consistent)'
  <2> SUFFICES ASSUME TypeOK, Consistent, [Next]_vars
               PROVE  TypeOK' /\ Consistent'
    OBVIOUS
  <2>1. TypeOK' /\ ControlOK'
    BY TypeStep, ControlStep DEF Consistent
  <2>2. CASE Next
    <3>1. PICK r \in Request : Receive(r) \/ Handle(r)
      BY <2>2 DEF Next
    <3>2. FreshKeys' /\ References'
      BY <3>1, FreshKeysStep, ReferencesStep
    <3>3. \A q \in Request : /\ TrackerFits(q)' /\ StartsEmpty(q)'
                             /\ SnapshotHolds(q)' /\ KnownBelong(q)'
      BY <3>1, TrackerStep, StartStep, SnapshotStep, KnownStep
    <3> QED
      BY <2>1, <3>2, <3>3 DEF Consistent
  <2>3. CASE UNCHANGED vars
    BY <2>1, <2>3 DEF vars, Consistent, FreshKeys, References, TrackerFits, StartsEmpty,
                      SnapshotHolds, KnownBelong, Known, InTransaction, Exists
  <2> QED
    BY <2>1, <2>2, <2>3
<1> QED
  BY <1>1, <1>2, PTL DEF Spec

-----------------------------------------------------------------------------
(* What conflict detection buys: the rows a Finalise changes are as it read them. *)

\* A commit of a Finalise that the database accepts finds the report a draft and, in
\* the first attempt, the objects it removes with the status they had when read.
LEMMA CommitSeesSnapshot ==
    ASSUME ConflictDetection, TypeOK, Consistent,
           NEW r \in Request, CommitTransaction(r), input[r].op = "finalise"
    PROVE  /\ report[tracker[r].journey] = "draft"
           /\ attempt[r] = 0 =>
                 \A o \in tracker[r].removed : object[o].status = tracker[r].seen[o]
<1>1. Written(r) \cap stale[r] = {}
  BY DEF CommitTransaction, Accepted
<1>2. tracker[r].status = "submitted" /\ InTransaction(r)
  BY CommitEffect
<1>3. tracker[r].journey \notin stale[r] /\ tracker[r].removed \cap stale[r] = {}
  BY <1>1, <1>2 DEF Written
<1>4. tracker[r].removed \subseteq Object
  BY DEF TypeOK, Tracker
<1> QED
  BY <1>2, <1>3, <1>4 DEF Consistent, SnapshotHolds

\* No step of the server moves the status of a report backwards.
LEMMA LifecycleStep ==
    ASSUME ConflictDetection, TypeOK, Consistent, NEW r \in Request, Receive(r) \/ Handle(r),
           NEW rp \in Report, report'[rp] # report[rp]
    PROVE  <<report[rp], report'[rp]>> \in Moves
<1>1. CASE CommitTransaction(r)
  <2>1. CASE rp \in tracker[r].drafts
    <3>1. report[rp] = "none" /\ report'[rp] = "draft"
      BY <1>1, <2>1, CommitEffect DEF Consistent, FreshKeys
    <3> QED
      BY <3>1 DEF Moves
  <2>2. CASE rp \notin tracker[r].drafts
    <3>1. rp = tracker[r].journey /\ input[r].op = "finalise"
      BY <1>1, <2>2, CommitEffect
    <3>2. report[rp] = "draft" /\ report'[rp] = "submitted"
      BY <1>1, <2>2, <3>1, CommitEffect, CommitSeesSnapshot
    <3> QED
      BY <3>2 DEF Moves
  <2> QED
    BY <2>1, <2>2
<1>2. CASE ReviewSave(r)
  <2>1. PICK x \in Report, new \in Decided :
           /\ report[x] \in ReportStatus
           /\ \A y \in Report \ {x} : report'[y] = report[y]
           /\ report'[x] = report[x] \/ report'[x] = new
    BY <1>2, ReviewEffect
  <2>2. report[rp] \in ReportStatus /\ report'[rp] \in Decided
    BY <2>1
  <2> QED
    BY <2>2 DEF Moves, ReportStatus, Decided
<1>3. CASE ~ CommitTransaction(r) /\ ~ ReviewSave(r)
  BY <1>3, Quiet
<1> QED
  BY <1>1, <1>2, <1>3

\* The step that ends a request at its commit is the request's own.
LEMMA CommitOrFail ==
    ASSUME TypeOK, Consistent, Next, NEW r \in Request, pc[r] = "commit", pc'[r] = "idle"
    PROVE  CommitTransaction(r) \/ ReviewSave(r) \/ Fail(r)
<1>1. PICK q \in Request : Receive(q) \/ Handle(q)
  BY DEF Next
<1>2. q = r
  BY <1>1, Frame
<1>3. ~ Receive(r)
  BY ReceiveEffect
<1>4. ~ (\/ GetOrCreateDraft(r) \/ SyncObject(r) \/ GetDraft(r) \/ DraftNotFound(r)
         \/ BuildTypeCache(r) \/ DeleteObject(r) \/ UpdateObject(r) \/ CreateObject(r)
         \/ EntriesDone(r) \/ ReviewRead(r) \/ ObjectNotFound(r) \/ TransientError(r))
  BY DEF GetOrCreateDraft, SyncObject, GetDraft, DraftNotFound, BuildTypeCache,
         DeleteObject, UpdateObject, CreateObject, EntriesDone, ReviewRead,
         ObjectNotFound, TransientError, TypeOK
<1> QED
  BY <1>1, <1>2, <1>3, <1>4 DEF Handle

\* With conflict detection no step reopens a submitted report, and a decided one
\* stays decided.
THEOREM LifecycleSafe ==
    ASSUME ConflictDetection
    PROVE  Spec => LifecycleOK
<1>1. TypeOK /\ Consistent /\ [Next]_vars =>
         [\A rp \in Report : report'[rp] # report[rp]
                                => <<report[rp], report'[rp]>> \in Moves]_vars
  BY LifecycleStep DEF Next
<1> QED
  BY <1>1, TypeCorrect, ConsistentAlways, PTL DEF Spec, LifecycleOK

\* With conflict detection a Finalise takes effect on a draft only: a second
\* submission, or one that lost the race with a review, writes nothing.
THEOREM SubmittedOnce ==
    ASSUME ConflictDetection
    PROVE  Spec => SubmitOnce
<1> DEFINE Once == \A r \in Request :
             pc[r] = "commit" /\ input[r].op = "finalise" /\ database' # database
                 /\ pc'[r] = "idle"
               => report[tracker[r].journey] = "draft"
<1>1. TypeOK /\ Consistent /\ [Next]_vars => [Once]_vars
  <2> SUFFICES ASSUME TypeOK, Consistent, Next, NEW r \in Request,
                      pc[r] = "commit", input[r].op = "finalise",
                      database' # database, pc'[r] = "idle"
               PROVE  report[tracker[r].journey] = "draft"
    OBVIOUS
  <2>1. CommitTransaction(r)
    BY CommitOrFail DEF ReviewSave, Fail
  <2> QED
    BY <2>1, CommitSeesSnapshot
<1> QED
  BY <1>1, TypeCorrect, ConsistentAlways, PTL DEF Spec, SubmitOnce

\* With conflict detection a Finalise in its first attempt never removes an object
\* whose verdict it has not seen.
THEOREM VerdictsSeen ==
    ASSUME ConflictDetection
    PROVE  Spec => VerdictSeen
<1> DEFINE Seen == \A r \in Request, o \in Object :
             pc[r] = "commit" /\ pc'[r] = "idle" /\ attempt[r] = 0 /\ Exists(o)
                 /\ object'[o].status = "deleted"
               => object[o].status = tracker[r].seen[o]
<1>1. TypeOK /\ Consistent /\ [Next]_vars => [Seen]_vars
  <2> SUFFICES ASSUME TypeOK, Consistent, Next, NEW r \in Request, NEW o \in Object,
                      pc[r] = "commit", pc'[r] = "idle", attempt[r] = 0, Exists(o),
                      object'[o].status = "deleted"
               PROVE  object[o].status = tracker[r].seen[o]
    OBVIOUS
  <2>1. object[o].status # "deleted"
    BY DEF Exists, ObjectStatus
  <2>2. CASE CommitTransaction(r)
    <3>1. o \in tracker[r].removed
      BY <2>1, <2>2, CommitEffect
    <3>2. input[r].op = "finalise"
      BY <2>2, <3>1, CommitEffect
    <3> QED
      BY <2>2, <3>1, <3>2, CommitSeesSnapshot
  <2>3. CASE ReviewSave(r)
    <3>1. PICK x \in Object, verdict \in Decided :
             /\ object'[x].status = verdict \/ object'[x].status = object[x].status
             /\ \A y \in Object \ {x} : object'[y] = object[y]
      BY <2>3, ReviewEffect
    <3> QED
      BY <2>1, <3>1 DEF Decided
  <2>4. CASE Fail(r)
    BY <2>1, <2>4 DEF Fail, database
  <2> QED
    BY <2>2, <2>3, <2>4, CommitOrFail
<1> QED
  BY <1>1, TypeCorrect, ConsistentAlways, PTL DEF Spec, VerdictSeen

-----------------------------------------------------------------------------
(* With conflict detection the server implements OptimisticJourney. *)

\* What a SyncObject and an ObjectReview have at their commit: a new object, and
\* an object of the report they were asked to review, with a verdict if it was read
\* with one.
Collected(r) ==
    /\ input[r].op = "sync" /\ pc[r] = "commit" => tracker[r].added # {}
    /\ input[r].op = "review" =>
          /\ object[input[r].object].status # "none"
          /\ object[input[r].object].report = input[r].journey
          /\ pc[r] = "commit" =>
                /\ tracker[r].journey = input[r].journey
                /\ tracker[r].seen[input[r].object] \in Decided =>
                      object[input[r].object].status # "draft"
CollectedOK == \A r \in Request : Collected(r)

\* A review is asked of an object of its report.
LEMMA ReceiveCollects ==
    ASSUME TypeOK, NEW r \in Request, Receive(r)
    PROVE  Collected(r)'
<1>1. pc'[r] = "begin"
  BY ReceiveEffect
<1>2. CASE ReceiveSync(r) \/ ReceiveFinalise(r)
  <2>1. input'[r].op # "review"
    BY <1>2 DEF ReceiveSync, ReceiveFinalise, Accept, TypeOK
  <2> QED
    BY <1>1, <2>1 DEF Collected
<1>3. CASE ReceiveReview(r)
  <2>0. PICK rp \in Report, verdict \in Decided : \E o \in ObjectsOf(rp) :
           Accept(r, [op |-> "review", journey |-> rp, object |-> o, verdict |-> verdict])
    BY <1>3 DEF ReceiveReview
  <2>1. PICK o \in ObjectsOf(rp) :
           Accept(r, [op |-> "review", journey |-> rp, object |-> o, verdict |-> verdict])
    BY <2>0
  <2>2. /\ input'[r].op = "review" /\ input'[r].object = o /\ input'[r].journey = rp
        /\ object' = object
    BY <2>1 DEF Accept, TypeOK, database
  <2>3. object[o].status # "none" /\ object[o].report = rp
    BY DEF ObjectsOf, Exists, ObjectStatus
  <2> QED
    BY <1>1, <2>2, <2>3 DEF Collected
<1> QED
  BY <1>2, <1>3 DEF Receive

\* Each handler keeps what its request has.
LEMMA HandleCollects ==
    ASSUME TypeOK, Consistent, NEW r \in Request, Handle(r), Collected(r)
    PROVE  Collected(r)'
<1>1. CASE \/ DraftNotFound(r) \/ ObjectNotFound(r) \/ Fail(r)
           \/ CommitTransaction(r) \/ ReviewSave(r)
  <2>1. input'[r].op = "none"
    BY <1>1, EndEffect, DisposeEffect DEF NoInput
  <2> QED
    BY <2>1 DEF Collected
<1>2. CASE GetOrCreateDraft(r) \/ SyncObject(r)
  <2>1. input[r].op = "sync" /\ input' = input
    BY <1>2 DEF GetOrCreateDraft, SyncObject
  <2>2. GetOrCreateDraft(r) => pc'[r] = "types"
    BY DEF GetOrCreateDraft, TypeOK
  <2>3. SyncObject(r) => tracker'[r].added # {}
    BY CollectEffect
  <2> QED
    BY <1>2, <2>1, <2>2, <2>3 DEF Collected
<1>3. CASE ReviewRead(r)
  <2>1. input[r].op = "review" /\ input' = input /\ object' = object
    BY <1>3 DEF ReviewRead, database
  <2>2. input[r].object \in Object
    BY <2>1, InputOf DEF ReviewInput
  <2>3. tracker'[r].seen[input[r].object] \in Decided =>
           object[input[r].object].status # "draft"
    BY <1>3, <2>2, LoadEffect DEF StatusesIn, Decided
  <2> QED
    BY <1>3, <2>1, <2>3, LoadEffect DEF Collected
<1>4. CASE \/ GetDraft(r) \/ BuildTypeCache(r) \/ EntriesDone(r)
           \/ DeleteObject(r) \/ UpdateObject(r) \/ CreateObject(r)
  <2>1. input' = input /\ (pc[r] = "entries" \/ input[r].op = "finalise")
    BY <1>4 DEF GetDraft, BuildTypeCache, EntriesDone, DeleteObject, UpdateObject,
                CreateObject
  <2>2. input[r].op = "finalise"
    BY <2>1, InputOf DEF Consistent, ControlOK, ControlFits
  <2> QED
    BY <2>1, <2>2 DEF Collected
<1>5. CASE TransientError(r)
  <2>1. input' = input /\ pc'[r] = "begin" /\ input[r].op # "review"
    BY <1>5 DEF TransientError, AtQuery, TypeOK
  <2> QED
    BY <2>1 DEF Collected
<1> QED
  BY <1>1, <1>2, <1>3, <1>4, <1>5 DEF Handle

\* Every step keeps CollectedOK: a row stays in its report.
LEMMA CollectedStep ==
    ASSUME TypeOK, Consistent, CollectedOK, [Next]_vars
    PROVE  CollectedOK'
<1>1. CASE UNCHANGED vars
  BY <1>1 DEF vars, CollectedOK, Collected
<1>2. CASE Next
  <2>1. PICK r \in Request : Receive(r) \/ Handle(r)
    BY <1>2 DEF Next
  <2>2. Collected(r)'
    BY <2>1, ReceiveCollects, HandleCollects DEF CollectedOK
  <2>3. ASSUME NEW q \in Request, q # r
        PROVE  Collected(q)'
    <3>1. pc'[q] = pc[q] /\ input'[q] = input[q] /\ tracker'[q] = tracker[q]
      BY <2>1, <2>3, Frame
    <3>2. input[q].op = "review" => input[q].object \in Object
      BY InputOf DEF ReviewInput
    <3> QED
      BY <2>1, <3>1, <3>2, RowsStay DEF CollectedOK, Collected
  <2> QED
    BY <2>2, <2>3 DEF CollectedOK
<1> QED
  BY <1>1, <1>2

\* The operators of OptimisticJourney are those of the tables.
LEMMA SameOptimisticTables ==
    /\ Optimistic!NoRow = NoRow
    /\ \A o \in Object : Optimistic!Exists(o) <=> Exists(o)
    /\ \A rp : Optimistic!ObjectsOf(rp) = ObjectsOf(rp)
    /\ Optimistic!Decided = Decided
  BY DEF Optimistic!NoRow, NoRow, Optimistic!NoReport, NoReport, Optimistic!Exists, Exists,
         Optimistic!ObjectStatus, ObjectStatus, Optimistic!ObjectsOf, ObjectsOf,
         Optimistic!Decided, Decided

\* The commit of a Finalise whose report is a draft submits it, takes objects out
\* of it and gives it new ones.
LEMMA FinaliseWrites ==
    ASSUME TypeOK, Consistent, NEW r \in Request, CommitTransaction(r),
           input[r].op = "finalise", report[tracker[r].journey] = "draft"
    PROVE  \E rp \in Report :
             /\ report[rp] = "draft" /\ report' = [report EXCEPT ![rp] = "submitted"]
             /\ \E removed \in SUBSET ObjectsOf(rp),
                   added \in SUBSET {o \in Object : object[o] = NoRow} :
                   object' = [o \in Object |->
                       IF o \in removed THEN [object[o] EXCEPT !.status = "deleted"]
                       ELSE IF o \in added THEN [report |-> rp, status |-> "draft"]
                       ELSE object[o]]
<1> DEFINE rp == tracker[r].journey
           removed == tracker[r].removed
           added == tracker[r].added
<1>1. /\ rp \in Report /\ rp = input[r].journey
      /\ tracker[r].status = "submitted" /\ tracker[r].drafts = {}
  BY CommitEffect
<1>2. removed \in SUBSET ObjectsOf(rp)
  <2>1. removed \subseteq Object
    BY DEF TypeOK, Tracker
  <2>2. \A o \in removed : object[o].report = rp /\ Exists(o)
    BY <1>1 DEF Consistent, KnownBelong, Known
  <2> QED
    BY <2>1, <2>2 DEF ObjectsOf
<1>3. added \in SUBSET {o \in Object : object[o] = NoRow}
  BY DEF Consistent, FreshKeys, TypeOK, Tracker
<1>4. added \cap removed = {}
  BY <1>2, <1>3 DEF ObjectsOf, Exists, NoRow, ObjectStatus
<1>5. report' = [report EXCEPT ![rp] = "submitted"]
  <2>1. report' = [x \in Report |-> IF x = rp THEN "submitted" ELSE report[x]]
    BY <1>1 DEF CommitTransaction
  <2>2. report = [x \in Report |-> report[x]]
    BY DEF TypeOK
  <2> QED
    BY <2>1, <2>2
<1>6. object' = [o \in Object |->
          IF o \in removed THEN [object[o] EXCEPT !.status = "deleted"]
          ELSE IF o \in added THEN [report |-> rp, status |-> "draft"]
          ELSE object[o]]
  <2>1. object' = [o \in Object |->
            IF o \in added THEN [report |-> rp, status |-> "draft"]
            ELSE IF o \in removed THEN [object[o] EXCEPT !.status = "deleted"]
            ELSE object[o]]
    BY DEF CommitTransaction
  <2> QED
    BY <1>4, <2>1
<1> HIDE DEF removed, added
<1> QED
  BY <1>1, <1>2, <1>3, <1>5, <1>6

\* The commit of a SyncObject inserts drafts and the objects of one report.
LEMMA SyncIsLate ==
    ASSUME TypeOK, Consistent, NEW r \in Request, Collected(r), CommitTransaction(r),
           input[r].op = "sync"
    PROVE  Optimistic!SyncLate
<1> DEFINE rp == tracker[r].journey
           drafts == tracker[r].drafts
           added == tracker[r].added
<1>1. /\ pc[r] = "commit" /\ rp \in Report /\ added # {}
      /\ tracker[r].status = "none" /\ tracker[r].removed = {}
  BY CommitEffect DEF Consistent, TrackerFits, Collected
<1>2. /\ drafts \in SUBSET {x \in Report : report[x] = "none"}
      /\ added \in SUBSET {o \in Object : object[o] = NoRow}
  BY DEF Consistent, FreshKeys, TypeOK, Tracker
<1>3. rp \in drafts \/ report[rp] # "none"
  BY <1>1 DEF Consistent, References, ReportStatus
<1>4. /\ report' = [x \in Report |-> IF x \in drafts THEN "draft" ELSE report[x]]
      /\ object' = [o \in Object |-> IF o \in added THEN [report |-> rp, status |-> "draft"]
                                     ELSE object[o]]
  BY <1>1 DEF CommitTransaction
<1>5. added # {}
  BY <1>1
<1>6. rp \in Report
  BY <1>1
<1> HIDE DEF rp, drafts, added
<1>7. added \in (SUBSET Optimistic!Unused) \ {{}}
  <2>1. {o \in Object : object[o] = NoRow} = Optimistic!Unused
    BY SameOptimisticTables DEF Optimistic!Unused
  <2> QED
    BY <1>2, <1>5, <2>1
<1> QED
  BY <1>2, <1>3, <1>4, <1>6, <1>7 DEF Optimistic!SyncLate

\* A report is closed by a rejection only.
LEMMA OutcomeFits ==
    ASSUME NEW seen, NEW current, NEW o \in Object, NEW verdict \in Decided,
           DOMAIN seen = Object
    PROVE  LET new == Outcome([seen EXCEPT ![o] = verdict], current)
           IN  new = current \/ new \in IF verdict = "closed" THEN Decided ELSE {"resolved"}
<1> DEFINE statuses == [seen EXCEPT ![o] = verdict]
           all == {x \in Object : statuses[x] # "none"}
<1>1. statuses[o] = verdict
  OBVIOUS
<1>2. verdict # "closed" => {x \in all : statuses[x] = "closed"} # all
  BY <1>1 DEF Decided
<1> QED
  BY <1>2 DEF Outcome, Decided

\* The save of an ObjectReview gives the verdict, and decides by what it read.
LEMMA SaveIsLate ==
    ASSUME TypeOK, Consistent, NEW r \in Request, Collected(r), ReviewSave(r)
    PROVE  Optimistic!ReviewLate
<1> DEFINE o == input[r].object
           verdict == input[r].verdict
           rp == tracker[r].journey
           new == Outcome([tracker[r].seen EXCEPT ![o] = verdict], tracker[r].status)
           decisions == IF verdict = "closed" THEN Decided ELSE {"resolved"}
<1>1. pc[r] = "commit" /\ input[r].op = "review"
  BY DEF ReviewSave
<1>2. o \in Object /\ verdict \in Decided
  BY <1>1, InputOf DEF ReviewInput
<1>3. rp = object[o].report
  BY <1>1 DEF Collected
<1>4. new = tracker[r].status \/ new \in decisions
  <2>1. DOMAIN tracker[r].seen = Object
    BY DEF TypeOK, Tracker
  <2> QED
    BY <1>2, <2>1, OutcomeFits
<1>5. /\ Exists(o) /\ object' = [object EXCEPT ![o].status =
                                     IF tracker[r].seen[o] = verdict THEN @ ELSE verdict]
      /\ report' = [report EXCEPT ![rp] = IF new = tracker[r].status THEN @ ELSE new]
  BY DEF ReviewSave
<1>7. \/ object' = [object EXCEPT ![o].status = verdict]
      \/ object[o].status \in Decided /\ object' = object
  <2>1. CASE tracker[r].seen[o] = verdict
    <3>1. object[o].status \in Decided
      BY <1>1, <1>2, <1>5, <2>1 DEF Collected, Exists, ObjectStatus, Decided
    <3>2. object' = object
      <4>1. object' = [object EXCEPT ![o].status = object[o].status]
        BY <1>5, <2>1
      <4>2. object \in [Object -> ObjectRow]
        BY DEF TypeOK
      <4>3. [object[o] EXCEPT !.status = object[o].status] = object[o]
        BY <1>2, <4>2 DEF ObjectRow
      <4> QED
        BY <4>1, <4>2, <4>3
    <3> QED
      BY <3>1, <3>2
  <2>2. CASE tracker[r].seen[o] # verdict
    BY <1>5, <2>2
  <2> QED
    BY <2>1, <2>2
<1> HIDE DEF o, verdict, rp, new
<1>6. \E decision \in decisions \cup {report[rp]} :
         report' = [report EXCEPT ![rp] = decision]
  BY <1>4, <1>5
<1> QED
  BY <1>2, <1>3, <1>5, <1>6, <1>7, SameOptimisticTables DEF Optimistic!ReviewLate

\* The tables change only at a commit or a save.
LEMMA OptimisticStep ==
    ASSUME ConflictDetection, TypeOK, Consistent, CollectedOK, [Next]_vars
    PROVE  [Optimistic!OptimisticNext]_<<report, object>>
<1>1. CASE UNCHANGED vars
  BY <1>1 DEF vars
<1>2. CASE Next
  <2>1. PICK r \in Request : Receive(r) \/ Handle(r)
    BY <1>2 DEF Next
  <2>2. Collected(r)
    BY DEF CollectedOK
  <2>3. CASE CommitTransaction(r) /\ input[r].op = "sync"
    BY <2>2, <2>3, SyncIsLate DEF Optimistic!OptimisticNext
  <2>4. CASE CommitTransaction(r) /\ input[r].op = "finalise"
    <3>1. report[tracker[r].journey] = "draft"
      BY <2>4, CommitSeesSnapshot
    <3>2. PICK rp \in Report :
             /\ report[rp] = "draft" /\ report' = [report EXCEPT ![rp] = "submitted"]
             /\ \E removed \in SUBSET ObjectsOf(rp),
                   added \in SUBSET {o \in Object : object[o] = NoRow} :
                   object' = [o \in Object |->
                       IF o \in removed THEN [object[o] EXCEPT !.status = "deleted"]
                       ELSE IF o \in added THEN [report |-> rp, status |-> "draft"]
                       ELSE object[o]]
      BY <2>4, <3>1, FinaliseWrites
    <3>3. PICK removed \in SUBSET ObjectsOf(rp),
              added \in SUBSET {o \in Object : object[o] = NoRow} :
             object' = [o \in Object |->
                 IF o \in removed THEN [object[o] EXCEPT !.status = "deleted"]
                 ELSE IF o \in added THEN [report |-> rp, status |-> "draft"]
                 ELSE object[o]]
      BY <3>2
    <3>4. /\ removed \in SUBSET Optimistic!ObjectsOf(rp)
          /\ added \in SUBSET {o \in Object : object[o] = Optimistic!NoRow}
      BY SameOptimisticTables
    <3>5. Optimistic!Finalise
      BY <3>2, <3>3, <3>4 DEF Optimistic!Finalise
    <3> QED
      BY <3>5 DEF Optimistic!OptimisticNext
  <2>5. CASE ReviewSave(r)
    BY <2>2, <2>5, SaveIsLate DEF Optimistic!OptimisticNext
  <2>6. CASE ~ CommitTransaction(r) /\ ~ ReviewSave(r)
    BY <2>1, <2>6, Quiet
  <2> QED
    BY <2>3, <2>4, <2>5, <2>6 DEF CommitTransaction
<1> QED
  BY <1>1, <1>2

\* With conflict detection the handlers implement OptimisticJourney, whatever
\* runs at the same time and is retried: a Finalise takes effect at once and on a
\* draft, an ObjectReview never closes a report by accepting an object.
THEOREM ImplementsOptimistic ==
    ASSUME ConflictDetection
    PROVE  Spec => OptimisticSpec
<1>1. Init => Optimistic!Init
  BY SameOptimisticTables DEF Init, Optimistic!Init
<1>2. Init => CollectedOK
  BY DEF Init, CollectedOK, Collected, NoInput
<1>3. TypeOK /\ Consistent /\ CollectedOK /\ [Next]_vars => CollectedOK'
  BY CollectedStep
<1>4. TypeOK /\ Consistent /\ CollectedOK /\ [Next]_vars
        => [Optimistic!OptimisticNext]_<<report, object>>
  BY OptimisticStep
<1> QED
  BY <1>1, <1>2, <1>3, <1>4, TypeCorrect, ConsistentAlways, PTL
     DEF Spec, OptimisticSpec, Optimistic!OptimisticSpec
=============================================================================
