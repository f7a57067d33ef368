-------------------------- MODULE SerialServerProofs --------------------------
(***************************************************************************)
(* The server without retries, and with one request at a time, for any     *)
(* sets of keys and any messages.                                          *)
(*                                                                         *)
(* Without retries no draft is without an object and no entry is stored    *)
(* twice, however many requests are served at the same time.  With one     *)
(* request at a time what the server decides is sound, however often it is *)
(* retried.  With both it does to the tables what AtomicJourney allows.    *)
(***************************************************************************)
EXTENDS JourneyServerProofs

\* A request is handled in one attempt.
NoRetries == MaxRetry = 0

\* A request is handled when the one before it has ended.
OneAtATime == \A q, r \in Request : q = r

-----------------------------------------------------------------------------
(* The only attempt of a request. *)

\* It starts with an empty change tracker, which Consistent does not say; a
\* SyncObject inserts no report or its own, and one object.
AttemptFits(r) ==
    LET t == tracker[r] IN
    /\ pc[r] = "begin" => t = NoTracker
    /\ input[r].op = "sync" /\ pc[r] # "begin" =>
          /\ t.drafts \in {{}, {t.journey}}
          /\ pc[r] = "types" => t.added = {}
          /\ pc[r] = "commit" => \E o \in Object : t.added = {o}
AttemptsOK == \A r \in Request : AttemptFits(r)

\* Without retries a transient error of a query is an error like any other.
LEMMA NoTransientError ==
    ASSUME NoRetries, TypeOK, NEW r \in Request
    PROVE  ~ TransientError(r)
<1>1. attempt[r] \in 0..0
  BY DEF NoRetries, TypeOK
<1> QED
  BY <1>1 DEF TransientError, NoRetries

\* A request that arrives, or ends, has an empty change tracker.
LEMMA EmptyFits ==
    ASSUME TypeOK, Consistent, NEW r \in Request,
           \/ Receive(r) \/ DraftNotFound(r) \/ ObjectNotFound(r) \/ Fail(r)
           \/ CommitTransaction(r) \/ ReviewSave(r)
    PROVE  AttemptFits(r)'
<1>1. CASE Receive(r)
  <2>1. tracker[r] = NoTracker
    BY <1>1, ReceiveEffect DEF Consistent, ControlOK, ControlFits, TrackerFits
  <2> QED
    BY <1>1, <2>1, ReceiveEffect DEF AttemptFits
<1>2. CASE ~ Receive(r)
  <2>1. pc'[r] = "idle" /\ input'[r].op = "none"
    BY <1>2, EndEffect, DisposeEffect DEF NoInput
  <2> QED
    BY <2>1 DEF AttemptFits
<1> QED
  BY <1>1, <1>2

\* SyncObject finds its draft, or inserts one report, and adds one object.
LEMMA SyncObjectFits ==
    ASSUME TypeOK, NEW r \in Request, AttemptFits(r), GetOrCreateDraft(r) \/ SyncObject(r)
    PROVE  AttemptFits(r)'
<1>1. input[r].op = "sync" /\ input' = input
  BY DEF GetOrCreateDraft, SyncObject
<1>2. CASE GetOrCreateDraft(r)
  <2>1. pc'[r] = "types" /\ tracker[r] = NoTracker
    BY <1>2 DEF GetOrCreateDraft, TypeOK, AttemptFits
  <2>2. tracker[r].drafts = {} /\ tracker[r].added = {}
    BY <2>1 DEF NoTracker
  <2>3. tracker'[r].drafts \in {{}, {tracker'[r].journey}} /\ tracker'[r].added = {}
    BY <1>2, <2>2, DraftEffect
  <2> QED
    BY <1>1, <2>1, <2>3 DEF AttemptFits
<1>3. CASE SyncObject(r)
  <2>1. pc[r] = "types" /\ pc'[r] = "commit"
    BY <1>3 DEF SyncObject, TypeOK
  <2>2. /\ tracker'[r].journey = tracker[r].journey
        /\ tracker'[r].drafts = tracker[r].drafts
        /\ \E new \in FreshObjects : tracker'[r].added = tracker[r].added \cup {new}
    BY <1>3, CollectEffect
  <2>3. /\ tracker[r].drafts \in {{}, {tracker[r].journey}}
        /\ tracker[r].added = {}
    BY <1>1, <2>1 DEF AttemptFits
  <2>4. \E o \in Object : tracker'[r].added = {o}
    BY <2>2, <2>3 DEF FreshObjects
  <2> QED
    BY <1>1, <2>1, <2>2, <2>3, <2>4 DEF AttemptFits
<1> QED
  BY <1>2, <1>3

\* The other operations only move on.
LEMMA OtherFits ==
    ASSUME TypeOK, Consistent, NEW r \in Request,
           \/ GetDraft(r) \/ BuildTypeCache(r) \/ EntriesDone(r)
           \/ DeleteObject(r) \/ UpdateObject(r) \/ CreateObject(r) \/ ReviewRead(r)
    PROVE  /\ AttemptFits(r)'
           /\ input[r].op # "sync" /\ input' = input /\ stale' = stale /\ pc'[r] # "begin"
           /\ ~ ReviewRead(r) => input[r].op = "finalise"
<1>1. input' = input /\ stale' = stale /\ pc'[r] # "begin"
  BY DEF GetDraft, BuildTypeCache, EntriesDone, DeleteObject, UpdateObject, CreateObject,
         ReviewRead, TypeOK
<1>2. \/ input[r].op = "finalise"
      \/ ReviewRead(r) /\ input[r].op = "review"
  <2>1. \/ input[r].op = "finalise"
        \/ ReviewRead(r) /\ input[r].op = "review"
        \/ pc[r] = "entries"
    BY DEF GetDraft, BuildTypeCache, EntriesDone, DeleteObject, UpdateObject, CreateObject,
           ReviewRead
  <2> QED
    BY <2>1, InputOf DEF Consistent, ControlOK, ControlFits
<1> QED
  BY <1>1, <1>2 DEF AttemptFits

\* Every step keeps AttemptsOK: what a request holds, no other request changes.
LEMMA AttemptStep ==
    ASSUME NoRetries, TypeOK, Consistent, AttemptsOK, [Next]_vars
    PROVE  AttemptsOK'
<1>1. CASE UNCHANGED vars
  BY <1>1 DEF vars, AttemptsOK, AttemptFits
<1>2. CASE Next
  <2>1. PICK r \in Request : Receive(r) \/ Handle(r)
    BY <1>2 DEF Next
  <2>2. AttemptFits(r)'
    BY <2>1, NoTransientError, EmptyFits, SyncObjectFits, OtherFits DEF Handle, AttemptsOK
  <2>3. ASSUME NEW q \in Request, q # r
        PROVE  AttemptFits(q)'
    BY <2>1, <2>3, Frame DEF AttemptsOK, AttemptFits
  <2> QED
    BY <2>2, <2>3 DEF AttemptsOK
<1> QED
  BY <1>1, <1>2

\* Without retries a request starts from nothing and holds what it collected.
THEOREM AttemptsAlways ==
    ASSUME NoRetries
    PROVE  Spec => []AttemptsOK
<1>1. Init => AttemptsOK
  BY DEF Init, AttemptsOK, AttemptFits, NoInput
<1>2. TypeOK /\ Consistent /\ AttemptsOK /\ [Next]_vars => AttemptsOK'
  BY AttemptStep
<1> QED
  BY <1>1, <1>2, TypeCorrect, ConsistentAlways, PTL DEF Spec

-----------------------------------------------------------------------------
(* A draft keeps its objects. *)

\* A report that is a draft after a step and was there before it was a draft, and
\* no object left it: a Finalise removes objects of the report it submits.
LEMMA DraftKeepsObjects ==
    ASSUME TypeOK, Consistent, NEW r \in Request, Receive(r) \/ Handle(r),
           NEW rp \in Report, report[rp] \in ReportStatus, report'[rp] = "draft"
    PROVE  report[rp] = "draft" /\ ObjectsOf(rp) \subseteq ObjectsOf(rp)'
<1>1. CASE CommitTransaction(r)
  <2>1. rp \notin tracker[r].drafts
    BY DEF Consistent, FreshKeys, ReportStatus
  <2>2. /\ report[rp] = "draft"
        /\ input[r].op = "finalise" => rp # tracker[r].journey
    BY <1>1, <2>1, CommitEffect
  <2>3. ASSUME NEW o \in ObjectsOf(rp)
        PROVE  o \in ObjectsOf(rp)'
    <3>1. o \in Object /\ Exists(o) /\ object[o].report = rp
      BY DEF ObjectsOf
    <3>2. o \notin tracker[r].added
      BY <3>1 DEF Consistent, FreshKeys, Exists, NoRow, ObjectStatus
    <3>3. o \notin tracker[r].removed
      <4>1. CASE input[r].op = "sync"
        BY <4>1 DEF Consistent, TrackerFits
      <4>2. CASE input[r].op = "finalise"
        <5>1. tracker[r].journey = input[r].journey
          BY <1>1, <4>2, CommitEffect DEF Consistent, TrackerFits
        <5> QED
          BY <2>2, <3>1, <4>2, <5>1 DEF Consistent, KnownBelong, Known
      <4> QED
        BY <1>1, <4>1, <4>2 DEF CommitTransaction
    <3>4. object'[o] = object[o]
      BY <1>1, <3>1, <3>2, <3>3, CommitEffect
    <3> QED
      BY <3>1, <3>4 DEF ObjectsOf, Exists
  <2> QED
    BY <2>2, <2>3
<1>2. CASE ReviewSave(r)
  <2>1. report[rp] = "draft"
    BY <1>2, ReviewEffect DEF Decided
  <2>2. \A o \in Object : Exists(o) => Exists(o)' /\ object'[o].report = object[o].report
    BY <1>2, ReviewEffect DEF Exists, Decided, ObjectStatus
  <2> QED
    BY <2>1, <2>2 DEF ObjectsOf
<1>3. CASE ~ CommitTransaction(r) /\ ~ ReviewSave(r)
  <2>1. report' = report /\ object' = object
    BY <1>3, Quiet
  <2> QED
    BY <2>1 DEF ObjectsOf, Exists
<1> QED
  BY <1>1, <1>2, <1>3

\* A draft is inserted with its first object, in one commit.
LEMMA DraftWithObject ==
    ASSUME TypeOK, Consistent, NEW r \in Request, AttemptFits(r), Receive(r) \/ Handle(r),
           NEW rp \in Report, report[rp] \notin ReportStatus, report'[rp] = "draft"
    PROVE  ObjectsOf(rp)' # {}
<1>1. report[rp] = "none"
  BY DEF TypeOK
<1>2. CommitTransaction(r)
  <2>1. CASE ReviewSave(r)
    BY <1>1, <2>1, ReviewEffect DEF Decided
  <2> QED
    BY <1>1, <2>1, Quiet
<1>3. rp \in tracker[r].drafts
  BY <1>1, <1>2, CommitEffect
<1>4. input[r].op = "sync"
  BY <1>2, <1>3 DEF CommitTransaction, Consistent, TrackerFits
<1>5. pc[r] = "commit" /\ rp = tracker[r].journey
  BY <1>2, <1>3, <1>4, CommitEffect DEF AttemptFits
<1>6. PICK o \in Object : tracker[r].added = {o}
  BY <1>4, <1>5 DEF AttemptFits
<1>7. object'[o].report = rp /\ object'[o].status = "draft"
  BY <1>2, <1>5, <1>6, CommitEffect
<1> QED
  BY <1>7 DEF ObjectsOf, Exists, ObjectStatus

\* Without retries no draft is ever without an object, however many requests are
\* served at the same time and whatever fails.
THEOREM NoEmptyDraftWithoutRetries ==
    ASSUME NoRetries
    PROVE  Spec => []NoEmptyDraft
<1>1. Init => NoEmptyDraft
  BY DEF Init, NoEmptyDraft
<1>2. TypeOK /\ Consistent /\ AttemptsOK /\ NoEmptyDraft /\ [Next]_vars => NoEmptyDraft'
  <2> SUFFICES ASSUME TypeOK, Consistent, AttemptsOK, NoEmptyDraft, [Next]_vars
               PROVE  NoEmptyDraft'
    OBVIOUS
  <2>1. CASE UNCHANGED vars
    BY <2>1 DEF vars, NoEmptyDraft, ObjectsOf, Exists
  <2>2. CASE Next
    <3>1. PICK r \in Request : Receive(r) \/ Handle(r)
      BY <2>2 DEF Next
    <3>2. ASSUME NEW rp \in Report, report'[rp] = "draft"
          PROVE  ObjectsOf(rp)' # {}
      <4>1. CASE report[rp] \in ReportStatus
        BY <3>1, <3>2, <4>1, DraftKeepsObjects DEF NoEmptyDraft
      <4>2. CASE report[rp] \notin ReportStatus
        BY <3>1, <3>2, <4>2, DraftWithObject DEF AttemptsOK
      <4> QED
        BY <4>1, <4>2
    <3> QED
      BY <3>2 DEF NoEmptyDraft
  <2> QED
    BY <2>1, <2>2
<1> QED
  BY <1>1, <1>2, TypeCorrect, ConsistentAlways, AttemptsAlways, PTL DEF Spec

-----------------------------------------------------------------------------
(* No object is stored twice: new rows are counted against the entries. *)

\* The entries before position n that the server has no object for.
UnknownBefore(list, n) ==
    {i \in DOMAIN list : list[i].id = Unsynced /\ list[i].op # "delete" /\ i < n}

\* An entry names an object of the draft, each a different one, which the Finalise
\* then finds among those it has read; the loop has removed objects named by
\* entries it is past, and added one for each unknown.
EntriesFit(r) ==
    LET list == input[r].entries
        t == tracker[r]
        Named == {i \in DOMAIN list : list[i].id # Unsynced}
    IN  input[r].op = "finalise" =>
            /\ \A i, j \in DOMAIN list :
                  i # j /\ list[i].id = list[j].id => list[i].id = Unsynced
            /\ pc[r] = "begin" /\ report[input[r].journey] = "draft" =>
                  \A i \in Named : list[i].id \in ObjectsOf(input[r].journey)
            /\ pc[r] # "begin" =>
                  /\ \A i \in Named : list[i].id \in Object /\ t.seen[list[i].id] # "none"
                  /\ \A o \in t.removed :
                        \E i \in DOMAIN list : i < t.next /\ list[i].id = o
                  /\ IsFiniteSet(t.added)
                  /\ Cardinality(t.added) <= Cardinality(UnknownBefore(list, t.next))
EntriesOK == \A r \in Request : EntriesFit(r)

\* Sets of entries are finite, and the loop's progress by one adds at most one.
LEMMA UnknownCount ==
    ASSUME NEW list \in Seq(Entry), NEW n \in Nat \ {0}
    PROVE  LET unknown == {i \in DOMAIN list :
                              list[i].id = Unsynced /\ list[i].op # "delete"}
           IN  /\ Cardinality(UnknownBefore(list, n)) \in Nat
               /\ Cardinality(UnknownBefore(list, n)) <= Cardinality(UnknownBefore(list, n + 1))
               /\ n \in unknown => Cardinality(UnknownBefore(list, n + 1)) =
                                     Cardinality(UnknownBefore(list, n)) + 1
               /\ Cardinality(UnknownBefore(list, n)) <= Cardinality(unknown)
               /\ Cardinality(unknown) \in Nat
<1> DEFINE unknown == {i \in DOMAIN list : list[i].id = Unsynced /\ list[i].op # "delete"}
           before == UnknownBefore(list, n)
           after == UnknownBefore(list, n + 1)
<1>1. IsFiniteSet(1..Len(list)) /\ DOMAIN list = 1..Len(list)
  BY FS_Interval
<1>2. /\ before \in SUBSET after /\ before \in SUBSET unknown
      /\ after \in SUBSET (1..Len(list)) /\ unknown \in SUBSET (1..Len(list))
  BY <1>1 DEF UnknownBefore
<1>3. IsFiniteSet(before) /\ IsFiniteSet(after) /\ IsFiniteSet(unknown)
  BY <1>1, <1>2, FS_Subset
<1>4. n \in unknown => n \notin before /\ after = before \cup {n}
  BY <1>1 DEF UnknownBefore
<1> HIDE DEF before, after, unknown
<1>5. /\ Cardinality(before) \in Nat /\ Cardinality(unknown) \in Nat
      /\ Cardinality(before) <= Cardinality(after)
      /\ Cardinality(before) <= Cardinality(unknown)
  BY <1>2, <1>3, FS_Subset, FS_CardinalityType
<1>6. n \in unknown => Cardinality(after) = Cardinality(before) + 1
  BY <1>3, <1>4, FS_AddElement
<1> QED
  BY <1>5, <1>6 DEF before, after, unknown

\* One turn of the loop: the next entry, which alone may name what is removed.
LEMMA TurnEffect ==
    ASSUME TypeOK, NEW r \in Request,
           DeleteObject(r) \/ UpdateObject(r) \/ CreateObject(r)
    PROVE  /\ tracker'[r].next = tracker[r].next + 1
           /\ tracker'[r].seen = tracker[r].seen
           /\ tracker'[r].removed \subseteq tracker[r].removed \cup {CurrentEntry(r).id}
           /\ DeleteObject(r) \/ UpdateObject(r) => tracker'[r].added = tracker[r].added
<1> DEFINE e == CurrentEntry(r)
<1>t. tracker[r] \in Tracker
  BY DEF TypeOK
<1>1. CASE DeleteObject(r)
  <2>1. PICK removed \in SUBSET (tracker[r].removed \cup {e.id}) :
           tracker'[r] = [tracker[r] EXCEPT !.next = @ + 1, !.removed = removed]
    BY <1>1 DEF DeleteObject, Track, TypeOK
  <2> QED
    BY <1>t, <2>1 DEF Tracker
<1>2. CASE UpdateObject(r)
  <2>1. PICK edited, placed :
           tracker'[r] = [tracker[r] EXCEPT !.next = @ + 1, !.edited = edited,
                                            !.placed = placed]
    BY <1>2 DEF UpdateObject, Track, TypeOK
  <2> QED
    BY <1>t, <2>1 DEF Tracker
<1>3. CASE CreateObject(r)
  <2>1. \E new \in FreshObjects : \E placed :
           tracker'[r] = [tracker[r] EXCEPT !.next = @ + 1, !.added = @ \cup {new},
                                            !.placed = placed]
    BY <1>3 DEF CreateObject, Track, TypeOK
  <2>2. ~ DeleteObject(r) /\ ~ UpdateObject(r)
    BY <1>3 DEF CreateObject, DeleteObject, UpdateObject
  <2> QED
    BY <1>t, <2>1, <2>2 DEF Tracker
<1> QED
  BY <1>1, <1>2, <1>3

\* The message of a Finalise names each object of its report at most once.
LEMMA ReceiveEntries ==
    ASSUME TypeOK, NEW r \in Request, Receive(r)
    PROVE  EntriesFit(r)'
<1>1. pc'[r] = "begin"
  BY ReceiveEffect
<1>2. CASE ReceiveSync(r) \/ ReceiveReview(r)
  <2>1. input'[r].op # "finalise"
    BY <1>2 DEF ReceiveSync, ReceiveReview, Accept, TypeOK
  <2> QED
    BY <2>1 DEF EntriesFit
<1>3. CASE ReceiveFinalise(r)
  <2>1. PICK rp \in Report : \E list \in EntryLists(rp) :
           Accept(r, [op |-> "finalise", journey |-> rp, entries |-> list])
    BY <1>3 DEF ReceiveFinalise
  <2>2. PICK list \in EntryLists(rp) :
           Accept(r, [op |-> "finalise", journey |-> rp, entries |-> list])
    BY <2>1
  <2>3. input'[r].journey = rp /\ input'[r].entries = list /\ object' = object
    BY <2>2 DEF Accept, TypeOK, database
  <2>4. \A i, j \in DOMAIN list :
           i # j /\ list[i].id = list[j].id => list[i].id = Unsynced
    BY <2>2 DEF EntryLists
  <2>5. \A i \in DOMAIN list : list[i].id # Unsynced => list[i].id \in ObjectsOf(rp)
    <3>1. \A i \in DOMAIN list :
             list[i] \in {e \in Entry : IF e.id = Unsynced THEN e.op # "edit"
                                        ELSE e.id \in ObjectsOf(rp)}
      BY <2>2 DEF EntryLists
    <3> QED
      BY <3>1
  <2>6. ObjectsOf(rp)' = ObjectsOf(rp)
    BY <2>3 DEF ObjectsOf, Exists
  <2> QED
    BY <1>1, <2>3, <2>4, <2>5, <2>6 DEF EntriesFit
<1> QED
  BY <1>2, <1>3 DEF Receive

\* GetDraft starts the loop with nothing added and nothing removed.
LEMMA GetDraftEntries ==
    ASSUME TypeOK, NEW r \in Request, AttemptFits(r), EntriesFit(r), GetDraft(r)
    PROVE  EntriesFit(r)'
<1> DEFINE list == input[r].entries
           rp == input[r].journey
<1>1. /\ input[r].op = "finalise" /\ input' = input /\ pc[r] = "begin"
      /\ pc'[r] = "types" /\ report[rp] = "draft"
  BY DEF GetDraft, TypeOK, IsDraft
<1>2. tracker[r].added = {} /\ tracker[r].removed = {}
  BY <1>1 DEF AttemptFits, NoTracker
<1>3. /\ tracker'[r].seen = StatusesIn(rp)
      /\ tracker'[r].added = {} /\ tracker'[r].removed = {}
  <2>1. \A o \in Object : tracker[r].seen[o] = "none"
    BY <1>1 DEF AttemptFits, NoTracker
  <2>2. SeenIn(r, rp) = StatusesIn(rp)
    BY <2>1 DEF SeenIn, StatusesIn
  <2> QED
    BY <1>2, <2>2, LoadEffect
<1>4. tracker'[r].next = 1
  <2>1. tracker[r] \in Tracker
    BY DEF TypeOK
  <2>2. PICK x, seen, loaded :
           tracker'[r] = [tracker[r] EXCEPT !.journey = x, !.status = "submitted",
                             !.seen = seen, !.loaded = loaded, !.next = 1]
    BY DEF GetDraft, Track, TypeOK
  <2> QED
    BY <2>1, <2>2 DEF Tracker
<1>5. Cardinality({}) <= Cardinality(UnknownBefore(list, 1))
  <2>1. list \in Seq(Entry)
    BY <1>1, InputOf DEF FinaliseInput
  <2>2. 1 \in Nat \ {0}
    OBVIOUS
  <2>3. Cardinality(UnknownBefore(list, 1)) \in Nat
    BY <2>1, <2>2, UnknownCount
  <2> QED
    BY <2>3, FS_EmptySet
<1>6. \A i \in DOMAIN list : list[i].id # Unsynced =>
         list[i].id \in Object /\ StatusesIn(rp)[list[i].id] # "none"
  <2>1. \A i \in DOMAIN list : list[i].id # Unsynced => list[i].id \in ObjectsOf(rp)
    BY <1>1 DEF EntriesFit
  <2>2. \A o \in ObjectsOf(rp) : o \in Object /\ StatusesIn(rp)[o] # "none"
    BY DEF StatusesIn, ObjectsOf, Exists, ObjectStatus
  <2> QED
    BY <2>1, <2>2
<1>7. \A i, j \in DOMAIN list : i # j /\ list[i].id = list[j].id => list[i].id = Unsynced
  BY <1>1 DEF EntriesFit
<1> QED
  BY <1>1, <1>3, <1>4, <1>5, <1>6, <1>7, FS_EmptySet DEF EntriesFit

\* A turn of the loop adds an object only for an entry the server does not know.
LEMMA TurnEntries ==
    ASSUME TypeOK, Consistent, NEW r \in Request, EntriesFit(r),
           DeleteObject(r) \/ UpdateObject(r) \/ CreateObject(r)
    PROVE  EntriesFit(r)'
<1> DEFINE list == input[r].entries
           n == tracker[r].next
<1>1. /\ input' = input /\ pc' = pc /\ pc[r] = "entries" /\ MoreEntries(r)
  BY DEF DeleteObject, UpdateObject, CreateObject
<1>2. input[r].op = "finalise"
  BY <1>1, InputOf DEF Consistent, ControlOK, ControlFits
<1>3. list \in Seq(Entry) /\ n \in Nat \ {0} /\ n \in DOMAIN list
  <2>1. list \in Seq(Entry)
    BY <1>2, InputOf DEF FinaliseInput
  <2>2. n \in Nat \ {0}
    BY DEF TypeOK, Tracker
  <2> QED
    BY <1>1, <2>1, <2>2 DEF MoreEntries
<1>4. /\ \A i, j \in DOMAIN list : i # j /\ list[i].id = list[j].id => list[i].id = Unsynced
      /\ \A i \in DOMAIN list : list[i].id # Unsynced =>
            list[i].id \in Object /\ tracker[r].seen[list[i].id] # "none"
      /\ \A o \in tracker[r].removed : \E i \in DOMAIN list : i < n /\ list[i].id = o
      /\ IsFiniteSet(tracker[r].added)
      /\ Cardinality(tracker[r].added) <= Cardinality(UnknownBefore(list, n))
  BY <1>1, <1>2 DEF EntriesFit
<1>5. /\ tracker'[r].next = n + 1 /\ tracker'[r].seen = tracker[r].seen
      /\ tracker'[r].removed \subseteq tracker[r].removed \cup {list[n].id}
  BY <1>4, TurnEffect DEF CurrentEntry
<1>6. \A o \in tracker'[r].removed :
         \E i \in DOMAIN list : i < tracker'[r].next /\ list[i].id = o
  BY <1>3, <1>4, <1>5
<1>7. /\ IsFiniteSet(tracker'[r].added)
      /\ Cardinality(tracker'[r].added) <= Cardinality(UnknownBefore(list, n + 1))
  <2>1. /\ Cardinality(tracker[r].added) \in Nat
        /\ Cardinality(UnknownBefore(list, n)) \in Nat
        /\ Cardinality(UnknownBefore(list, n)) <= Cardinality(UnknownBefore(list, n + 1))
    BY <1>3, <1>4, UnknownCount, FS_CardinalityType
  <2>2. CASE DeleteObject(r) \/ UpdateObject(r)
    <3>1. tracker'[r].added = tracker[r].added
      BY <2>2, TurnEffect
    <3>2. Cardinality(UnknownBefore(list, n + 1)) \in Nat
      <4>1. n + 1 \in Nat \ {0}
        BY <1>3
      <4> QED
        BY <1>3, <4>1, UnknownCount
    <3> QED
      BY <1>4, <2>1, <3>1, <3>2
  <2>3. CASE CreateObject(r)
    <3>1. list[n].op # "delete" /\ ~ Found(r, list[n].id)
      BY <2>3 DEF CreateObject, CurrentEntry
    <3>2. list[n].id = Unsynced
      <4> SUFFICES ASSUME list[n].id # Unsynced PROVE FALSE
        OBVIOUS
      <4>1. list[n].id \in tracker[r].removed
        BY <1>3, <1>4, <3>1 DEF Found
      <4> QED
        BY <1>3, <1>4, <4>1
    <3>3. Cardinality(UnknownBefore(list, n + 1)) = Cardinality(UnknownBefore(list, n)) + 1
      BY <1>3, <3>1, <3>2, UnknownCount
    <3>4. PICK new : tracker'[r].added = tracker[r].added \cup {new}
      BY <2>3, CollectEffect
    <3>5. /\ IsFiniteSet(tracker'[r].added)
          /\ \/ Cardinality(tracker'[r].added) = Cardinality(tracker[r].added)
             \/ Cardinality(tracker'[r].added) = Cardinality(tracker[r].added) + 1
      <4>1. IsFiniteSet(tracker[r].added)
        BY <1>4
      <4> QED
        BY <3>4, <4>1, FS_AddElement
    <3> QED
      BY <1>4, <2>1, <3>3, <3>5
  <2> QED
    BY <2>2, <2>3
<1> QED
  BY <1>1, <1>4, <1>5, <1>6, <1>7 DEF EntriesFit

\* The steps of other requests leave the message of a Finalise true: the objects
\* it names stay while their report is a draft.
LEMMA OtherEntries ==
    ASSUME TypeOK, Consistent, NEW r \in Request, Receive(r) \/ Handle(r),
           NEW q \in Request, q # r, EntriesFit(q)
    PROVE  EntriesFit(q)'
<1>1. pc'[q] = pc[q] /\ input'[q] = input[q] /\ tracker'[q] = tracker[q]
  BY Frame
<1>2. ASSUME input[q].op = "finalise", pc[q] = "begin", report'[input[q].journey] = "draft",
             NEW i \in DOMAIN input[q].entries, input[q].entries[i].id # Unsynced
      PROVE  input[q].entries[i].id \in ObjectsOf(input[q].journey)'
  <2>1. PICK rp \in Report : rp = input[q].journey
    BY <1>2, InputOf DEF FinaliseInput
  <2>2. report[rp] \in ReportStatus
    BY <1>2, <2>1 DEF Consistent, References
  <2>3. report[rp] = "draft" /\ ObjectsOf(rp) \subseteq ObjectsOf(rp)'
    BY <1>2, <2>1, <2>2, DraftKeepsObjects
  <2>4. input[q].entries[i].id \in ObjectsOf(rp)
    BY <1>2, <2>1, <2>3 DEF EntriesFit
  <2>5. ObjectsOf(input[q].journey)' = ObjectsOf(rp)'
    BY <1>1, <2>1 DEF ObjectsOf
  <2> QED
    BY <2>3, <2>4, <2>5
<1> QED
  BY <1>1, <1>2 DEF EntriesFit

\* Every step keeps EntriesOK.
LEMMA EntriesStep ==
    ASSUME NoRetries, TypeOK, Consistent, AttemptsOK, EntriesOK, [Next]_vars
    PROVE  EntriesOK'
<1>1. CASE UNCHANGED vars
  BY <1>1 DEF vars, EntriesOK, EntriesFit, ObjectsOf, Exists
<1>2. CASE Next
  <2>1. PICK r \in Request : Receive(r) \/ Handle(r)
    BY <1>2 DEF Next
  <2>2. AttemptFits(r) /\ EntriesFit(r)
    BY DEF AttemptsOK, EntriesOK
  <2>3. ASSUME \/ DraftNotFound(r) \/ ObjectNotFound(r) \/ Fail(r)
               \/ CommitTransaction(r) \/ ReviewSave(r)
        PROVE  EntriesFit(r)'
    <3>1. input'[r].op = "none"
      BY <2>3, EndEffect, DisposeEffect DEF NoInput
    <3> QED
      BY <3>1 DEF EntriesFit
  <2>4. ASSUME GetOrCreateDraft(r) \/ SyncObject(r) \/ ReviewRead(r)
        PROVE  EntriesFit(r)'
    BY <2>4 DEF GetOrCreateDraft, SyncObject, ReviewRead, EntriesFit
  <2>5. ASSUME BuildTypeCache(r) \/ EntriesDone(r)
        PROVE  EntriesFit(r)'
    <3>1. /\ input' = input /\ tracker' = tracker
          /\ pc[r] # "begin" /\ pc'[r] # "begin"
      BY <2>5 DEF BuildTypeCache, EntriesDone, TypeOK
    <3> QED
      BY <2>2, <3>1 DEF EntriesFit
  <2>6. EntriesFit(r)'
    BY <2>1, <2>2, <2>3, <2>4, <2>5, NoTransientError, ReceiveEntries, GetDraftEntries,
       TurnEntries DEF Handle
  <2>7. ASSUME NEW q \in Request, q # r
        PROVE  EntriesFit(q)'
    BY <2>1, <2>7, OtherEntries DEF EntriesOK
  <2> QED
    BY <2>6, <2>7 DEF EntriesOK
<1> QED
  BY <1>1, <1>2

\* The objects a Finalise adds are those its loop collected.
LEMMA OnceStep ==
    ASSUME TypeOK, Consistent, Next, NEW r \in Request, EntriesFit(r),
           pc[r] = "commit", pc'[r] = "idle", input[r].op = "finalise"
    PROVE  LET list == input[r].entries
               unknown == {i \in DOMAIN list :
                             list[i].id = Unsynced /\ list[i].op # "delete"}
           IN  Cardinality({o \in Object : ~ Exists(o) /\ Exists(o)'}) <= Cardinality(unknown)
<1> DEFINE list == input[r].entries
           unknown == {i \in DOMAIN list : list[i].id = Unsynced /\ list[i].op # "delete"}
           new == {o \in Object : ~ Exists(o) /\ Exists(o)'}
           before == UnknownBefore(list, tracker[r].next)
<1>1. new \in SUBSET tracker[r].added
  <2>1. CASE CommitTransaction(r)
    <3> SUFFICES ASSUME NEW o \in Object, o \notin tracker[r].added, Exists(o)'
                 PROVE  Exists(o)
      OBVIOUS
    <3>1. object'[o].status # "deleted"
      BY DEF Exists, ObjectStatus
    <3>2. object'[o] = object[o]
      BY <2>1, <3>1, CommitEffect
    <3> QED
      BY <3>2 DEF Exists
  <2>2. CASE ~ CommitTransaction(r)
    <3>1. object' = object
      BY <2>2, CommitOrFail DEF ReviewSave, Fail, database
    <3> QED
      BY <3>1 DEF Exists
  <2> QED
    BY <2>1, <2>2
<1>2. IsFiniteSet(tracker[r].added) /\ Cardinality(tracker[r].added) <= Cardinality(before)
  BY DEF EntriesFit
<1>3. /\ Cardinality(before) \in Nat /\ Cardinality(unknown) \in Nat
      /\ Cardinality(before) <= Cardinality(unknown)
  <2>1. list \in Seq(Entry) /\ tracker[r].next \in Nat \ {0}
    BY InputOf DEF FinaliseInput, TypeOK, Tracker
  <2> QED
    BY <2>1, UnknownCount
<1> HIDE DEF new, before, unknown
<1>4. /\ Cardinality(new) <= Cardinality(tracker[r].added)
      /\ Cardinality(new) \in Nat /\ Cardinality(tracker[r].added) \in Nat
  BY <1>1, <1>2, FS_Subset, FS_CardinalityType
<1>5. Cardinality(new) <= Cardinality(unknown)
  BY <1>2, <1>3, <1>4
<1> QED
  BY <1>5 DEF new, unknown

\* Without retries a Finalise stores no object twice, however many requests are
\* served at the same time.
THEOREM EntriesOnceWithoutRetries ==
    ASSUME NoRetries
    PROVE  Spec => EntriesOnce
<1> DEFINE Once == \A r \in Request :
          pc[r] = "commit" /\ pc'[r] = "idle" /\ input[r].op = "finalise"
            => LET list == input[r].entries
                   unknown == {i \in DOMAIN list :
                                 list[i].id = Unsynced /\ list[i].op # "delete"}
               IN  Cardinality({o \in Object : ~ Exists(o) /\ Exists(o)'})
                     <= Cardinality(unknown)
<1>1. Init => EntriesOK
  BY DEF Init, EntriesOK, EntriesFit, NoInput
<1>2. TypeOK /\ Consistent /\ AttemptsOK /\ EntriesOK /\ [Next]_vars => EntriesOK'
  BY EntriesStep
<1>3. TypeOK /\ Consistent /\ EntriesOK /\ [Next]_vars => [Once]_vars
  BY OnceStep DEF EntriesOK
<1> QED
  BY <1>1, <1>2, <1>3, TypeCorrect, ConsistentAlways, AttemptsAlways, PTL
     DEF Spec, EntriesOnce
-----------------------------------------------------------------------------
(* One request at a time: what a request read is still so. *)

\* The draft a SyncObject found is still one, or is being inserted.
TargetFits(r) ==
    LET t == tracker[r] IN
    input[r].op = "sync" /\ pc[r] # "begin" =>
        t.journey \in t.drafts \/ report[t.journey] = "draft"

\* An ObjectReview holds the report and its objects as they are in the tables.
ReviewFits(r) ==
    LET t == tracker[r] IN
    input[r].op = "review" /\ pc[r] = "commit" =>
        /\ t.journey = input[r].journey /\ t.status = report[t.journey]
        /\ t.seen = StatusesIn(t.journey) /\ input[r].object \in ObjectsOf(t.journey)

\* Consistent does not say that nothing is stale when nobody else is served.
SerialFits(r) == stale[r] = {} /\ TargetFits(r) /\ ReviewFits(r)
SerialOK == \A r \in Request : SerialFits(r)

\* A request that arrives has read nothing; one that ends leaves nothing behind,
\* its snapshot included.
LEMMA EmptySerial ==
    ASSUME TypeOK, NEW r \in Request, SerialFits(r),
           \/ Receive(r) \/ DraftNotFound(r) \/ ObjectNotFound(r) \/ Fail(r)
           \/ CommitTransaction(r) \/ ReviewSave(r)
    PROVE  SerialFits(r)'
<1>1. CASE Receive(r)
  BY <1>1, ReceiveEffect DEF SerialFits, TargetFits, ReviewFits
<1>2. CASE ~ Receive(r)
  <2>1. pc'[r] = "idle" /\ input'[r].op = "none"
    BY <1>2, EndEffect, DisposeEffect DEF NoInput
  <2>2. stale'[r] = {}
    BY <1>2 DEF SerialFits, DraftNotFound, ObjectNotFound, Fail, CommitTransaction,
                ReviewSave, MarkStale, TypeOK
  <2> QED
    BY <2>1, <2>2 DEF SerialFits, TargetFits, ReviewFits
<1> QED
  BY <1>1, <1>2

\* SyncObject finds its draft, or inserts one, and goes on with it.
LEMMA SyncObjectSerial ==
    ASSUME TypeOK, NEW r \in Request, SerialFits(r), GetOrCreateDraft(r) \/ SyncObject(r)
    PROVE  SerialFits(r)'
<1>1. /\ input[r].op = "sync" /\ input' = input /\ stale' = stale
      /\ report' = report
  BY DEF GetOrCreateDraft, SyncObject, database
<1>2. CASE GetOrCreateDraft(r)
  <2>1. \/ tracker'[r].journey \in tracker'[r].drafts
        \/ report'[tracker'[r].journey] = "draft"
    BY <1>1, <1>2, DraftEffect DEF IsDraft
  <2> QED
    BY <1>1, <2>1 DEF SerialFits, TargetFits, ReviewFits
<1>3. CASE SyncObject(r)
  <2>1. pc[r] # "begin"
    BY <1>3 DEF SyncObject
  <2> QED
    BY <1>1, <1>3, <2>1, CollectEffect DEF SerialFits, TargetFits, ReviewFits
<1> QED
  BY <1>2, <1>3

\* A transient error starts the operation anew, which then reads everything again.
LEMMA RetrySerial ==
    ASSUME TypeOK, NEW r \in Request, SerialFits(r), TransientError(r)
    PROVE  SerialFits(r)'
<1>1. pc'[r] = "begin" /\ stale'[r] = {}
  BY DEF TransientError, TypeOK
<1> QED
  BY <1>1 DEF SerialFits, TargetFits, ReviewFits

\* ObjectReview loads the report and its objects.
LEMMA ReviewReadSerial ==
    ASSUME TypeOK, NEW r \in Request, SerialFits(r), ReviewRead(r)
    PROVE  SerialFits(r)'
<1>1. /\ input[r].op = "review" /\ input' = input /\ stale' = stale
      /\ report' = report /\ object' = object /\ pc'[r] = "commit"
      /\ input[r].object \in ObjectsOf(input[r].journey)
  BY DEF ReviewRead, database, TypeOK
<1>2. /\ tracker'[r].journey = input[r].journey
      /\ tracker'[r].status = report[input[r].journey]
      /\ tracker'[r].seen = StatusesIn(input[r].journey)
  BY LoadEffect
<1>3. ReviewFits(r)'
  BY <1>1, <1>2 DEF ReviewFits, StatusesIn, ObjectsOf, Exists
<1> QED
  BY <1>1, <1>3 DEF SerialFits, TargetFits

\* The steps of a Finalise before its commit.
LEMMA FinaliseSerial ==
    ASSUME TypeOK, Consistent, NEW r \in Request, SerialFits(r),
           \/ GetDraft(r) \/ BuildTypeCache(r) \/ EntriesDone(r)
           \/ DeleteObject(r) \/ UpdateObject(r) \/ CreateObject(r)
    PROVE  SerialFits(r)'
<1>1. ~ ReviewRead(r) /\ input' = input /\ stale' = stale /\ input[r].op = "finalise"
  <2>1. ~ ReviewRead(r)
    BY InputOf DEF GetDraft, BuildTypeCache, EntriesDone, DeleteObject, UpdateObject,
                   CreateObject, ReviewRead
  <2> QED
    BY <2>1, OtherFits
<1> QED
  BY <1>1 DEF SerialFits, TargetFits, ReviewFits

\* Every step keeps SerialOK: the only request is the one that takes it.
LEMMA SerialStep ==
    ASSUME OneAtATime, TypeOK, Consistent, SerialOK, [Next]_vars
    PROVE  SerialOK'
<1>1. CASE UNCHANGED vars
  BY <1>1 DEF vars, SerialOK, SerialFits, TargetFits, ReviewFits, StatusesIn, ObjectsOf,
              Exists
<1>2. CASE Next
  <2>1. PICK r \in Request : Receive(r) \/ Handle(r)
    BY <1>2 DEF Next
  <2>2. SerialFits(r) /\ \A q \in Request : q = r
    BY DEF SerialOK, OneAtATime
  <2>3. SerialFits(r)'
    BY <2>1, <2>2, EmptySerial, SyncObjectSerial, RetrySerial, ReviewReadSerial,
       FinaliseSerial DEF Handle
  <2> QED
    BY <2>2, <2>3 DEF SerialOK
<1> QED
  BY <1>1, <1>2

\* The server that handles one request at a time is consistent, and what a
\* request holds in memory is what the tables hold.
THEOREM SerialAlways ==
    ASSUME OneAtATime
    PROVE  Spec => []SerialOK
<1>1. Init => SerialOK
  BY DEF Init, SerialOK, SerialFits, TargetFits, ReviewFits, NoInput
<1>2. TypeOK /\ Consistent /\ SerialOK /\ [Next]_vars => SerialOK'
  BY SerialStep
<1> QED
  BY <1>1, <1>2, TypeCorrect, ConsistentAlways, PTL DEF Spec

-----------------------------------------------------------------------------
(* Refinement. *)

\* The operators of AtomicJourney are those of the tables.
LEMMA SameTables ==
    /\ Atomic!NoRow = NoRow
    /\ \A o \in Object : Atomic!Exists(o) <=> Exists(o)
    /\ \A rp : Atomic!ObjectsOf(rp) = ObjectsOf(rp)
    /\ \A rp : Atomic!StatusesIn(rp) = StatusesIn(rp)
    /\ \A statuses, current : Atomic!Outcome(statuses, current) = Outcome(statuses, current)
    /\ Atomic!Decided = Decided
  BY DEF Atomic!NoRow, NoRow, Atomic!NoReport, NoReport, Atomic!Exists, Exists,
         Atomic!ObjectStatus, ObjectStatus, Atomic!ObjectsOf, ObjectsOf,
         Atomic!StatusesIn, StatusesIn, Atomic!Outcome, Outcome, Atomic!Decided, Decided

\* The commit of a SyncObject is AtomicJourney's Sync.
LEMMA CommitIsSync ==
    ASSUME TypeOK, Consistent, NEW r \in Request, AttemptFits(r), SerialFits(r),
           CommitTransaction(r), input[r].op = "sync"
    PROVE  Atomic!Sync
<1> DEFINE rp == tracker[r].journey
<1>1. /\ pc[r] = "commit" /\ TargetFits(r) /\ TrackerFits(r) /\ rp \in Report
      /\ tracker[r].drafts \subseteq Report
  BY CommitEffect DEF SerialFits, Consistent, TypeOK, Tracker
<1>2. PICK o \in Object : tracker[r].added = {o}
  BY <1>1 DEF AttemptFits
<1>3. object[o] = NoRow
  BY <1>2 DEF Consistent, FreshKeys
<1>4. /\ \A x \in tracker[r].drafts : report[x] = "none"
      /\ \/ tracker[r].drafts = {rp}
         \/ tracker[r].drafts = {} /\ report[rp] = "draft"
  BY <1>1 DEF Consistent, FreshKeys, AttemptFits, TargetFits
<1>5. report[rp] \in {"none", "draft"}
  BY <1>4
<1>6. tracker[r].status = "none" /\ tracker[r].removed = {}
  BY <1>1 DEF TrackerFits
<1>7. report' = [report EXCEPT ![rp] = "draft"]
  <2>1. report' = [x \in Report |-> IF x \in tracker[r].drafts THEN "draft" ELSE report[x]]
    BY <1>6 DEF CommitTransaction
  <2>2. report = [x \in Report |-> report[x]]
    BY DEF TypeOK
  <2> QED
    BY <1>1, <1>4, <2>1, <2>2
<1>8. object' = [object EXCEPT ![o] = [report |-> rp, status |-> "draft"]]
  <2>1. object' = [x \in Object |-> IF x = o THEN [report |-> rp, status |-> "draft"]
                                    ELSE object[x]]
    BY <1>2, <1>6 DEF CommitTransaction
  <2>2. object = [x \in Object |-> object[x]]
    BY DEF TypeOK
  <2> QED
    BY <2>1, <2>2
<1> QED
  BY <1>1, <1>3, <1>5, <1>7, <1>8, SameTables DEF Atomic!Sync

\* The commit of a Finalise is AtomicJourney's Finalise: nothing it read is stale.
LEMMA CommitIsFinalise ==
    ASSUME TypeOK, Consistent, NEW r \in Request, SerialFits(r),
           CommitTransaction(r), input[r].op = "finalise"
    PROVE  Atomic!Finalise
<1>1. report[tracker[r].journey] = "draft"
  <2>1. tracker[r].journey \in Report /\ InTransaction(r)
    BY CommitEffect
  <2> QED
    BY <2>1 DEF SerialFits, Consistent, SnapshotHolds
<1>2. PICK rp \in Report :
         /\ report[rp] = "draft" /\ report' = [report EXCEPT ![rp] = "submitted"]
         /\ \E removed \in SUBSET ObjectsOf(rp),
               added \in SUBSET {o \in Object : object[o] = NoRow} :
               object' = [o \in Object |->
                   IF o \in removed THEN [object[o] EXCEPT !.status = "deleted"]
                   ELSE IF o \in added THEN [report |-> rp, status |-> "draft"]
                   ELSE object[o]]
  BY <1>1, FinaliseWrites
<1>3. PICK removed \in SUBSET ObjectsOf(rp),
          added \in SUBSET {o \in Object : object[o] = NoRow} :
         object' = [o \in Object |->
             IF o \in removed THEN [object[o] EXCEPT !.status = "deleted"]
             ELSE IF o \in added THEN [report |-> rp, status |-> "draft"]
             ELSE object[o]]
  BY <1>2
<1>4. /\ removed \in SUBSET Atomic!ObjectsOf(rp)
      /\ added \in SUBSET {o \in Object : object[o] = Atomic!NoRow}
  BY SameTables
<1>5. \E gone \in SUBSET Atomic!ObjectsOf(rp),
         new \in SUBSET {o \in Object : object[o] = Atomic!NoRow} :
         object' = [o \in Object |->
             IF o \in gone THEN [object[o] EXCEPT !.status = "deleted"]
             ELSE IF o \in new THEN [report |-> rp, status |-> "draft"]
             ELSE object[o]]
  <2> USE <1>4
  <2> WITNESS removed \in SUBSET Atomic!ObjectsOf(rp),
              added \in SUBSET {o \in Object : object[o] = Atomic!NoRow}
  <2> QED
    BY <1>3
<1> QED
  <2> SUFFICES \E rr \in Report :
          /\ report[rr] = "draft"
          /\ report' = [report EXCEPT ![rr] = "submitted"]
          /\ \E gone \in SUBSET Atomic!ObjectsOf(rr),
                new \in SUBSET {o \in Object : object[o] = Atomic!NoRow} :
                object' = [o \in Object |->
                    IF o \in gone THEN [object[o] EXCEPT !.status = "deleted"]
                    ELSE IF o \in new THEN [report |-> rr, status |-> "draft"]
                    ELSE object[o]]
    BY Zenon DEF Atomic!Finalise
  <2> WITNESS rp \in Report
  <2> QED
    BY <1>2, <1>5

\* The save of an ObjectReview is AtomicJourney's Review: the statuses it decides
\* by are those in the table, and a verdict it does not write is there already.
LEMMA SaveIsReview ==
    ASSUME TypeOK, Consistent, NEW r \in Request, SerialFits(r), ReviewSave(r)
    PROVE  Atomic!Review
<1> DEFINE o == input[r].object
           verdict == input[r].verdict
           rp == tracker[r].journey
           new == Outcome([StatusesIn(rp) EXCEPT ![o] = verdict], report[rp])
<1>1. pc[r] = "commit" /\ input[r].op = "review" /\ ReviewFits(r)
  BY DEF ReviewSave, SerialFits
<1>2. o \in Object /\ verdict \in Decided
  BY <1>1, InputOf DEF ReviewInput
<1>3. /\ tracker[r].status = report[rp] /\ tracker[r].seen = StatusesIn(rp)
      /\ Exists(o) /\ object[o].report = rp
  BY <1>1 DEF ReviewFits, ObjectsOf
<1>4. report' = [report EXCEPT ![rp] = IF new = report[rp] THEN @ ELSE new]
  BY <1>3 DEF ReviewSave
<1>6. object' = [object EXCEPT ![o].status = verdict]
  <2>1. StatusesIn(rp)[o] = object[o].status
    BY <1>2, <1>3 DEF StatusesIn, ObjectsOf
  <2>2. object' = [object EXCEPT ![o].status =
                      IF object[o].status = verdict THEN object[o].status ELSE verdict]
    BY <1>3, <2>1 DEF ReviewSave
  <2> QED
    BY <2>2
<1> HIDE DEF o, verdict, rp
<1>5. report' = [report EXCEPT ![rp] =
                    Outcome([StatusesIn(rp) EXCEPT ![o] = verdict], @)]
  BY <1>4
<1> HIDE DEF new
<1> QED
  BY <1>2, <1>3, <1>5, <1>6, SameTables DEF Atomic!Review

\* The tables change only at a commit or a save.
LEMMA AtomicStep ==
    ASSUME TypeOK, Consistent, AttemptsOK, SerialOK, [Next]_vars
    PROVE  [Atomic!Next]_<<report, object>>
<1>1. CASE UNCHANGED vars
  BY <1>1 DEF vars
<1>2. CASE Next
  <2>1. PICK r \in Request : Receive(r) \/ Handle(r)
    BY <1>2 DEF Next
  <2>2. AttemptFits(r) /\ SerialFits(r)
    BY DEF AttemptsOK, SerialOK
  <2>3. CASE CommitTransaction(r)
    <3>1. input[r].op \in {"sync", "finalise"}
      BY <2>3 DEF CommitTransaction
    <3> QED
      BY <2>2, <2>3, <3>1, CommitIsSync, CommitIsFinalise DEF Atomic!Next
  <2>4. CASE ReviewSave(r)
    BY <2>2, <2>4, SaveIsReview DEF Atomic!Next
  <2>5. CASE ~ CommitTransaction(r) /\ ~ ReviewSave(r)
    BY <2>1, <2>5, Quiet
  <2> QED
    BY <2>3, <2>4, <2>5
<1> QED
  BY <1>1, <1>2

\* One at a time and in one attempt, the handlers implement AtomicJourney: what a
\* request changes it changes at once and completely, whatever fails on the way.
THEOREM SerialImplementsAtomic ==
    ASSUME OneAtATime, NoRetries
    PROVE  Spec => AtomicSpec
<1>1. Init => Atomic!Init
  BY SameTables DEF Init, Atomic!Init
<1>2. TypeOK /\ Consistent /\ AttemptsOK /\ SerialOK /\ [Next]_vars
        => [Atomic!Next]_<<report, object>>
  BY AtomicStep
<1> QED
  BY <1>1, <1>2, TypeCorrect, ConsistentAlways, AttemptsAlways, SerialAlways, PTL
     DEF Spec, AtomicSpec, Atomic!Spec

-----------------------------------------------------------------------------
(* With retries a SyncObject may insert more, but only in a draft. *)

\* The objects of all attempts join a draft, which is there or is inserted with
\* those of failed attempts.
SyncRetried ==
    \E rp \in Report, drafts \in SUBSET {x \in Report : report[x] = "none"},
       added \in SUBSET {o \in Object : object[o] = NoRow} :
        /\ rp \in drafts \/ report[rp] = "draft"
        /\ report' = [x \in Report |-> IF x \in drafts THEN "draft" ELSE report[x]]
        /\ object' = [o \in Object |-> IF o \in added
                                       THEN [report |-> rp, status |-> "draft"]
                                       ELSE object[o]]

\* The other two operations are AtomicJourney's.
SerialNext == SyncRetried \/ Atomic!Finalise \/ Atomic!Review

\* The commit of a SyncObject inserts what its attempts collected.
LEMMA CommitIsRetried ==
    ASSUME TypeOK, Consistent, NEW r \in Request, SerialFits(r),
           CommitTransaction(r), input[r].op = "sync"
    PROVE  SyncRetried
<1> DEFINE rp == tracker[r].journey
           drafts == tracker[r].drafts
           added == tracker[r].added
<1>1. /\ pc[r] = "commit" /\ rp \in Report
      /\ tracker[r].status = "none" /\ tracker[r].removed = {}
  BY CommitEffect DEF Consistent, TrackerFits
<1>2. /\ drafts \in SUBSET {x \in Report : report[x] = "none"}
      /\ added \in SUBSET {o \in Object : object[o] = NoRow}
  BY DEF Consistent, FreshKeys, TypeOK, Tracker
<1>3. rp \in drafts \/ report[rp] = "draft"
  BY <1>1 DEF SerialFits, TargetFits
<1>4. /\ report' = [x \in Report |-> IF x \in drafts THEN "draft" ELSE report[x]]
      /\ object' = [o \in Object |-> IF o \in added THEN [report |-> rp, status |-> "draft"]
                                     ELSE object[o]]
  BY <1>1 DEF CommitTransaction
<1>5. rp \in Report
  BY <1>1
<1> HIDE DEF rp, drafts, added
<1> QED
  BY <1>2, <1>3, <1>4, <1>5 DEF SyncRetried

\* One request at a time, retried or not, does this to the tables.
LEMMA SerialTables ==
    ASSUME TypeOK, Consistent, SerialOK, [Next]_vars
    PROVE  [SerialNext]_<<report, object>>
<1>1. CASE UNCHANGED vars
  BY <1>1 DEF vars
<1>2. CASE Next
  <2>1. PICK r \in Request : Receive(r) \/ Handle(r)
    BY <1>2 DEF Next
  <2>2. SerialFits(r)
    BY DEF SerialOK
  <2>3. CASE CommitTransaction(r)
    <3>1. input[r].op \in {"sync", "finalise"}
      BY <2>3 DEF CommitTransaction
    <3> QED
      BY <2>2, <2>3, <3>1, CommitIsRetried, CommitIsFinalise DEF SerialNext
  <2>4. CASE ReviewSave(r)
    BY <2>2, <2>4, SaveIsReview DEF SerialNext
  <2>5. CASE ~ CommitTransaction(r) /\ ~ ReviewSave(r)
    BY <2>1, <2>5, Quiet
  <2> QED
    BY <2>3, <2>4, <2>5
<1> QED
  BY <1>1, <1>2

-----------------------------------------------------------------------------
(* What that does keeps the decisions sound. *)

\* The rows are typed and an object's report is a report.
Tables ==
    /\ report \in [Report -> ReportStatus \cup {"none"}]
    /\ object \in [Object -> ObjectRow]
    /\ \A o \in Object : Exists(o) =>
          object[o].report \in Report /\ report[object[o].report] \in ReportStatus

\* A step works on one report, leaves the objects of the others alone and their
\* status, unless it inserts them.
Elsewhere(rp) ==
    /\ \A x \in Report \ {rp} : /\ ObjectsOf(x)' = ObjectsOf(x)
                                /\ report'[x] = report[x] \/ report'[x] = "draft"
    /\ \A o \in Object : Exists(o) /\ object[o].report # rp => object'[o] = object[o]

\* Objects join a report that is no further than a draft, others are removed.
JoinsDraft(rp) ==
    /\ report[rp] \in {"none", "draft"}
    /\ report'[rp] \in {"draft", "submitted"}
    /\ \A o \in Object : Exists(o)' => object'[o] = object[o]
                                       \/ object'[o] = [report |-> rp, status |-> "draft"]

\* One object of a report gets a verdict, and the report what follows from it.
GetsVerdict(rp) ==
    \E o \in ObjectsOf(rp), verdict \in Decided :
        /\ object'[o] = [report |-> rp, status |-> verdict]
        /\ \A x \in Object \ {o} : object'[x] = object[x]
        /\ report'[rp] = Outcome(StatusesIn(rp)', report[rp])

\* What a step of SerialNext does to one report.
LEMMA SerialEffect ==
    ASSUME Tables, SerialNext
    PROVE  \E rp \in Report : Elsewhere(rp) /\ (JoinsDraft(rp) \/ GetsVerdict(rp))
<1>1. ASSUME NEW rp \in Report,
             NEW drafts \in SUBSET {x \in Report : report[x] = "none"},
             NEW added \in SUBSET {o \in Object : object[o] = NoRow},
             rp \in drafts \/ report[rp] = "draft",
             report' = [x \in Report |-> IF x \in drafts THEN "draft" ELSE report[x]],
             object' = [o \in Object |-> IF o \in added
                                        THEN [report |-> rp, status |-> "draft"]
                                        ELSE object[o]]
      PROVE  Elsewhere(rp) /\ JoinsDraft(rp)
  <2>1. \A x \in Report : report'[x] = report[x] \/ report'[x] = "draft"
    BY <1>1
  <2>2. report[rp] \in {"none", "draft"} /\ report'[rp] = "draft"
    BY <1>1
  <2>3. \A o \in added : /\ object'[o] = [report |-> rp, status |-> "draft"]
                         /\ ~ Exists(o)
    BY <1>1 DEF Exists, NoRow, ObjectStatus
  <2>4. \A o \in Object \ added : object'[o] = object[o]
    BY <1>1
  <2>5. \A x \in Report \ {rp} : ObjectsOf(x)' = ObjectsOf(x)
    BY <2>3, <2>4 DEF ObjectsOf, Exists
  <2>6. \A o \in Object : Exists(o) => object'[o] = object[o]
    BY <2>3, <2>4
  <2>7. \A o \in Object : object'[o] = object[o]
                         \/ object'[o] = [report |-> rp, status |-> "draft"]
    BY <2>3, <2>4
  <2> QED
    BY <2>1, <2>2, <2>5, <2>6, <2>7 DEF Elsewhere, JoinsDraft
<1>2. ASSUME NEW rp \in Report, report[rp] = "draft",
             report' = [report EXCEPT ![rp] = "submitted"],
             NEW removed \in SUBSET ObjectsOf(rp),
             NEW added \in SUBSET {o \in Object : object[o] = NoRow},
             object' = [o \in Object |->
                  IF o \in removed THEN [object[o] EXCEPT !.status = "deleted"]
                  ELSE IF o \in added THEN [report |-> rp, status |-> "draft"]
                  ELSE object[o]]
      PROVE  Elsewhere(rp) /\ JoinsDraft(rp)
  <2>1. /\ \A x \in Report \ {rp} : report'[x] = report[x]
        /\ report'[rp] = "submitted"
    BY <1>2 DEF Tables
  <2>2. \A o \in removed : object[o].report = rp /\ Exists(o) /\ ~ Exists(o)'
    <3>1. \A o \in removed : object[o] \in ObjectRow
      BY DEF Tables, ObjectsOf
    <3>2. \A o \in removed : object'[o].status = "deleted"
      BY <1>2, <3>1, RowWithStatus DEF ObjectsOf
    <3> QED
      BY <3>2 DEF ObjectsOf, Exists, ObjectStatus
  <2>3. \A o \in added \ removed : ~ Exists(o)
                 /\ object'[o] = [report |-> rp, status |-> "draft"]
    BY <1>2 DEF Exists, NoRow, ObjectStatus
  <2>4. \A o \in Object \ (added \cup removed) :
           object'[o] = object[o] /\ (Exists(o)' <=> Exists(o))
    BY <1>2 DEF Exists
  <2>5. \A x \in Report \ {rp} : ObjectsOf(x)' = ObjectsOf(x)
    <3> SUFFICES ASSUME NEW x \in Report \ {rp}, NEW o \in Object
                 PROVE  o \in ObjectsOf(x)' <=> o \in ObjectsOf(x)
      BY DEF ObjectsOf
    <3>1. CASE o \in removed
      BY <2>2, <3>1 DEF ObjectsOf
    <3>2. CASE o \in added \ removed
      BY <2>3, <3>2 DEF ObjectsOf
    <3>3. CASE o \notin added \cup removed
      BY <2>4, <3>3 DEF ObjectsOf
    <3> QED
      BY <3>1, <3>2, <3>3
  <2>6. \A o \in Object : Exists(o) /\ object[o].report # rp => object'[o] = object[o]
    BY <2>2, <2>3, <2>4
  <2>7. \A o \in Object : Exists(o)' => object'[o] = object[o]
                                  \/ object'[o] = [report |-> rp, status |-> "draft"]
    BY <2>2, <2>3, <2>4
  <2> QED
    BY <1>2, <2>1, <2>5, <2>6, <2>7 DEF Elsewhere, JoinsDraft
<1>3. ASSUME NEW o \in Object, NEW verdict \in Decided, NEW rp, rp = object[o].report,
             Exists(o), object' = [object EXCEPT ![o].status = verdict],
             report' = [report EXCEPT ![rp] =
                           Outcome([StatusesIn(rp) EXCEPT ![o] = verdict], @)]
      PROVE  rp \in Report /\ Elsewhere(rp) /\ GetsVerdict(rp)
  <2>1. rp \in Report /\ o \in ObjectsOf(rp)
    BY <1>3 DEF Tables, ObjectsOf
  <2>2. /\ object'[o] = [report |-> rp, status |-> verdict]
        /\ \A x \in Object \ {o} : object'[x] = object[x]
    BY <1>3 DEF Tables, ObjectRow
  <2>3. \A x \in Object : Exists(x)' <=> Exists(x)
    BY <1>3, <2>2 DEF Exists, Decided, ObjectStatus
  <2>4. \A x : ObjectsOf(x)' = ObjectsOf(x)
    BY <1>3, <2>2, <2>3 DEF ObjectsOf
  <2>5. StatusesIn(rp)' = [StatusesIn(rp) EXCEPT ![o] = verdict]
    <3> DEFINE S(x) == IF x \in ObjectsOf(rp) THEN object[x].status ELSE "none"
               T(x) == IF x \in ObjectsOf(rp) THEN object'[x].status ELSE "none"
    <3>1. StatusesIn(rp) = [x \in Object |-> S(x)] /\ StatusesIn(rp)' = [x \in Object |-> T(x)]
      BY <2>4 DEF StatusesIn
    <3>2. T(o) = verdict /\ \A x \in Object \ {o} : T(x) = S(x)
      BY <2>1, <2>2
    <3> HIDE DEF S, T
    <3> QED
      BY <3>1, <3>2
  <2>6. /\ \A x \in Report \ {rp} : report'[x] = report[x]
        /\ report'[rp] = Outcome([StatusesIn(rp) EXCEPT ![o] = verdict], report[rp])
    BY <1>3, <2>1 DEF Tables
  <2>7. Elsewhere(rp)
    BY <1>3, <2>2, <2>4, <2>6 DEF Elsewhere
  <2>8. GetsVerdict(rp)
    BY <2>1, <2>2, <2>5, <2>6 DEF GetsVerdict
  <2> QED
    BY <2>1, <2>7, <2>8
<1>4. CASE SyncRetried
  BY <1>1, <1>4 DEF SyncRetried
<1>5. CASE Atomic!Finalise
  <2>1. PICK rp \in Report :
          /\ report[rp] = "draft"
          /\ report' = [report EXCEPT ![rp] = "submitted"]
          /\ \E removed \in SUBSET Atomic!ObjectsOf(rp),
                added \in SUBSET {o \in Object : object[o] = Atomic!NoRow} :
                object' = [o \in Object |->
                    IF o \in removed THEN [object[o] EXCEPT !.status = "deleted"]
                    ELSE IF o \in added THEN [report |-> rp, status |-> "draft"]
                    ELSE object[o]]
    BY <1>5 DEF Atomic!Finalise
  <2>2. /\ Atomic!ObjectsOf(rp) = ObjectsOf(rp)
        /\ {o \in Object : object[o] = Atomic!NoRow} = {o \in Object : object[o] = NoRow}
    BY SameTables
  <2> QED
    BY <1>2, <2>1, <2>2
<1>6. CASE Atomic!Review
  <2>1. PICK o \in Object, verdict \in Decided :
          /\ Exists(o) /\ object' = [object EXCEPT ![o].status = verdict]
          /\ report' = [report EXCEPT ![object[o].report] =
                Outcome([StatusesIn(object[o].report) EXCEPT ![o] = verdict], @)]
    BY <1>6, SameTables DEF Atomic!Review
  <2> QED
    BY <1>3, <2>1
<1> QED
  BY <1>4, <1>5, <1>6 DEF SerialNext

\* The tables of the server have these types.
LEMMA TablesTyped ==
    ASSUME TypeOK, Consistent
    PROVE  Tables
BY DEF TypeOK, Consistent, References, Tables

\* DecisionSound of one report, object by object.
Sound(rp) ==
    /\ report[rp] = "resolved" =>
          /\ \E o \in ObjectsOf(rp) : object[o].status = "resolved"
          /\ \A o \in ObjectsOf(rp) : object[o].status # "draft"
    /\ report[rp] = "closed" =>
          /\ ObjectsOf(rp) # {}
          /\ \A o \in ObjectsOf(rp) : object[o].status = "closed"

\* What Outcome decides when every object of a report has a verdict; it keeps the
\* status it was given when one has none.
LEMMA OutcomeOf ==
    ASSUME NEW objects \in (SUBSET Object) \ {{}}, NEW statuses, NEW current,
           \A o \in Object : statuses[o] # "none" <=> o \in objects
    PROVE  LET new == Outcome(statuses, current)
               decided == \A o \in objects : statuses[o] # "draft"
               rejected == \A o \in objects : statuses[o] = "closed"
           IN  /\ rejected => new = "closed"
               /\ ~ rejected /\ decided => new = "resolved"
               /\ ~ decided => new = current
<1>1. {o \in Object : statuses[o] # "none"} = objects
  OBVIOUS
<1>2. Outcome(statuses, current) =
         IF {o \in objects : statuses[o] = "closed"} = objects THEN "closed"
         ELSE IF {o \in objects : statuses[o] = "draft"} = {} THEN "resolved"
         ELSE current
  BY <1>1 DEF Outcome
<1> QED
  BY <1>2

\* The statuses ObjectReview decides by are those of the report's objects.
LEMMA StatusesOf ==
    ASSUME NEW rp
    PROVE  /\ \A o \in Object : StatusesIn(rp)'[o] # "none" <=> o \in ObjectsOf(rp)'
           /\ \A o \in ObjectsOf(rp)' : StatusesIn(rp)'[o] = object'[o].status
BY DEF StatusesIn, ObjectsOf, Exists, ObjectStatus

\* The reports a step leaves alone keep their objects as they are.
LEMMA OthersKept ==
    ASSUME NEW rp \in Report, Elsewhere(rp), NEW x \in Report \ {rp}
    PROVE  /\ report'[x] = report[x] \/ report'[x] = "draft"
           /\ ObjectsOf(x)' = ObjectsOf(x)
           /\ \A o \in ObjectsOf(x) : object'[o] = object[o]
BY DEF Elsewhere, ObjectsOf

\* A verdict keeps the objects of its report, which then fit the decision.
LEMMA VerdictEffect ==
    ASSUME NEW rp \in Report, GetsVerdict(rp)
    PROVE  /\ ObjectsOf(rp)' = ObjectsOf(rp) /\ ObjectsOf(rp) # {}
           /\ \E o \in ObjectsOf(rp) :
                 /\ object'[o].status \in Decided
                 /\ \A x \in Object \ {o} : object'[x] = object[x]
           /\ report'[rp] = Outcome(StatusesIn(rp)', report[rp])
<1>1. PICK o \in ObjectsOf(rp), verdict \in Decided :
         /\ object'[o] = [report |-> rp, status |-> verdict]
         /\ \A x \in Object \ {o} : object'[x] = object[x]
         /\ report'[rp] = Outcome(StatusesIn(rp)', report[rp])
  BY DEF GetsVerdict
<1>2. object'[o].status = verdict /\ object'[o].report = rp /\ object[o].report = rp
  BY <1>1 DEF ObjectsOf
<1>3. \A x \in Object : /\ Exists(x)' <=> Exists(x)
                        /\ (object'[x].report = rp) <=> (object[x].report = rp)
  BY <1>1, <1>2 DEF Exists, ObjectsOf, Decided, ObjectStatus
<1>4. ObjectsOf(rp)' = ObjectsOf(rp)
  BY <1>3 DEF ObjectsOf
<1> QED
  BY <1>1, <1>2, <1>4

\* The report gets the decision that the verdicts of its objects then make.
LEMMA VerdictDecides ==
    ASSUME NEW rp \in Report, GetsVerdict(rp)
    PROVE  LET decided == \A o \in ObjectsOf(rp)' : object'[o].status # "draft"
               rejected == \A o \in ObjectsOf(rp)' : object'[o].status = "closed"
           IN  /\ rejected => report'[rp] = "closed"
               /\ ~ rejected /\ decided => report'[rp] = "resolved"
               /\ ~ decided => report'[rp] = report[rp]
<1>1. /\ report'[rp] = Outcome(StatusesIn(rp)', report[rp])
      /\ ObjectsOf(rp)' \in (SUBSET Object) \ {{}}
  BY VerdictEffect DEF ObjectsOf
<1>2. /\ \A o \in Object : StatusesIn(rp)'[o] # "none" <=> o \in ObjectsOf(rp)'
      /\ \A o \in ObjectsOf(rp)' : StatusesIn(rp)'[o] = object'[o].status
  BY StatusesOf
<1> DEFINE S(o) == StatusesIn(rp)'[o]
<1>3. LET new == Outcome(StatusesIn(rp)', report[rp])
          decided == \A o \in ObjectsOf(rp)' : S(o) # "draft"
          rejected == \A o \in ObjectsOf(rp)' : S(o) = "closed"
      IN  /\ rejected => new = "closed"
          /\ ~ rejected /\ decided => new = "resolved"
          /\ ~ decided => new = report[rp]
  BY <1>1, <1>2, OutcomeOf
<1> QED
  BY <1>1, <1>2, <1>3

\* A step that changes one report keeps every decision true of its objects.
LEMMA SoundStep ==
    ASSUME NEW rp \in Report, Elsewhere(rp), JoinsDraft(rp) \/ GetsVerdict(rp), DecisionSound
    PROVE  DecisionSound'
<1>1. \A x \in Report : Sound(x)
  BY DEF DecisionSound, Sound
<1>2. ASSUME NEW x \in Report \ {rp}
      PROVE  Sound(x)'
  BY <1>1, OthersKept DEF Sound
<1>3. ASSUME JoinsDraft(rp)
      PROVE  Sound(rp)'
  BY <1>3 DEF JoinsDraft, Sound
<1>4. ASSUME GetsVerdict(rp)
      PROVE  Sound(rp)'
  <2>1. ObjectsOf(rp)' = ObjectsOf(rp) /\ ObjectsOf(rp) # {}
    BY <1>4, VerdictEffect
  <2>2. PICK o \in ObjectsOf(rp) :
          /\ object'[o].status \in Decided
          /\ \A x \in Object \ {o} : object'[x] = object[x]
    BY <1>4, VerdictEffect
  <2> DEFINE decided == \A x \in ObjectsOf(rp)' : object'[x].status # "draft"
             rejected == \A x \in ObjectsOf(rp)' : object'[x].status = "closed"
  <2>3. /\ rejected => report'[rp] = "closed"
        /\ ~ rejected /\ decided => report'[rp] = "resolved"
        /\ ~ decided => report'[rp] = report[rp]
    BY <1>4, VerdictDecides
  <2>4. CASE decided
    <3>1. \A x \in ObjectsOf(rp)' : object'[x].status \in ObjectStatus
      BY DEF ObjectsOf, Exists
    <3>2. ~ rejected => \E x \in ObjectsOf(rp)' : object'[x].status = "resolved"
      BY <2>4, <3>1 DEF ObjectStatus
    <3> QED
      BY <2>1, <2>3, <2>4, <3>2 DEF Sound
  <2>5. CASE ~ decided
    <3>1. PICK x \in ObjectsOf(rp) : object'[x].status = "draft"
      BY <2>1, <2>5
    <3>2. object[x].status = "draft"
      BY <2>2, <3>1 DEF Decided, ObjectsOf
    <3>3. report[rp] \notin Decided
      BY <1>1, <3>1, <3>2 DEF Sound, Decided
    <3> QED
      BY <2>3, <2>5, <3>3 DEF Sound, Decided
  <2> QED
    BY <2>4, <2>5
<1>5. \A x \in Report : Sound(x)'
  BY <1>2, <1>3, <1>4
<1> QED
  BY <1>5 DEF DecisionSound, Sound

\* The verdict that leaves no object of a report without one decides the report.
LEMMA CompleteStep ==
    ASSUME NEW rp \in Report, Elsewhere(rp), JoinsDraft(rp) \/ GetsVerdict(rp),
           NEW x \in Report,
           \E o \in ObjectsOf(x) : object'[o].status \in Decided \ {object[o].status},
           \A o \in ObjectsOf(x)' : object'[o].status \in Decided
    PROVE  report'[x] \in Decided
<1>1. x = rp
  BY OthersKept
<1>2. ~ JoinsDraft(rp)
  <2> SUFFICES ASSUME JoinsDraft(rp), NEW o \in ObjectsOf(rp),
                      object'[o].status \in Decided \ {object[o].status}
               PROVE  FALSE
    BY <1>1
  <2>1. o \in Object /\ Exists(o)'
    BY DEF Exists, ObjectsOf, Decided, ObjectStatus
  <2> QED
    BY <2>1 DEF JoinsDraft, Decided
<1>3. \A o \in ObjectsOf(rp)' : object'[o].status # "draft"
  BY <1>1 DEF Decided
<1> QED
  BY <1>1, <1>2, <1>3, VerdictDecides DEF Decided

\* Objects are added to drafts only.
LEMMA JoinStep ==
    ASSUME Tables, NEW rp \in Report, JoinsDraft(rp) \/ GetsVerdict(rp),
           NEW o \in Object, ~ Exists(o), Exists(o)'
    PROVE  report[object'[o].report] \in {"none", "draft"}
<1>1. object'[o] # object[o]
  BY DEF Exists
<1>2. CASE JoinsDraft(rp)
  BY <1>1, <1>2 DEF JoinsDraft
<1>3. CASE GetsVerdict(rp)
  BY <1>1, <1>3 DEF GetsVerdict, ObjectsOf
<1> QED
  BY <1>2, <1>3

-----------------------------------------------------------------------------
(* The theorems about decisions. *)

\* A step works on one report of typed tables, or changes neither table.
LEMMA EveryStep ==
    ASSUME TypeOK, Consistent, SerialOK, [Next]_vars
    PROVE  \/ report' = report /\ object' = object
           \/ /\ Tables
              /\ \E rp \in Report : Elsewhere(rp) /\ (JoinsDraft(rp) \/ GetsVerdict(rp))
BY SerialTables, TablesTyped, SerialEffect

\* One request at a time, retried or not, a resolved report has an accepted object
\* and none without a verdict, a closed one has rejected objects only.
THEOREM SerialDecisionSound ==
    ASSUME OneAtATime
    PROVE  Spec => []DecisionSound
<1>1. Init => DecisionSound
  BY DEF Init, DecisionSound
<1>2. TypeOK /\ Consistent /\ SerialOK /\ DecisionSound /\ [Next]_vars => DecisionSound'
  <2> SUFFICES ASSUME TypeOK, Consistent, SerialOK, DecisionSound, [Next]_vars
               PROVE  DecisionSound'
    OBVIOUS
  <2>1. CASE report' = report /\ object' = object
    BY <2>1 DEF DecisionSound, ObjectsOf, Exists
  <2> QED
    BY <2>1, EveryStep, SoundStep
<1> QED
  BY <1>1, <1>2, TypeCorrect, ConsistentAlways, SerialAlways, PTL DEF Spec

\* One request at a time, the last verdict an object of a report was waiting for
\* decides the report.
THEOREM SerialDecisionComplete ==
    ASSUME OneAtATime
    PROVE  Spec => DecisionComplete
<1> DEFINE Complete == \A rp \in Report :
          /\ \E o \in ObjectsOf(rp) : object'[o].status \in Decided \ {object[o].status}
          /\ \A o \in ObjectsOf(rp)' : object'[o].status \in Decided
        => report'[rp] \in Decided
<1>1. TypeOK /\ Consistent /\ SerialOK /\ [Next]_vars => [Complete]_vars
  <2> SUFFICES ASSUME TypeOK, Consistent, SerialOK, [Next]_vars
               PROVE  Complete
    OBVIOUS
  <2> QED
    BY EveryStep, CompleteStep
<1> QED
  BY <1>1, TypeCorrect, ConsistentAlways, SerialAlways, PTL DEF Spec, DecisionComplete

\* One request at a time, no object is added to a report that was submitted.
THEOREM SerialObjectsJoinDrafts ==
    ASSUME OneAtATime
    PROVE  Spec => ObjectsJoinDrafts
<1> DEFINE Join == \A o \in Object : ~ Exists(o) /\ Exists(o)'
            => report[object'[o].report] \in {"none", "draft"}
<1>1. TypeOK /\ Consistent /\ SerialOK /\ [Next]_vars => [Join]_vars
  <2> SUFFICES ASSUME TypeOK, Consistent, SerialOK, [Next]_vars,
                      NEW o \in Object, ~ Exists(o), Exists(o)'
               PROVE  report[object'[o].report] \in {"none", "draft"}
    OBVIOUS
  <2>1. ~ (report' = report /\ object' = object)
    BY DEF Exists
  <2> QED
    BY <2>1, EveryStep, JoinStep
<1> QED
  BY <1>1, TypeCorrect, ConsistentAlways, SerialAlways, PTL DEF Spec, ObjectsJoinDrafts

=============================================================================
