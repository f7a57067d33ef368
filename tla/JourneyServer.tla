---------------------------- MODULE JourneyServer ----------------------------
(***************************************************************************)
(* The server side of a journey: a map user syncs hindrance objects into a *)
(* draft report and finalises it, an administrator reviews its objects.    *)
(*                                                                         *)
(* Every HTTP request is handled with an Entity Framework context of its   *)
(* own.  A handler queries the database, changes the tracked entities in   *)
(* memory and saves them at the end, so what it writes was computed from   *)
(* what it read earlier.  SyncObject and Finalise run inside               *)
(* ExecuteInTransactionAsync, whose execution strategy re-runs the         *)
(* operation after a transient error WITHOUT clearing the change tracker;  *)
(* ObjectReview reads outside any transaction and saves in one.            *)
(*                                                                         *)
(* The tables are report, object and points.  What a handler has in memory *)
(* is pc, input, tracker and attempt; stale[r] is the database's record of *)
(* the rows that were changed by others since r's snapshot.                *)
(***************************************************************************)
EXTENDS JourneyTables

CONSTANTS
    Request,            \* slots for requests handled at the same time
    Coord,              \* positions on the map
    PointLists,         \* the lists of points a client may send
    MaxEntries,         \* bound: entries of one finalise request
    MaxRetry,           \* EnableRetryOnFailure(5): retries of a transaction
    ConflictDetection,  \* does a write fail on a row changed since the snapshot?
    ReviewOf            \* statuses of the reports administrators review

Unsynced == "unsynced"     \* an id the client made up, in no table

ASSUME KeysAssumption ==
    /\ NoReport \notin Report /\ Unsynced \notin Object
    /\ Report \cap Object = {}

ASSUME BoundsAssumption ==
    /\ MaxRetry \in Nat /\ MaxEntries \in Nat
    /\ PointLists \subseteq Seq(Coord)
    /\ ConflictDetection \in BOOLEAN /\ ReviewOf \subseteq ReportStatus

VARIABLES
    points,     \* HindrancePoints: object, Order and position of each row
    pc,         \* where each request is
    input,      \* what the client sent
    tracker,    \* the change tracker of the request's DatabaseContext
    stale,      \* rows others changed since the request's snapshot
    attempt     \* retries made by the execution strategy

database == <<report, object, points>>
vars == <<report, object, points, pc, input, tracker, stale, attempt>>

-----------------------------------------------------------------------------
(* Data. *)

Point == [object : Object, order : Nat, at : Coord]

\* FinalizeJourneyObject: "keep" sends the stored values back, "edit" others.
Entry == [id : Object \cup {Unsynced}, op : {"keep", "edit", "delete"},
          points : PointLists]

SyncInput == [op : {"sync"}, journey : Report \cup {NoReport}, points : PointLists]
FinaliseInput == [op : {"finalise"}, journey : Report, entries : Seq(Entry)]
ReviewInput == [op : {"review"}, journey : Report, object : Object, verdict : Decided]
NoInput == [op |-> "none"]

\* What the context tracks: the report and its objects as loaded, the rows to
\* insert, update and remove, and the position in the loop over the entries.
Tracker == [journey : Report \cup {NoReport},
            status  : ReportStatus \cup {"none"},
            seen    : [Object -> ObjectStatus \cup {"none"}],
            loaded  : SUBSET Point,
            drafts  : SUBSET Report,
            added   : SUBSET Object,
            edited  : SUBSET Object,
            removed : SUBSET Object,
            placed  : SUBSET Point,
            next    : Nat \ {0}]
NoTracker == [journey |-> NoReport, status |-> "none",
              seen |-> [o \in Object |-> "none"], loaded |-> {},
              drafts |-> {}, added |-> {}, edited |-> {}, removed |-> {},
              placed |-> {}, next |-> 1]

-----------------------------------------------------------------------------
(* Queries. *)

PointsIn(rp) == {p \in points : p.object \in ObjectsOf(rp)}

\* Faulty: GetDraft without its status filter.
IsDraft_AnyStatus(rp) == rp \in Report /\ report[rp] # "none"

\* GetDraft's WHERE clause; journeyId may be null.
IsDraft(rp) == rp \in Report /\ report[rp] = "draft"

FreshReports == {rp \in Report : /\ report[rp] = "none"
                                 /\ \A r \in Request : rp \notin tracker[r].drafts}
FreshObjects == {o \in Object : /\ object[o] = NoRow
                                /\ \A r \in Request : o \notin tracker[r].added}

\* AddPoints stores the points of a list that are at the positions kept; it
\* numbers them from 0, whatever the object has.  Faulty: it numbers them from 1.
AddPoints_FromOne(o, list, kept) ==
    {[object |-> o, order |-> Cardinality({k \in kept : k <= i}), at |-> list[i]] :
        i \in kept}
AddPoints(o, list, kept) ==
    {[object |-> o, order |-> Cardinality({k \in kept : k < i}), at |-> list[i]] :
        i \in kept}

\* The rows a commit changed become stale for the open transactions.
InTransaction(q) == input[q].op = "finalise" /\ pc[q] # "begin"
MarkStale(r, rows) ==
    stale' = [q \in Request |-> IF q = r THEN {}
                                ELSE IF InTransaction(q) THEN stale[q] \cup rows
                                ELSE stale[q]]

\* Changes the change tracker of a request, and no other.
Track(r, t) == tracker' = [tracker EXCEPT ![r] = t]

Init ==
    /\ report = [rp \in Report |-> "none"]
    /\ object = [o \in Object |-> NoRow]
    /\ points = {}
    /\ pc = [r \in Request |-> "idle"]
    /\ input = [r \in Request |-> NoInput]
    /\ tracker = [r \in Request |-> NoTracker]
    /\ stale = [r \in Request |-> {}]
    /\ attempt = [r \in Request |-> 0]

-----------------------------------------------------------------------------
(* Requests arrive, are answered, fail. *)

Accept(r, message) ==
    /\ pc[r] = "idle"
    /\ pc' = [pc EXCEPT ![r] = "begin"]
    /\ input' = [input EXCEPT ![r] = message]
    /\ UNCHANGED <<database, tracker, stale, attempt>>

ReceiveSync(r) ==
    \E rp \in Report \cup {NoReport}, list \in PointLists :
        /\ rp # NoReport => report[rp] # "none"
        /\ Accept(r, [op |-> "sync", journey |-> rp, points |-> list])

\* An entry names an object of the journey at most once; one the client has no
\* server id for is new, whatever its id.
EntryLists(rp) ==
    LET Sent == {e \in Entry : IF e.id = Unsynced THEN e.op # "edit"
                               ELSE e.id \in ObjectsOf(rp)}
    IN  {list \in UNION {[1..n -> Sent] : n \in 0..MaxEntries} :
            \A i, j \in DOMAIN list :
                i # j /\ list[i].id = list[j].id => list[i].id = Unsynced}

ReceiveFinalise(r) ==
    \E rp \in Report :
        /\ report[rp] # "none"
        /\ \E list \in EntryLists(rp) :
               Accept(r, [op |-> "finalise", journey |-> rp, entries |-> list])

ReceiveReview(r) ==
    \E rp \in Report, verdict \in Decided :
        /\ report[rp] \in ReviewOf
        /\ \E o \in ObjectsOf(rp) :
               Accept(r, [op |-> "review", journey |-> rp, object |-> o,
                          verdict |-> verdict])

\* The request ends: its DatabaseContext is disposed.
Dispose(r) ==
    /\ pc' = [pc EXCEPT ![r] = "idle"]
    /\ input' = [input EXCEPT ![r] = NoInput]
    /\ Track(r, NoTracker)
    /\ attempt' = [attempt EXCEPT ![r] = 0]

\* Any error that is not retried, a failing SaveChanges or COMMIT among them:
\* the transaction is rolled back and the client gets a 400 or a 500.
Fail(r) ==
    /\ pc[r] # "idle"
    /\ Dispose(r)
    /\ stale' = [stale EXCEPT ![r] = {}]
    /\ UNCHANGED database

-----------------------------------------------------------------------------
(* SyncObject. *)

\* GetOrCreateDraft: the named draft, or else a new one.
GetOrCreateDraft(r) ==
    LET rp == input[r].journey IN
    /\ pc[r] = "begin" /\ input[r].op = "sync"
    /\ \/ /\ IsDraft(rp)
          /\ Track(r, [tracker[r] EXCEPT !.journey = rp])
       \/ /\ ~ IsDraft(rp)
          /\ \E new \in FreshReports :
                 Track(r, [tracker[r] EXCEPT !.journey = new, !.drafts = @ \cup {new}])
    /\ pc' = [pc EXCEPT ![r] = "types"]
    /\ UNCHANGED <<database, input, stale, attempt>>

\* BuildTypeCache, CreateObject and AddPoints.
SyncObject(r) ==
    /\ pc[r] = "types" /\ input[r].op = "sync"
    /\ \E new \in FreshObjects :
           Track(r, [tracker[r] EXCEPT !.added = @ \cup {new},
                        !.placed = AddPoints(new, input[r].points, DOMAIN input[r].points)])
    /\ pc' = [pc EXCEPT ![r] = "commit"]
    /\ UNCHANGED <<database, input, stale, attempt>>

-----------------------------------------------------------------------------
(* Finalise. *)

\* What the query gives the context: rows it tracks already keep the values the
\* first attempt read (identity resolution), others are as they are now.
SeenIn(r, rp) ==
    [o \in Object |-> IF tracker[r].seen[o] # "none" THEN tracker[r].seen[o]
                                                    ELSE StatusesIn(rp)[o]]

\* Faulty: FinaliseReport forgets the status.
GetDraft_NotSubmitted(r) ==
    LET rp == input[r].journey IN
    /\ pc[r] = "begin" /\ input[r].op = "finalise"
    /\ IsDraft(rp)
    /\ Track(r, [tracker[r] EXCEPT !.journey = rp, !.seen = SeenIn(r, rp),
                                   !.loaded = @ \cup PointsIn(rp), !.next = 1])
    /\ pc' = [pc EXCEPT ![r] = "types"]
    /\ UNCHANGED <<database, input, stale, attempt>>

\* GetDraft found the report: FinaliseReport changes the tracked row.
GetDraft(r) ==
    LET rp == input[r].journey IN
    /\ pc[r] = "begin" /\ input[r].op = "finalise"
    /\ IsDraft(rp)
    /\ Track(r, [tracker[r] EXCEPT !.journey = rp, !.status = "submitted",
                                   !.seen = SeenIn(r, rp),
                                   !.loaded = @ \cup PointsIn(rp), !.next = 1])
    /\ pc' = [pc EXCEPT ![r] = "types"]
    /\ UNCHANGED <<database, input, stale, attempt>>

\* GetDraft found no draft: InvalidOperationException, a 400.
DraftNotFound(r) ==
    /\ pc[r] = "begin" /\ input[r].op = "finalise"
    /\ ~ IsDraft(input[r].journey)
    /\ Dispose(r)
    /\ UNCHANGED <<database, stale>>

BuildTypeCache(r) ==
    /\ pc[r] = "types" /\ input[r].op = "finalise"
    /\ pc' = [pc EXCEPT ![r] = "entries"]
    /\ UNCHANGED <<database, input, tracker, stale, attempt>>

\* Faulty: the lookup compares the client's id and finds nothing.
Found_Never(r, id) == FALSE

\* An object of the report as the context holds it.
Found(r, id) ==
    id \in Object /\ tracker[r].seen[id] # "none" /\ id \notin tracker[r].removed

CurrentEntry(r) == input[r].entries[tracker[r].next]
MoreEntries(r) == tracker[r].next <= Len(input[r].entries)

\* Where an entry has points that are at none of the object's positions.
NewPoints(r, e) ==
    LET existingPoints == {p.at : p \in {q \in tracker[r].loaded \cup tracker[r].placed :
                                            q.object = e.id}}
    IN  {i \in DOMAIN e.points : e.points[i] \notin existingPoints}

DeleteObject(r) ==
    LET e == CurrentEntry(r) IN
    /\ pc[r] = "entries" /\ MoreEntries(r) /\ e.op = "delete"
    /\ Track(r, [tracker[r] EXCEPT !.next = @ + 1,
                    !.removed = IF Found(r, e.id) THEN @ \cup {e.id} ELSE @])
    /\ UNCHANGED <<database, pc, input, stale, attempt>>

\* ProcessObject, the object is in the report: UpdateObject.
UpdateObject(r) ==
    LET e == CurrentEntry(r) IN
    /\ pc[r] = "entries" /\ MoreEntries(r) /\ e.op # "delete"
    /\ Found(r, e.id)
    /\ Track(r, [tracker[r] EXCEPT !.next = @ + 1,
                    !.edited = IF e.op = "edit" THEN @ \cup {e.id} ELSE @,
                    !.placed = @ \cup AddPoints(e.id, e.points, NewPoints(r, e))])
    /\ UNCHANGED <<database, pc, input, stale, attempt>>

\* ProcessObject, the object is not in the report: CreateObject, under a new key.
CreateObject(r) ==
    LET e == CurrentEntry(r) IN
    /\ pc[r] = "entries" /\ MoreEntries(r) /\ e.op # "delete"
    /\ ~ Found(r, e.id)
    /\ \E new \in FreshObjects :
           Track(r, [tracker[r] EXCEPT !.next = @ + 1, !.added = @ \cup {new},
                        !.placed = @ \cup AddPoints(new, e.points, DOMAIN e.points)])
    /\ UNCHANGED <<database, pc, input, stale, attempt>>

EntriesDone(r) ==
    /\ pc[r] = "entries" /\ ~ MoreEntries(r)
    /\ pc' = [pc EXCEPT ![r] = "commit"]
    /\ UNCHANGED <<database, input, tracker, stale, attempt>>

-----------------------------------------------------------------------------
(* ExecuteInTransactionAsync around SyncObject and Finalise. *)

\* The operation is waiting for the database.
AtQuery(r) ==
    /\ input[r].op \in {"sync", "finalise"}
    /\ \/ pc[r] \in {"begin", "types"}
       \/ /\ pc[r] = "entries" /\ MoreEntries(r)
          /\ CurrentEntry(r).op = "delete" /\ Found(r, CurrentEntry(r).id)

\* Faulty: the retries are not counted.
TransientError_Forever(r) ==
    /\ AtQuery(r)
    /\ pc' = [pc EXCEPT ![r] = "begin"]
    /\ stale' = [stale EXCEPT ![r] = {}]
    /\ UNCHANGED <<database, input, tracker, attempt>>

\* Faulty: one retry too many.
TransientError_OneMore(r) ==
    /\ AtQuery(r) /\ attempt[r] <= MaxRetry
    /\ pc' = [pc EXCEPT ![r] = "begin"]
    /\ attempt' = [attempt EXCEPT ![r] = @ + 1]
    /\ stale' = [stale EXCEPT ![r] = {}]
    /\ UNCHANGED <<database, input, tracker>>

\* A transient error of a query: the transaction is rolled back and the strategy
\* runs the operation again, on the context as the failed attempt left it.
TransientError(r) ==
    /\ AtQuery(r) /\ attempt[r] < MaxRetry
    /\ pc' = [pc EXCEPT ![r] = "begin"]
    /\ attempt' = [attempt EXCEPT ![r] = @ + 1]
    /\ stale' = [stale EXCEPT ![r] = {}]
    /\ UNCHANGED <<database, input, tracker>>

\* Faulty: the report row is not written.
Written_NoReport(r) == tracker[r].edited \cup tracker[r].removed

\* Faulty: a removed row is taken out without looking at it.
Written_NoRemoved(r) ==
    tracker[r].edited \cup (IF tracker[r].status = "submitted" THEN {tracker[r].journey}
                                                              ELSE {})

\* The existing rows SaveChanges updates or removes.
Written(r) ==
    LET t == tracker[r] IN
    t.edited \cup t.removed \cup (IF t.status = "submitted" THEN {t.journey} ELSE {})

\* The database takes the rows: those to change are there and, where it looks,
\* unchanged; points belong to a row; (object, Order) is unique.
Accepted(r) ==
    LET t == tracker[r]
        all == points \cup t.placed
    IN  /\ \A o \in t.edited \cup t.removed : Exists(o)
        /\ ConflictDetection => Written(r) \cap stale[r] = {}
        /\ \A p \in t.placed : p.object \in t.added \/ Exists(p.object)
        /\ \A p, q \in all : p.object = q.object /\ p.order = q.order => p = q

\* CommitTransactionAsync: SaveChanges and COMMIT.  When either fails the only
\* step is Fail: the error is replaced by a NullReferenceException from the
\* finally block and never retried.
CommitTransaction(r) ==
    LET t == tracker[r] IN
    /\ pc[r] = "commit" /\ input[r].op \in {"sync", "finalise"}
    /\ Accepted(r)
    /\ report' = [rp \in Report |->
                     IF rp \in t.drafts THEN "draft"
                     ELSE IF rp = t.journey /\ t.status = "submitted" THEN "submitted"
                     ELSE report[rp]]
    /\ object' = [o \in Object |->
                     IF o \in t.added THEN [report |-> t.journey, status |-> "draft"]
                     ELSE IF o \in t.removed THEN [object[o] EXCEPT !.status = "deleted"]
                     ELSE object[o]]
    /\ points' = {p \in points : p.object \notin t.removed} \cup t.placed
    /\ Dispose(r)
    /\ MarkStale(r, Written(r))

-----------------------------------------------------------------------------
(* ObjectReview. *)

ReviewRead(r) ==
    LET rp == input[r].journey IN
    /\ pc[r] = "begin" /\ input[r].op = "review"
    /\ input[r].object \in ObjectsOf(rp)
    /\ Track(r, [tracker[r] EXCEPT !.journey = rp, !.status = report[rp],
                                   !.seen = StatusesIn(rp)])
    /\ pc' = [pc EXCEPT ![r] = "commit"]
    /\ UNCHANGED <<database, input, stale, attempt>>

\* The object is gone: the error view.
ObjectNotFound(r) ==
    /\ pc[r] = "begin" /\ input[r].op = "review"
    /\ input[r].object \notin ObjectsOf(input[r].journey)
    /\ Dispose(r)
    /\ UNCHANGED <<database, stale>>

\* Faulty: the save writes the whole report row (DbSet.Update).
ReviewSave_WholeRow(r) ==
    LET t == tracker[r]
        o == input[r].object
        new == Outcome([t.seen EXCEPT ![o] = input[r].verdict], t.status)
    IN  /\ pc[r] = "commit" /\ input[r].op = "review"
        /\ Exists(o)
        /\ object' = [object EXCEPT ![o].status =
                         IF t.seen[o] = input[r].verdict THEN @ ELSE input[r].verdict]
        /\ report' = [report EXCEPT ![t.journey] = new]
        /\ UNCHANGED points
        /\ Dispose(r)
        /\ MarkStale(r, {o, t.journey})

\* SaveChanges: only the columns that differ from what was read are written,
\* whatever the rows hold by now; the object's row is always among them
\* (VerifiedAt), and a row that is gone fails the save.
ReviewSave(r) ==
    LET t == tracker[r]
        o == input[r].object
        new == Outcome([t.seen EXCEPT ![o] = input[r].verdict], t.status)
    IN  /\ pc[r] = "commit" /\ input[r].op = "review"
        /\ Exists(o)
        /\ object' = [object EXCEPT ![o].status =
                         IF t.seen[o] = input[r].verdict THEN @ ELSE input[r].verdict]
        /\ report' = [report EXCEPT ![t.journey] = IF new = t.status THEN @ ELSE new]
        /\ UNCHANGED points
        /\ Dispose(r)
        /\ MarkStale(r, {o} \cup (IF new = t.status THEN {} ELSE {t.journey}))

-----------------------------------------------------------------------------
Handle(r) ==
    \/ GetOrCreateDraft(r) \/ SyncObject(r)
    \/ GetDraft(r) \/ DraftNotFound(r) \/ BuildTypeCache(r)
    \/ DeleteObject(r) \/ UpdateObject(r) \/ CreateObject(r) \/ EntriesDone(r)
    \/ TransientError(r) \/ CommitTransaction(r)
    \/ ReviewRead(r) \/ ObjectNotFound(r) \/ ReviewSave(r)
    \/ Fail(r)

Receive(r) == ReceiveSync(r) \/ ReceiveFinalise(r) \/ ReceiveReview(r)

Next == \E r \in Request : Receive(r) \/ Handle(r)

Spec == Init /\ [][Next]_vars

\* ASP.NET runs every request it accepted to its end.
Fairness == \A r \in Request : WF_vars(Handle(r))
FairSpec == Spec /\ Fairness

=============================================================================
