------------------------- MODULE JourneyRequirements -------------------------
(***************************************************************************)
(* What JourneyServer must do: the properties TLC checks and, at the end,  *)
(* the inductive invariant from which JourneyServerProofs derives them.    *)
(***************************************************************************)
EXTENDS JourneyServer

\* The types of the tables and of what the handlers hold in memory; while a
\* transaction is open its report and the message it works on are known.
TypeOK ==
    /\ report \in [Report -> ReportStatus \cup {"none"}]
    /\ object \in [Object -> ObjectRow]
    /\ points \in SUBSET Point
    /\ pc \in [Request -> {"idle", "begin", "types", "entries", "commit"}]
    /\ input \in [Request -> SyncInput \cup FinaliseInput \cup ReviewInput
                                          \cup {NoInput}]
    /\ tracker \in [Request -> Tracker]
    /\ stale \in [Request -> SUBSET (Report \cup Object)]
    /\ attempt \in [Request -> 0..MaxRetry]

\* The status of a report only moves forward: no step reopens a report that was
\* submitted, and a report an administrator decided stays decided, although
\* Finalise and ObjectReview both write a status computed from an earlier read.
Moves == {<<"none", "draft">>, <<"draft", "submitted">>} \cup
         ({"draft", "submitted"} \X Decided) \cup (Decided \X Decided)
LifecycleOK ==
    [][\A rp \in Report : report'[rp] # report[rp]
                            => <<report[rp], report'[rp]>> \in Moves]_vars

\* A journey is finalised once: whenever a Finalise takes effect its report is
\* still a draft, so a second submission, or one racing a review, writes nothing.
SubmitOnce ==
    [][\A r \in Request :
          pc[r] = "commit" /\ input[r].op = "finalise" /\ database' # database
              /\ pc'[r] = "idle"
            => report[tracker[r].journey] = "draft"]_vars

\* A Finalise in its first attempt removes an object only if no verdict was given
\* on it since the Finalise read the report.  (A retry reads in a new transaction
\* but keeps the tracked values: what was saved between the attempts it misses.)
VerdictSeen ==
    [][\A r \in Request, o \in Object :
          pc[r] = "commit" /\ pc'[r] = "idle" /\ attempt[r] = 0 /\ Exists(o)
              /\ object'[o].status = "deleted"
            => object[o].status = tracker[r].seen[o]]_vars

\* What ObjectReview decides is true of the objects in the table: a resolved
\* report has no object without a verdict and an accepted one, a closed report
\* has rejected ones only ("Alle objekter er gjennomgaatt", "... avslaatt").
DecisionSound ==
    \A rp \in Report :
        LET statuses == {object[o].status : o \in ObjectsOf(rp)} IN
        /\ report[rp] = "resolved" => "resolved" \in statuses /\ "draft" \notin statuses
        /\ report[rp] = "closed" => statuses = {"closed"}

\* A submitted report whose objects all have a verdict is decided by these verdicts:
\* closed when all were rejected ("Alle objekter er avslaatt"), else resolved ("Alle
\* objekter er gjennomgaatt"), in whatever order the verdicts were given and saved.
DecidedByVerdicts ==
    \A rp \in Report :
        LET statuses == {object[o].status : o \in ObjectsOf(rp)} IN
        report[rp] \in ReportStatus \ {"draft"} /\ statuses # {} /\ "draft" \notin statuses
            => report[rp] = IF statuses = {"closed"} THEN "closed" ELSE "resolved"

\* The verdict that leaves no object of a report without one decides the report:
\* it does not wait for a review that nobody will make.
DecisionComplete ==
    [][\A rp \in Report :
          /\ \E o \in ObjectsOf(rp) : object'[o].status \in Decided \ {object[o].status}
          /\ \A o \in ObjectsOf(rp)' : object'[o].status \in Decided
        => report'[rp] \in Decided]_vars

\* An object is only ever added to a report that is a draft, or that becomes
\* one or is submitted in the same transaction: never behind a reviewer's back.
ObjectsJoinDrafts ==
    [][\A o \in Object : ~ Exists(o) /\ Exists(o)'
            => report[object'[o].report] \in {"none", "draft"}]_vars

\* A draft report is created together with its first object and keeps one: no
\* empty journey is left behind by a SyncObject that failed half way.
NoEmptyDraft ==
    \A rp \in Report : report[rp] = "draft" => ObjectsOf(rp) # {}

\* A Finalise adds no more objects than its request has entries the server does
\* not know: no object of a journey is stored twice.
EntriesOnce ==
    [][\A r \in Request :
          pc[r] = "commit" /\ pc'[r] = "idle" /\ input[r].op = "finalise"
            => LET list == input[r].entries
                   unknown == {i \in DOMAIN list :
                                 list[i].id = Unsynced /\ list[i].op # "delete"}
               IN  Cardinality({o \in Object : ~ Exists(o) /\ Exists(o)'})
                     <= Cardinality(unknown)]_vars

\* The points of an object are numbered 0, 1, 2, ... without a gap, although
\* AddPoints starts from 0 each time; no point outlives its object.
PointsWellFormed ==
    \A o \in Object :
        LET orders == {p.order : p \in {q \in points : q.object = o}} IN
        /\ orders # {} => Exists(o)
        /\ \A n \in orders : 0..n \subseteq orders

\* The handlers implement AtomicJourney: what a request changes it changes at
\* once and completely, whatever fails on the way.
Atomic == INSTANCE AtomicJourney
AtomicSpec == Atomic!Spec

\* With requests at the same time, retries and conflict detection they implement
\* OptimisticJourney: a Finalise is still atomic, a SyncObject may come late, and
\* an ObjectReview may decide by old verdicts, or keep a newer one on its object.
Optimistic == INSTANCE OptimisticJourney
OptimisticSpec == Optimistic!OptimisticSpec

\* Every request is answered: retries and the loop over the entries end.
RequestsEnd == \A r \in Request : pc[r] # "idle" ~> pc[r] = "idle"

-----------------------------------------------------------------------------
(* The inductive invariant behind LifecycleOK, SubmitOnce and VerdictSeen. *)

\* Where each operation can be, and that it then works on a report.
ControlFits(r) ==
    /\ (pc[r] = "idle") <=> (input[r].op = "none")
    /\ input[r].op = "sync" => pc[r] \in {"begin", "types", "commit"}
    /\ input[r].op = "review" => pc[r] \in {"begin", "commit"}
    /\ pc[r] \in {"types", "entries", "commit"} => tracker[r].journey \in Report
ControlOK == \A r \in Request : ControlFits(r)

\* What a request holds in memory fits what it was asked to do.
TrackerFits(r) ==
    LET t == tracker[r] IN
    /\ input[r].op = "none" => t = NoTracker
    /\ input[r].op = "sync" => t.status = "none" /\ t.edited = {} /\ t.removed = {}
    /\ input[r].op = "finalise" =>
          /\ t.drafts = {}
          /\ pc[r] # "begin" => t.journey = input[r].journey /\ t.status = "submitted"
    /\ input[r].op = "review" =>
          /\ t.drafts = {} /\ t.added = {} /\ t.edited = {} /\ t.removed = {}
          /\ pc[r] = "commit" => t.status \in ReportStatus

\* The first attempt starts with nothing in memory.
StartsEmpty(r) == pc[r] = "begin" /\ attempt[r] = 0 => tracker[r] = NoTracker

\* No two requests insert under the same key, and none over a row.
FreshKeys ==
    \A r \in Request :
        /\ \A rp \in tracker[r].drafts : report[rp] = "none"
        /\ \A o \in tracker[r].added : object[o] = NoRow
        /\ \A q \in Request \ {r} :
              /\ tracker[q].drafts \cap tracker[r].drafts = {}
              /\ tracker[q].added \cap tracker[r].added = {}

\* A row's report is a row, and so is the report a request works on, unless
\* the request is about to insert it.
References ==
    /\ \A o \in Object : Exists(o) =>
          object[o].report \in Report /\ report[object[o].report] \in ReportStatus
    /\ \A r \in Request :
          /\ input[r].op \in {"finalise", "review"} =>
                report[input[r].journey] \in ReportStatus
          /\ pc[r] \in {"types", "entries", "commit"} =>
                \/ tracker[r].journey \in tracker[r].drafts
                \/ report[tracker[r].journey] \in ReportStatus

\* What the transaction of a Finalise has read still holds of every row that is
\* not stale, the verdicts as long as no retry reuses what an earlier attempt read;
\* and a row it removes was in the report when it was read.
SnapshotHolds(r) ==
    LET t == tracker[r] IN
    InTransaction(r) =>
        /\ t.journey \notin stale[r] => report[t.journey] = "draft"
        /\ \A o \in Object : attempt[r] = 0 /\ t.seen[o] # "none" /\ o \notin stale[r]
                             => object[o].status = t.seen[o]
        /\ \A o \in t.removed : t.seen[o] # "none"

\* What a Finalise has seen or removes, over all its attempts, belongs to its
\* report, and is gone only if the report was submitted meanwhile.
Known(r) == tracker[r].removed \cup {o \in Object : tracker[r].seen[o] # "none"}
KnownBelong(r) ==
    input[r].op = "finalise" =>
        \A o \in Known(r) :
            /\ object[o].report = input[r].journey
            /\ object[o].status # "none"
            /\ report[input[r].journey] = "draft" => Exists(o)

\* The inductive invariant of the optimistic transactions: with it a commit the
\* database accepts changes only rows that are as the transaction read them.
Consistent ==
    /\ ControlOK /\ FreshKeys /\ References
    /\ \A r \in Request : /\ TrackerFits(r) /\ StartsEmpty(r)
                         /\ SnapshotHolds(r) /\ KnownBelong(r)
=============================================================================
