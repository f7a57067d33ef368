----------------------------- MODULE JourneySync -----------------------------
(***************************************************************************)
(* The map page of one pilot and the server together: what the page thinks *)
(* of a journey against what the tables hold of it.  The server serves     *)
(* each call at once, as AtomicJourney says and JourneyServer carries out, *)
(* or refuses it; calls are served and answered in any order.              *)
(***************************************************************************)
EXTENDS JourneyTables

CONSTANTS Local, Modes, MaxPoints, MaxSubmits, Hasty, LostCalls,
          ReviewOf      \* statuses of the reports administrators review

VARIABLES currentJourney, finishedJourney, placeMode, currentObjectPoints,
          showTypeSelector, placed, serverId, deleted, rewritten,
          sync, syncing, submit, submitting,
          origin    \* history: the object of the page each row was made for

Client == INSTANCE JourneyClient

\* The state of the page: everything but the calls that are under way.
page == <<currentJourney, finishedJourney, placeMode, currentObjectPoints,
          showTypeSelector, placed, serverId, deleted, rewritten, syncing, submitting>>
vars == <<page, sync, submit, report, object, origin>>

NoId == Client!NoId
NoOrigin == "nobody"

ASSUME OriginAssumption == NoOrigin \notin Local
ASSUME ClientAssumptions == Client!ClientKeys /\ Client!ClientBounds
ASSUME ReviewAssumption == ReviewOf \subseteq ReportStatus

Init ==
    /\ Client!Init
    /\ report = [rp \in Report |-> "none"]
    /\ object = [o \in Object |-> NoRow]
    /\ origin = [o \in Object |-> NoOrigin]

-----------------------------------------------------------------------------
(* The server. *)

\* Faulty: GetOrCreateDraft takes the latest draft of the user.
DraftFor_AnyDraft(rp) ==
    LET drafts == {d \in Report : report[d] = "draft"} IN
    IF drafts # {} THEN drafts ELSE {d \in Report : report[d] = "none"}

\* GetOrCreateDraft: the draft that was named, or else a new one.
DraftFor(rp) ==
    IF rp \in Report /\ report[rp] = "draft" THEN {rp}
    ELSE {d \in Report : report[d] = "none"}

\* SyncObject.
ServeSync(l) ==
    /\ sync[l].state = "asked"
    /\ \E rp \in DraftFor(sync[l].journey), o \in Object :
           /\ object[o] = NoRow
           /\ report' = [report EXCEPT ![rp] = "draft"]
           /\ object' = [object EXCEPT ![o] = [report |-> rp, status |-> "draft"]]
           /\ origin' = [origin EXCEPT ![o] = l]
           /\ sync' = [sync EXCEPT ![l] = [state |-> "answered", journey |-> rp,
                                           object |-> o]]
    /\ UNCHANGED <<page, submit>>

\* Faulty: a deleted entry is kept.
Found_Kept(l, rp, entries) == l \in entries.kept /\ entries.ids[l] \in ObjectsOf(rp)

\* The entries the server finds in the report.
Found(l, rp, entries) == entries.ids[l] \in ObjectsOf(rp)

\* Faulty: each entry is taken for a new object.
Unknown_All(rp, entries) == entries.kept

\* The entries the server makes new objects for.
Unknown(rp, entries) == {l \in entries.kept : ~ Found(l, rp, entries)}

\* FinalizeJourney.
ServeSubmit(n) ==
    LET rp == submit[n].journey
        entries == submit[n].entries
        removed == {entries.ids[l] : l \in {k \in entries.dropped : Found(k, rp, entries)}}
        new == Unknown(rp, entries)
    IN  /\ submit[n].state = "asked"
        /\ rp \in Report /\ report[rp] = "draft"
        /\ report' = [report EXCEPT ![rp] = "submitted"]
        /\ \E key \in [new -> {o \in Object : object[o] = NoRow}] :
               /\ \A k, l \in new : key[k] = key[l] => k = l
               /\ object' = [o \in Object |->
                      IF o \in removed THEN [object[o] EXCEPT !.status = "deleted"]
                      ELSE IF \E l \in new : key[l] = o
                           THEN [report |-> rp, status |-> "draft"]
                           ELSE object[o]]
               /\ origin' = [o \in Object |->
                      IF \E l \in new : key[l] = o THEN CHOOSE l \in new : key[l] = o
                      ELSE origin[o]]
        /\ submit' = [submit EXCEPT ![n] = Client!SubmitIs("accepted")]
        /\ UNCHANGED <<page, sync>>

\* An error before anything is committed, or a submission of what is no draft.
Refuse ==
    /\ \/ /\ \E l \in Local : /\ sync[l].state = "asked"
                              /\ sync' = [sync EXCEPT ![l] = Client!SyncIs("refused")]
          /\ UNCHANGED submit
       \/ /\ \E n \in 1..MaxSubmits :
                /\ submit[n].state = "asked"
                /\ submit' = [submit EXCEPT ![n] = Client!SubmitIs("refused")]
          /\ UNCHANGED sync
    /\ UNCHANGED <<page, report, object, origin>>

\* ObjectReview, of an administrator.
Review ==
    \E o \in Object, verdict \in Decided :
        LET rp == object[o].report IN
        /\ Exists(o) /\ report[rp] \in ReviewOf
        /\ object' = [object EXCEPT ![o].status = verdict]
        /\ report' = [report EXCEPT ![rp] =
                         Outcome([StatusesIn(rp) EXCEPT ![o] = verdict], @)]
        /\ UNCHANGED <<page, sync, submit, origin>>

Server == \/ \E l \in Local : ServeSync(l)
          \/ \E n \in 1..MaxSubmits : ServeSubmit(n)
          \/ Refuse

\* The page takes a step of its own.
PageStep == (Client!User \/ Client!Answer) /\ UNCHANGED <<report, object, origin>>

Next == PageStep \/ Server \/ Review
Spec == Init /\ [][Next]_vars

-----------------------------------------------------------------------------
(* Properties. *)

\* The types of the page and the tables.
TypeOK ==
    /\ Client!TypeOK
    /\ report \in [Report -> ReportStatus \cup {"none"}]
    /\ object \in [Object -> ObjectRow]
    /\ origin \in [Object -> Local \cup {NoOrigin}]

\* The rows made for an object of the page that are still there.
RowsOf(l) == {o \in Object : origin[o] = l /\ Exists(o)}

\* The id the page has for an object is the id of a row made for that object,
\* in whatever order the answers arrive, are dropped or are overtaken by what
\* the user does: no object is ever removed or kept in another one's place.
RightIds ==
    \A l \in Local : serverId[l] # NoId => serverId[l] \in Object /\ origin[serverId[l]] = l

\* The call of an object has an answer or nobody waits for one.
Settled(l) == sync[l].state \in {"none", "over"}

\* The journey the page shows and its report agree: a row made for an object of
\* the journey is in the report the journey is known by, and that report has no
\* rows of other objects (SyncObject: "til en paagaaende reise").
Agrees(j) ==
    \A l \in Local : Settled(l) =>
        \A o \in RowsOf(l) : l \in j.objects <=> object[o].report = j.id
JourneyIsReport ==
    /\ currentJourney # Client!Null => Agrees(currentJourney)
    /\ finishedJourney # Client!Null /\ submitting = 0 => Agrees(finishedJourney)

\* No object of the page is stored twice.
StoredOnce == \A l \in Local : \A o, p \in RowsOf(l) : o = p

\* The answer to a submission makes the page let go of the finished journey.
LetsGo == /\ finishedJourney # Client!Null /\ finishedJourney' = Client!Null
          /\ currentJourney' = Client!Null /\ submitting' # submitting
HandedIn == {"submitted"} \cup Decided
SubmittedRowsOf(l) == {o \in RowsOf(l) : report[object[o].report] \in HandedIn}

\* No object is lost: the page lets go of a journey only when every object of it
\* that the user has not deleted is in a submitted report.
Delivered ==
    [][LetsGo => \A l \in finishedJourney.objects \ deleted :
                     SubmittedRowsOf(l) # {}]_vars

\* What the user deleted is gone: none of it is in a submitted report when the
\* page lets go of the journey.
DeletedGone ==
    [][LetsGo => \A l \in finishedJourney.objects \cap deleted :
                     SubmittedRowsOf(l) = {}]_vars

\* What is submitted is the journey: when the page lets go of it, its report is handed
\* in and has exactly one row of each object the user kept, which has no other row
\* anywhere, and no row of anything else, although the rows came one by one, some with
\* an id the page was told and some with the submission.
SubmittedIsJourney ==
    [][LetsGo => LET rp == finishedJourney.id
                     kept == finishedJourney.objects \ deleted
                 IN  /\ rp \in Report /\ report[rp] \in HandedIn
                     /\ \A l \in kept : \E o \in ObjectsOf(rp) : RowsOf(l) = {o}
                     /\ \A o \in ObjectsOf(rp) : origin[o] \in kept]_vars

\* The status of a report is what its objects' verdicts make it, in whatever order they
\* are given: one that waits for review has an object to review, so that it is decided
\* some day; it is closed when all were rejected and resolved when one was accepted.
StatusIsVerdicts ==
    \A rp \in Report : ObjectsOf(rp) # {} =>
        LET verdicts == {object[o].status : o \in ObjectsOf(rp)} IN
        /\ report[rp] = "draft" => verdicts = {"draft"}
        /\ report[rp] = "submitted" => "draft" \in verdicts
        /\ report[rp] = "resolved" => "resolved" \in verdicts /\ "draft" \notin verdicts
        /\ report[rp] = "closed" => verdicts = {"closed"}
=============================================================================
